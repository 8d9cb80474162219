SPECIFICATION FairSpec
CONSTANTS
  k1 = k1  k2 = k2
  None = None
  Batches = {1, 2}
  Keys = {k1, k2}
  KeysOf <- MCKeysOf
  Callers = {1, 2}
  MaxExtra = 1
  
PROPERTIES SilverFollowsTheQueue 
CHECK_DEADLOCK FALSE
