SPECIFICATION FairSpec
CONSTANTS
  e1 = e1  e2 = e2  r1 = r1  q1 = q1  o1 = o1
  None = None
  Executions = {e1, e2}
  ManualExecutions = {e2}
  Runners = {r1}
  Requests = {q1}
  Operators = {o1}
  MAX_ATTEMPTS = 2
  CLAIM_BATCH_SIZE = 2
  MaxRedrives = 1
  MaxFaults = 0
  MaxCrashes = 0
INVARIANTS ExclusiveProcessing AttemptsAreAccountedFor
PROPERTIES SettledStays NeverLost
CHECK_DEADLOCK FALSE
