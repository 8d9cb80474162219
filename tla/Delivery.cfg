SPECIFICATION DeliverySpec
CONSTANTS
  e1 = e1  e2 = e2  r1 = r1  r2 = r2  q1 = q1  o1 = o1  o2 = o2  c1 = c1  c2 = c2  c3 = c3
  None = None
  Executions = {e1}
  Keys = {e1}
  NoKey = NoKey
  ManualExecutions = {}
  Runners = {r1}
  Requests = {}
  Operators = {o1}
  Calls = {c1, c2}
  MAX_ATTEMPTS = 2
  CLAIM_BATCH_SIZE = 2
  MaxRedrives = 0
  MaxFaults = 1
  MaxCrashes = 1
  MaxSnapshots = 2
  MaxTimeouts = 1
  MaxPubFaults = 1
  MaxPubCrashes = 0

CHECK_DEADLOCK FALSE
SYMMETRY Symmetry
INVARIANTS DeliveriesAreSound 
