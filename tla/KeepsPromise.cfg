SPECIFICATION PartsSpec
CONSTANTS
  e1 = e1  r1 = r1  q1 = q1  o1 = o1  c1 = c1  c2 = c2
  ada = ada  bob = bob  acme = acme  globex = globex
  None = None
  Executions = {e1}
  Keys = {e1}
  NoKey = NoKey
  ManualExecutions = {e1}
  Runners = {r1}
  Requests = {q1}
  Operators = {o1}
  Calls = {c1, c2}
  MAX_ATTEMPTS = 2
  CLAIM_BATCH_SIZE = 2
  MaxRedrives = 1
  MaxFaults = 0
  MaxCrashes = 0
  MaxSnapshots = 2
  MaxTimeouts = 0
  MaxPubFaults = 0
  MaxPubCrashes = 0
  Users = {ada, bob}
  TenantOf <- MCTenantOf
  Unset = Unset
  MaxAttempts = 2
CHECK_DEADLOCK FALSE
SYMMETRY Symmetry
PROPERTIES KeepsPromise
 
