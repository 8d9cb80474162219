SPECIFICATION PartsSpec
CONSTANTS
  s1 = s1  q1 = q1  q2 = q2  ann = ann  bob = bob
  None = None
  LastVersion = 3
  NextMajor = 2
  Subs = {s1}
  OptedIn = {s1}
  Pinned = {}
  Requests = {q1, q2}
  MaxCommands = 2
  Policies <- MCPolicies
  Judged = {2}
  Callers = {ann, bob}
  MaxRegistrations = 3
INVARIANTS VersionsAreConsistent  HistoryKeepsContracts
PROPERTIES LifecycleIsLegal 
