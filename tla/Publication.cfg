SPECIFICATION PartsSpec
CONSTANTS
  k1 = k1  k2 = k2  c1 = c1  c2 = c2  q1 = q1  q2 = q2  q3 = q3
  NoKey = NoKey
  Calls = {c1, c2}
  Keys = {k1, k2}
  MaxSnapshots = 2
  MaxPubFaults = 1
  Requests = {q1, q2, q3}
  MaxPuts = 2
  MaxPubCrashes = 1
  Absent = Absent
  MaxRestarts = 1
CHECK_DEADLOCK FALSE
INVARIANTS RunsAreBacked StoredIsJudged
PROPERTIES ReadyStays EveryCallEnds VerdictLostOnlyToStaleReader 
