SPECIFICATION FairSpec
CONSTANTS
  s1 = s1  s2 = s2  w1 = w1  w2 = w2  r1 = r1  r2 = r2
  Null = Null
  Subscriptions = {s1}
  Periods = {0, 1, 2}
  Invalid <- ThrowsOnce
  Scanners = {w1}
  Reconcilers = {r1, r2}
  MissedRunPolicy = "RUN_LATEST"
  Grace = 0
  MaxTime = 3
  MaxLag = 0
  MaxEdits = 1
  MaxCrashes = 1
 
PROPERTIES ProjectionConverges DueIsRun
