SPECIFICATION PartsSpec
CONSTANTS
  x1 = x1  x2 = x2  y1 = y1  y2 = y2  k1 = k1  u1 = u1
  None = None  Nil = Nil
  Subs = {x1, x2}
  Requests = {y1, y2}
  Keys = {k1}
  KeyedOperations = {"create"}
  MaxVersion = 3
  MaxChanges = 1
  Events = {1, 2}
  Dates = {1, 2}
  Writers = {x1, x2}
  Refreshers = {y1, y2}
  Clients = {u1}
  PageSize = 1
  LastVersion = 2
  MaxStamp = 2
  MaxRefreshes = 2
  ingestion = ingestion  run = run  job = job  version1 = version1  migration = migration
  subscription = subscription  execution = execution  publication = publication
  Users = {x1, x2}
  Items = {ingestion, run, job, version1, migration, subscription, execution, publication}
  KindOf <- MCKindOf
  Empty = Empty
  MaxCalls = 2
  Filters = {"ALL", "FAILED"}
  Shops = {{ingestion}, {job}, {version1}, {migration}, {subscription}, {run}, {execution}, {publication}}
SYMMETRY Symmetry
INVARIANTS RequestsAreIsolated ReadsAreConsistent ConsoleTellsTheTruth
PROPERTIES TransitionsAreLegal DenialIsNotLost RefreshesMoveForward
