SPECIFICATION FairSpec
CONSTANTS
  db = db
  cache = cache
  m1 = m1
  u1 = u1
  u2 = u2
  c1 = c1
  Checks = {db, cache}
  Poisoned = {db}
  Providers = {m1}
  Updaters = {u1, u2}
  Clients = {c1}
  Toggled = {"live"}
  MaxUpdates = 2
  MaxRuns = 1
INVARIANTS TypeOK CacheCoherent BodyNotOlder
PROPERTIES Responds StopReturns
CHECK_DEADLOCK FALSE
