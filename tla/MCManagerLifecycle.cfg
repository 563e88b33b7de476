SPECIFICATION FairSpec
CONSTANTS
  db = db
  cache = cache
  http = http
  prom = prom
  main = main
  other = other
  Checks = {db, cache}
  Reporters = {http}
  AffectsLiveness = {cache}
  AffectsReadiness = {}
  AffectsStartup = {db}
  CheckAtInterval = {}
  CheckAfter = {}
  ZeroInterval = {}
  Listeners = {http}
  Outcomes = {"healthy", "nil"}
  App = {main, other}
  MaxRuns = 1
INVARIANTS StopExclusive
PROPERTIES LatchSound ShutdownCompletes ReadyEventually
CHECK_DEADLOCK FALSE
