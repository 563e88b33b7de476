SPECIFICATION Spec
CONSTANTS
  db = db
  cache = cache
  http = http
  prom = prom
  main = main
  other = other
  Checks = {db}
  Reporters = {http}
  AffectsLiveness = {db}
  AffectsReadiness = {}
  AffectsStartup = {}
  CheckAtInterval = {}
  CheckAfter = {}
  ZeroInterval = {}
  Listeners = {}
  Outcomes = {"healthy", "unhealthy"}
  App = {main}
  MaxRuns = 1
INVARIANTS LivenessAccurate
CHECK_DEADLOCK FALSE
