SPECIFICATION Spec
CONSTANTS
  db = db
  cache = cache
  http = http
  prom = prom
  main = main
  other = other
  Checks = {db}
  Reporters = {http}
  AffectsLiveness = {db}
  AffectsReadiness = {}
  AffectsStartup = {}
  CheckAtInterval = {db}
  CheckAfter = {}
  ZeroInterval = {}
  Listeners = {}
  Outcomes = {"healthy"}
  App = {main}
  MaxRuns = 1
INVARIANTS NotReadyAfterStop
CHECK_DEADLOCK FALSE
