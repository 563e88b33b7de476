SPECIFICATION Spec
CONSTANTS
  db = db
  cache = cache
  http = http
  prom = prom
  main = main
  other = other
  Checks = {cache}
  Reporters = {http}
  AffectsLiveness = {}
  AffectsReadiness = {}
  AffectsStartup = {cache}
  CheckAtInterval = {}
  CheckAfter = {}
  ZeroInterval = {}
  Listeners = {}
  Outcomes = {"healthy", "unhealthy"}
  App = {main}
  MaxRuns = 1
PROPERTIES StartupChecksPassed
CHECK_DEADLOCK FALSE
