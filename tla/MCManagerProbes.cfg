SPECIFICATION Spec
CONSTANTS
  db = db
  cache = cache
  http = http
  prom = prom
  main = main
  other = other
  Checks = {db, cache}
  Reporters = {http}
  AffectsLiveness = {db}
  AffectsReadiness = {cache}
  AffectsStartup = {cache}
  CheckAtInterval = {db}
  CheckAfter = {}
  ZeroInterval = {}
  Listeners = {}
  Outcomes = {"healthy", "degraded", "panic"}
  App = {main}
  MaxRuns = 1
INVARIANTS TypeOK ReadinessAccurate StartupBeforeReady
PROPERTIES ImplementsPromise FirstRunGate ReadyFlipJustified LiveLossJustified
CHECK_DEADLOCK FALSE
