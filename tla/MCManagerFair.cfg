SPECIFICATION FairSpec
CONSTANTS
  db = db
  cache = cache
  http = http
  prom = prom
  main = main
  other = other
  Checks = {db}
  Reporters = {http}
  AffectsLiveness = {db}
  AffectsReadiness = {}
  AffectsStartup = {db}
  CheckAtInterval = {}
  CheckAfter = {db}
  ZeroInterval = {}
  Listeners = {http}
  Outcomes = {"healthy"}
  App = {main}
  MaxRuns = 2
PROPERTIES SenderProgress RunReturns
CHECK_DEADLOCK FALSE
