SPECIFICATION FairSpec
CONSTANTS
  app = app
  proc = proc
  db = db
  prom = prom
  grpc = grpc
  stdout = stdout
  tester = tester
  c1 = c1
  Checks = {db}
  AffectsLiveness = {db}
  AffectsReadiness = {}
  Callers = {app, proc}
  Metrics = {prom}
  Setups = {{grpc}, {prom, stdout}, {tester}}
  Clients = {c1}
  Requests <- MCRequests
  MaxRuns = 2
  MaxResults = 2
INVARIANTS TypeOK ReportersAgree MetricsFollow TogglesBalance ServingJustified ReadyMatchesServices RefusesOnlyIfStarted
PROPERTY StopCompletes
CHECK_DEADLOCK FALSE
