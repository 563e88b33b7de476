--------------------------- MODULE MetricsReporter ---------------------------
(***************************************************************************)
(* The Prometheus and the OpenTelemetry reporter, reporter/prometheus and  *)
(* reporter/otel, which keep the same state and make the same steps: each  *)
(* probe is an atomic and a gauge, and a result is merged under hcMx and   *)
(* exported after the lock is released.  Instruments are external: a gauge *)
(* is its last value, a counter its sum.  Durations are left out.          *)
(***************************************************************************)
EXTENDS ReporterCalls

CONSTANT Metrics     \* the reporters of these two kinds

VARIABLES
  mRunning, mProbe, mHcs,   \* the fields running, live/ready/startup, hcs
  gauge,                    \* liveGauge, readyGauge, startGauge
  checkGauge, checkCount    \* the instruments with a label for the check

metrics == <<mRunning, mProbe, mHcs, gauge, checkGauge, checkCount>>

\* Instruments that were created and not used.
InstrumentsInit ==
  /\ gauge = [r \in Metrics |-> AllDown]
  /\ checkGauge = [r \in Metrics |-> [k \in Checks |-> 0]]
  /\ checkCount = [r \in Metrics |-> [k \in Checks |-> [s \in Statuses |-> 0]]]

MetricsInit ==
  /\ mRunning = [r \in Metrics |-> FALSE]
  /\ mProbe = [r \in Metrics |-> AllDown]
  /\ mHcs = [r \in Metrics |-> NoResults]
  /\ InstrumentsInit

MetricsRun(t, r) ==
  /\ Starts(t, r, "Run")
  /\ mRunning' = [mRunning EXCEPT ![r] = TRUE]
  /\ Returns(t, r)
  /\ UNCHANGED <<mProbe, mHcs, gauge, checkGauge, checkCount>>

MetricsStop(t, r) ==
  /\ Starts(t, r, "Stop")
  /\ mRunning' = [mRunning EXCEPT ![r] = FALSE]
  /\ Returns(t, r)
  /\ UNCHANGED <<mProbe, mHcs, gauge, checkGauge, checkCount>>

\* SetLiveness, SetReadiness, SetStartup: store the atomic ...
MetricsStore(t, r) ==
  /\ Starts(t, r, "Set")
  /\ mProbe' = [mProbe EXCEPT ![r][call[t].key] = call[t].on]
  /\ Goto(t, r, "gauge")
  /\ UNCHANGED <<mRunning, mHcs, gauge, checkGauge, checkCount>>

\* Mutation: the gauge is only ever raised.
GaugeIfOn(t, r) ==
  /\ In(t, r, "gauge")
  /\ gauge' = [gauge EXCEPT ![r][call[t].key] = call[t].on \/ @]
  /\ Returns(t, r)
  /\ UNCHANGED <<mRunning, mProbe, mHcs, checkGauge, checkCount>>

\* ... then set the gauge.
MetricsGauge(t, r) ==
  /\ In(t, r, "gauge")
  /\ gauge' = [gauge EXCEPT ![r][call[t].key] = call[t].on]
  /\ Returns(t, r)
  /\ UNCHANGED <<mRunning, mProbe, mHcs, checkGauge, checkCount>>

\* UpdateHealthChecks: nothing when the reporter is not running;
MetricsUpdate(t, r) ==
  /\ Starts(t, r, "Update")
  /\ IF mRunning[r] THEN Goto(t, r, "record") ELSE Returns(t, r)
  /\ UNCHANGED metrics

\* Mutation: degraded and unhealthy are not told apart.
HealthyOrNot(s) == IF s = "healthy" THEN 2 ELSE 0

\* Mutation: counted from one.
StatusFromOne(s) == CASE s = "healthy" -> 3 [] s = "degraded" -> 2 [] OTHER -> 1

StatusValue(s) == CASE s = "healthy" -> 2 [] s = "degraded" -> 1 [] OTHER -> 0

\* Set the status gauge of check k, count one more execution with that status.
Export(r, k, s) ==
  /\ checkGauge' = [checkGauge EXCEPT ![r][k] = StatusValue(s)]
  /\ checkCount' = [checkCount EXCEPT ![r][k][s] = @ + 1]

\* else merge it under the lock and, the lock released, export it.  No other
\* goroutine of the program reads or writes what is between these.
MetricsRecord(t, r) ==
  /\ In(t, r, "record")
  /\ mHcs' = [mHcs EXCEPT ![r][call[t].key] = call[t].res]
  /\ Export(r, call[t].key, call[t].res.status)
  /\ Returns(t, r)
  /\ UNCHANGED <<mRunning, mProbe, gauge>>

MetricsStep(t) ==
  \E r \in Metrics :
    \/ MetricsRun(t, r) \/ MetricsStop(t, r)
    \/ MetricsStore(t, r) \/ MetricsGauge(t, r)
    \/ MetricsUpdate(t, r) \/ MetricsRecord(t, r)
=============================================================================
