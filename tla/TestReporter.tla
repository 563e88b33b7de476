---------------------------- MODULE TestReporter ----------------------------
(***************************************************************************)
(* The reporter for tests, reporter/test: it keeps what it was told and    *)
(* counts how often.  Report reads all of it and changes nothing.          *)
(***************************************************************************)
EXTENDS ReporterCalls

CONSTANT tester

VARIABLES
  tRunning, tProbe, tHc,   \* the fields running, live/ready/startup, hc
  runToggles,              \* runningToggles
  ups, downs, toggles,     \* liveUp, liveDown, liveToggles and so on
  hcUpdates

recorder == <<tRunning, tProbe, tHc, runToggles, ups, downs, toggles, hcUpdates>>

TestInit ==
  /\ tRunning = FALSE /\ tProbe = AllDown /\ tHc = NoResults
  /\ runToggles = 0
  /\ ups = [p \in Probes |-> 0] /\ downs = ups /\ toggles = ups
  /\ hcUpdates = 0

TestRunStop(t) ==
  /\ Starts(t, tester, "Run") \/ Starts(t, tester, "Stop")
  /\ tRunning' = (call[t].op = "Run")
  /\ runToggles' = runToggles + 1
  /\ Returns(t, tester)
  /\ UNCHANGED <<tProbe, tHc, ups, downs, toggles, hcUpdates>>

\* SetLiveness, SetReadiness, SetStartup: boop stores the value ...
TestStore(t) ==
  /\ Starts(t, tester, "Set")
  /\ tProbe' = [tProbe EXCEPT ![call[t].key] = call[t].on]
  /\ Goto(t, tester, "boop")
  /\ UNCHANGED <<tRunning, tHc, runToggles, ups, downs, toggles, hcUpdates>>

\* Mutation: both directions are counted as up.
BoopUp(b) == <<1, 0>>

\* The counter that boop adds to: up or down.
Boop(b) == IF b THEN <<1, 0>> ELSE <<0, 1>>

\* ... and counts its direction; the deferred call counts a change.
TestCount(t) ==
  LET p == call[t].key  d == Boop(call[t].on) IN
  /\ In(t, tester, "boop")
  /\ ups' = [ups EXCEPT ![p] = @ + d[1]]
  /\ downs' = [downs EXCEPT ![p] = @ + d[2]]
  /\ toggles' = [toggles EXCEPT ![p] = @ + 1]
  /\ Returns(t, tester)
  /\ UNCHANGED <<tRunning, tProbe, tHc, runToggles, hcUpdates>>

TestUpdate(t) ==
  /\ Starts(t, tester, "Update")
  /\ tHc' = [tHc EXCEPT ![call[t].key] = call[t].res]
  /\ hcUpdates' = hcUpdates + 1
  /\ Returns(t, tester)
  /\ UNCHANGED <<tRunning, tProbe, runToggles, ups, downs, toggles>>

TestStep(t) == TestRunStop(t) \/ TestStore(t) \/ TestCount(t) \/ TestUpdate(t)
=============================================================================
