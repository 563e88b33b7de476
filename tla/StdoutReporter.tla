--------------------------- MODULE StdoutReporter ---------------------------
(***************************************************************************)
(* The stdout reporter, reporter/stdout: it prints a report each time it   *)
(* is given a result, which is left out.  Run and Stop do nothing.         *)
(***************************************************************************)
EXTENDS ReporterCalls

CONSTANT stdout

VARIABLES sProbe, sHcs   \* the fields live/ready/startup and healthChecks

console == <<sProbe, sHcs>>

StdoutInit == sProbe = AllDown /\ sHcs = NoResults

StdoutRunStop(t) ==
  /\ Starts(t, stdout, "Run") \/ Starts(t, stdout, "Stop")
  /\ Returns(t, stdout)
  /\ UNCHANGED console

StdoutSet(t) ==
  /\ Starts(t, stdout, "Set")
  /\ sProbe' = [sProbe EXCEPT ![call[t].key] = call[t].on]
  /\ Returns(t, stdout)
  /\ UNCHANGED sHcs

\* Absorb the result and print all of them, whether or not it was started.
StdoutUpdate(t) ==
  /\ Starts(t, stdout, "Update")
  /\ sHcs' = [sHcs EXCEPT ![call[t].key] = call[t].res]
  /\ Returns(t, stdout)
  /\ UNCHANGED sProbe

StdoutStep(t) == StdoutRunStop(t) \/ StdoutSet(t) \/ StdoutUpdate(t)
=============================================================================
