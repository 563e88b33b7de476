---------------------------- MODULE ReporterCalls ----------------------------
(***************************************************************************)
(* How the goroutines of a manager call its reporters: a fan-out,          *)
(* reporters.Each, makes one call on every reporter, in any order.  What   *)
(* the methods do is up to GRPCReporter, MetricsReporter and StdoutReporter.*)
(*                                                                         *)
(* A check result is its number, counted per check, and its status.        *)
(***************************************************************************)
EXTENDS Naturals, FiniteSets

CONSTANTS
  Checks,        \* names of the health checks
  Callers,       \* goroutines of the manager
  Setups         \* the sets of reporters that an application may have added

VARIABLES
  reporters,     \* the reporters that were added
  call,          \* the method that a caller calls on every reporter
  todo,          \* the reporters whose call has not returned
  at             \* the reporter a caller is in, and the label there

calling == <<reporters, call, todo, at>>

Probes == {"live", "ready", "startup"}
Statuses == {"healthy", "degraded", "unhealthy"}
NoResult == [n |-> 0, status |-> "none"]
NoResults == [k \in Checks |-> NoResult]
AllDown == [p \in Probes |-> FALSE]

NoCall == [op |-> "none", key |-> "none", on |-> FALSE, res |-> NoResult]
RunCall == [NoCall EXCEPT !.op = "Run"]
RunError == [NoCall EXCEPT !.op = "error"]
StopCall == [NoCall EXCEPT !.op = "Stop"]
SetCall(p, b) == [NoCall EXCEPT !.op = "Set", !.key = p, !.on = b]
UpdateCall(k, r) == [NoCall EXCEPT !.op = "Update", !.key = k, !.res = r]

Nowhere == <<"none", "none">>

CallsInit ==
  /\ reporters \in Setups
  /\ call = [t \in Callers |-> NoCall]
  /\ todo = [t \in Callers |-> {}]
  /\ at = [t \in Callers |-> Nowhere]

\* The caller has nothing under way.
Free(t) == todo[t] = {}

\* reporters.Each begins.
Fan(t, c) ==
  /\ call' = [call EXCEPT ![t] = c]
  /\ todo' = [todo EXCEPT ![t] = reporters]
  /\ UNCHANGED <<reporters, at>>

\* The call on reporter r begins; In: it is at label l.
Starts(t, r, op) == at[t] = Nowhere /\ r \in todo[t] /\ call[t].op = op

In(t, r, l) == at[t] = <<r, l>>

Goto(t, r, l) ==
  /\ at' = [at EXCEPT ![t] = <<r, l>>]
  /\ UNCHANGED <<reporters, call, todo>>

Returns(t, r) ==
  /\ at' = [at EXCEPT ![t] = Nowhere]
  /\ todo' = [todo EXCEPT ![t] = @ \ {r}]
  /\ UNCHANGED <<reporters, call>>

\* The call returns an error, which ends the loop over the reporters.
Errs(t) ==
  /\ at' = [at EXCEPT ![t] = Nowhere]
  /\ todo' = [todo EXCEPT ![t] = {}]
  /\ call' = [call EXCEPT ![t] = RunError]
  /\ UNCHANGED reporters
=============================================================================
