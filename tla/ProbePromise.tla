---------------------------- MODULE ProbePromise ----------------------------
(***************************************************************************)
(* What the manager promises a reporter about the three probes, whatever   *)
(* the checks, the goroutines and the Runs behind them: two gates open     *)
(* once and for all (every check has reported; startup is complete), and   *)
(* until both are open no reporter is told to become ready, or to give up  *)
(* liveness, and startup is shown only when it is complete.                *)
(***************************************************************************)
CONSTANT Reporters

VARIABLES
  told,      \* the probes as each reporter was last told
  ran,       \* every check has reported at least once
  started    \* startup is complete

vars == <<told, ran, started>>

Init ==
  /\ told = [r \in Reporters |-> [p \in {"live", "ready", "startup"} |-> FALSE]]
  /\ ran = FALSE
  /\ started = FALSE

Open == ran /\ started

AllRan == ran' = TRUE /\ UNCHANGED <<told, started>>

Complete == started' = TRUE /\ UNCHANGED <<told, ran>>

SetProbe(r, p, b) ==
  /\ told' = [told EXCEPT ![r][p] = b]
  /\ UNCHANGED <<ran, started>>

SetLiveness(r, b) == (b \/ Open) /\ SetProbe(r, "live", b)

SetReadiness(r, b) == (b => Open) /\ SetProbe(r, "ready", b)

SetStartup(r) == started /\ SetProbe(r, "startup", TRUE)

Next ==
  \/ AllRan
  \/ Complete
  \/ \E r \in Reporters :
       \/ \E b \in BOOLEAN : SetLiveness(r, b) \/ SetReadiness(r, b)
       \/ SetStartup(r)

Spec == Init /\ [][Next]_vars
=============================================================================
