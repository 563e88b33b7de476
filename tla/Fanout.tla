------------------------------- MODULE Fanout -------------------------------
(***************************************************************************)
(* A manager with its reporters: the goroutine of the application that     *)
(* calls Run and Stop, and the processor, which relays results and tells   *)
(* the reporters the probes, call gRPC, metrics and stdout reporters step  *)
(* by step, while clients ask the gRPC health service.                     *)
(*                                                                         *)
(* The manager is the one of module Manager, with its checks registered,   *)
(* none of them with startup impact, the checker goroutines replaced by    *)
(* the results that arrive, and one Run that succeeds.  A Run that fails   *)
(* may be tried again with a new context; its error is received.           *)
(***************************************************************************)
EXTENDS GRPCReporter, MetricsReporter, StdoutReporter, TestReporter

CONSTANTS
  app, proc,                           \* the two callers
  AffectsLiveness, AffectsReadiness,   \* impacts of the checks
  MaxRuns,                             \* bound: calls of Run
  MaxResults                           \* bound: results of each check

\* Reporters are told apart by their names; Run refuses a manager without checks.
ASSUME FanoutAssumption ==
  /\ app # proc /\ Callers = {app, proc}
  /\ grpc # stdout /\ grpc # tester /\ stdout # tester
  /\ {grpc, stdout, tester} \cap Metrics = {}
  /\ Setups \subseteq SUBSET (Metrics \cup {grpc, stdout, tester})
  /\ Checks # {}
  /\ AffectsLiveness \subseteq Checks /\ AffectsReadiness \subseteq Checks
  /\ MaxRuns \in Nat /\ MaxResults \in Nat

VARIABLES
  running, flag,               \* runningPtr; livePtr, readyPtr, startupPtr
  startupDone, initialReady,
  last,                        \* checkResults: the result last stored
  ctxDone,                     \* the context of the last Run
  pc,                          \* the step of each caller
  hc, est,                     \* local variables of the processor
  runs,                        \* number of Runs
  raced,                       \* history: probes whose last announcements
                               \* to the reporters overlapped
  justified                    \* history: clients that could have been told
                               \* SERVING at some moment of their call

manager == <<running, flag, startupDone, initialReady, last, ctxDone, pc, hc, est, runs>>
vars == <<calling, service, metrics, console, recorder, manager, raced, justified>>

NoResultYet == [key |-> "none", res |-> NoResult]
NoVerdict == [live |-> FALSE, ready |-> FALSE, shownReady |-> FALSE]

Init ==
  /\ CallsInit /\ GRPCInit /\ MetricsInit /\ StdoutInit /\ TestInit
  /\ running = FALSE /\ flag = AllDown
  /\ startupDone = FALSE /\ initialReady = FALSE
  /\ last = NoResults /\ ctxDone = FALSE
  /\ pc = [t \in Callers |-> IF t = app THEN "idle" ELSE "off"]
  /\ hc = NoResultYet /\ est = NoVerdict
  /\ runs = 0
  /\ raced = {} /\ justified = {}

At(t, l) == pc[t] = l /\ Free(t)

Moves(t, l) == pc' = [pc EXCEPT ![t] = l]

\* setLive, setReady, setStartup: swap, and tell every reporter a change.
Swap(t, p, v) ==
  /\ flag' = [flag EXCEPT ![p] = v]
  /\ IF flag[p] # v THEN Fan(t, SetCall(p, v)) ELSE UNCHANGED calling

AllChecksRan == \A k \in Checks : last[k] # NoResult

\* setReady refuses to turn readiness on before both gates are open.
SetReady(t, v) ==
  IF v /\ ~(AllChecksRan /\ startupDone)
  THEN UNCHANGED <<flag, calling>>
  ELSE Swap(t, "ready", v)

-----------------------------------------------------------------------------
(* Run and Stop.                                                            *)

\* Run takes the running flag; dispatchReporters begins.
Run ==
  /\ At(app, "idle")
  /\ runs < MaxRuns
  /\ running' = TRUE /\ runs' = runs + 1 /\ ctxDone' = FALSE
  /\ Fan(app, RunCall)
  /\ Moves(app, "dispatch")
  /\ UNCHANGED <<flag, startupDone, initialReady, last, hc, est>>

\* A reporter failed, or the context was cancelled when they had started:
\* the error is sent, running is reset, and the reporters are left alone.
RunFails ==
  /\ At(app, "dispatch")
  /\ call[app] = RunError \/ ctxDone
  /\ running' = FALSE
  /\ Moves(app, "idle")
  /\ UNCHANGED <<calling, flag, startupDone, initialReady, last, ctxDone, hc, est, runs>>

\* The checks are dispatched and the processor starts.
Dispatch ==
  /\ At(app, "dispatch")
  /\ call[app] = RunCall /\ ~ctxDone
  /\ pc' = [pc EXCEPT ![app] = "startup", ![proc] = "select"]
  /\ UNCHANGED <<calling, running, flag, startupDone, initialReady, last, ctxDone, hc,
                 est, runs>>

\* initStartupState, without startup checks.
InitStartupState ==
  /\ At(app, "startup")
  /\ startupDone' = TRUE
  /\ Swap(app, "startup", TRUE)
  /\ Moves(app, "live")
  /\ UNCHANGED <<running, initialReady, last, ctxDone, hc, est, runs>>

RunLive ==
  /\ At(app, "live")
  /\ Swap(app, "live", TRUE)
  /\ Moves(app, "up")
  /\ UNCHANGED <<running, startupDone, initialReady, last, ctxDone, hc, est, runs>>

\* The application cancels the context of its last Run.
Cancel ==
  /\ runs > 0 /\ ~ctxDone
  /\ ctxDone' = TRUE
  /\ UNCHANGED <<calling, running, flag, startupDone, initialReady, last, pc, hc, est, runs>>

\* Stop, by the application once Run has returned, or by the processor at
\* the end of its context.
StopCAS(t) ==
  /\ \/ t = app /\ At(app, "up")
     \/ t = proc /\ At(proc, "select") /\ ctxDone
  /\ running' = FALSE
  /\ Moves(t, IF running THEN "stopReady" ELSE "done")
  /\ UNCHANGED <<calling, flag, startupDone, initialReady, last, ctxDone, hc, est, runs>>

StopReady(t) ==
  /\ At(t, "stopReady")
  /\ SetReady(t, FALSE)
  /\ Moves(t, "stopReporters")
  /\ UNCHANGED <<running, startupDone, initialReady, last, ctxDone, hc, est, runs>>

StopReporters(t) ==
  /\ At(t, "stopReporters")
  /\ Fan(t, StopCall)
  /\ Moves(t, "done")
  /\ UNCHANGED <<running, flag, startupDone, initialReady, last, ctxDone, hc, est, runs>>

-----------------------------------------------------------------------------
(* The processor.                                                           *)

\* processHealthCheck: relay the result, unless the context is cancelled.
Receive(k, s) ==
  /\ At(proc, "select")
  /\ last[k].n < MaxResults
  /\ LET r == [n |-> last[k].n + 1, status |-> s] IN
       IF ctxDone
       THEN UNCHANGED <<hc, calling>>
       ELSE hc' = [key |-> k, res |-> r] /\ Fan(proc, UpdateCall(k, r))
  /\ Moves(proc, IF ctxDone THEN "fitness" ELSE "store")
  /\ UNCHANGED <<running, flag, startupDone, initialReady, last, ctxDone, est, runs>>

\* The deferred checkResults.Set.
Store ==
  /\ At(proc, "store")
  /\ last' = [last EXCEPT ![hc.key] = hc.res]
  /\ hc' = NoResultYet
  /\ Moves(proc, "fitness")
  /\ UNCHANGED <<calling, running, flag, startupDone, initialReady, ctxDone, est, runs>>

\* evaluateFitness bails out, or makes sure that startup is complete.
Fitness ==
  /\ At(proc, "fitness")
  /\ IF ~running \/ ~AllChecksRan
     THEN Moves(proc, "select") /\ UNCHANGED <<startupDone, flag, calling>>
     ELSE /\ Moves(proc, "initial")
          /\ startupDone' = TRUE
          /\ IF startupDone THEN UNCHANGED <<flag, calling>> ELSE Swap(proc, "startup", TRUE)
  /\ UNCHANGED <<running, initialReady, last, ctxDone, hc, est, runs>>

Cancels(k, probe) ==
  /\ last[k].status = "unhealthy"
  /\ k \in AffectsLiveness \/ (probe = "ready" /\ k \in AffectsReadiness)

\* aggregateResults
Verdict(probe) == \A k \in Checks : ~Cancels(k, probe)

\* The first good verdict turns readiness on, before liveness is looked at.
InitialReady ==
  /\ At(proc, "initial")
  /\ LET first == Verdict("ready") /\ ~initialReady IN
       /\ initialReady' = (initialReady \/ first)
       /\ IF first THEN SetReady(proc, TRUE) ELSE UNCHANGED <<flag, calling>>
       /\ est' = [live |-> Verdict("live"), ready |-> Verdict("ready") /\ Verdict("live"),
                  shownReady |-> flag["ready"] \/ first]
  /\ Moves(proc, "liveness")
  /\ UNCHANGED <<running, startupDone, last, ctxDone, hc, runs>>

\* applyLivenessChange
Liveness ==
  /\ At(proc, "liveness")
  /\ Swap(proc, "live", est.live)
  /\ Moves(proc, "readiness")
  /\ UNCHANGED <<running, startupDone, initialReady, last, ctxDone, hc, est, runs>>

\* applyReadinessChange compares with the value it read earlier.
Readiness ==
  /\ At(proc, "readiness")
  /\ IF est.shownReady # est.ready THEN SetReady(proc, est.ready) ELSE UNCHANGED <<flag, calling>>
  /\ est' = [est EXCEPT !.shownReady = FALSE]
  /\ Moves(proc, "select")
  /\ UNCHANGED <<running, startupDone, initialReady, last, ctxDone, hc, runs>>

-----------------------------------------------------------------------------
\* The probe that a caller is announcing to the reporters, if any.
Announces(t, p) == ~Free(t) /\ call[t].op = "Set" /\ call[t].key = p

Overlap(p) == Announces(app, p) /\ Announces(proc, p)

\* A new announcement of p by one caller alone brings the reporters together.
Announced(p) == \E t \in Callers : Announces(t, p)' /\ Free(t)

\* The gRPC flags, or the manager's last verdict, say live and ready.
Good == (gProbe["live"] /\ gProbe["ready"]) \/ (est.live /\ est.ready)

History ==
  /\ raced' = {p \in Probes : Overlap(p)' \/ (p \in raced /\ ~Announced(p))}
  /\ justified' = {c \in Clients : rpc'[c].svc = Overall /\ (c \in justified \/ Good')}

ManagerStep(t) ==
  /\ \/ t = app /\ (RunFails \/ Dispatch \/ InitStartupState \/ RunLive)
     \/ t = proc /\ (Store \/ Fitness \/ InitialReady \/ Liveness \/ Readiness)
     \/ StopReady(t) \/ StopReporters(t)
  /\ UNCHANGED <<service, metrics, console, recorder>>

ManagerInput ==
  /\ \/ Run \/ Cancel
     \/ \E t \in Callers : StopCAS(t)
     \/ \E k \in Checks, s \in Statuses : Receive(k, s)
  /\ UNCHANGED <<service, metrics, console, recorder>>

ReporterStep(t) ==
  /\ \/ GRPCStep(t) /\ UNCHANGED <<metrics, console, recorder>>
     \/ MetricsStep(t) /\ UNCHANGED <<service, console, recorder>>
     \/ StdoutStep(t) /\ UNCHANGED <<service, metrics, recorder>>
     \/ TestStep(t) /\ UNCHANGED <<service, metrics, console>>
  /\ UNCHANGED manager

ServerStep ==
  /\ ServeStarts \/ GRPCEnvironment \/ \E c \in Clients : Handler(c)
  /\ UNCHANGED <<calling, metrics, console, recorder, manager>>

Next ==
  /\ \/ ManagerInput \/ ServerStep
     \/ \E t \in Callers : ManagerStep(t) \/ ReporterStep(t)
  /\ History

Spec == Init /\ [][Next]_vars

(***************************************************************************)
(* A goroutine that can go on does; so does the one that serves, and a     *)
(* handler, which waits for nothing.  Nobody has to call Run, Stop or the  *)
(* health service, and no result has to arrive.                            *)
(***************************************************************************)
Fairness ==
  /\ \A t \in Callers : WF_<<calling, pc>>(ManagerStep(t) \/ ReporterStep(t))
  /\ WF_server(ServeStarts)
  /\ \A c \in Clients : WF_rpc(Handler(c))

FairSpec == Spec /\ Fairness

-----------------------------------------------------------------------------
(* Properties.                                                              *)

Results == [n : 0 .. MaxResults, status : Statuses \cup {"none"}]
Labels == {"none", "listen", "graceful", "drain", "gauge", "record",
           "boop"}
Answers == {"none", "SERVING", "NOT_SERVING", "SERVICE_UNKNOWN"}

\* The values of the reporters' fields and instruments, and of the callers.
TypeOK ==
  /\ \A t \in Callers : /\ todo[t] \subseteq reporters
                        /\ at[t][1] \in todo[t] \cup {"none"} /\ at[t][2] \in Labels
  /\ gProbe \in [Probes -> BOOLEAN] /\ gHcs \in [Checks -> Results]
  /\ gRunning \in BOOLEAN /\ gStopped \in BOOLEAN /\ gLn \in BOOLEAN
  /\ gServe \in {"off", "starting", "serving", "ended"}
  /\ rpc \in [Clients -> [pc : {"idle", "live", "ready", "lookup", "list", "send"},
                          method : {"none", "Check", "Watch", "List"}, svc : Services \cup {"none"},
                          ans : [Services -> Answers]]]
  /\ mRunning \in [Metrics -> BOOLEAN] /\ mProbe \in [Metrics -> [Probes -> BOOLEAN]]
  /\ mHcs \in [Metrics -> [Checks -> Results]] /\ gauge \in [Metrics -> [Probes -> BOOLEAN]]
  /\ checkGauge \in [Metrics -> [Checks -> 0 .. 2]]
  /\ checkCount \in [Metrics -> [Checks -> [Statuses -> 0 .. MaxResults]]]
  /\ sProbe \in [Probes -> BOOLEAN] /\ sHcs \in [Checks -> Results]
  /\ tProbe \in [Probes -> BOOLEAN] /\ tHc \in [Checks -> Results] /\ tRunning \in BOOLEAN
  /\ runToggles \in 0 .. MaxRuns + 1 /\ hcUpdates \in Nat
  /\ ups \in [Probes -> Nat] /\ downs \in [Probes -> Nat] /\ toggles \in [Probes -> Nat]
  /\ flag \in [Probes -> BOOLEAN] /\ last \in [Checks -> Results]
  /\ running \in BOOLEAN /\ startupDone \in BOOLEAN /\ initialReady \in BOOLEAN

\* No call on a reporter is under way.
Quiet == \A t \in Callers : Free(t)

\* What a reporter shows of a probe, each way it shows it.
Shows(r, p) ==
  CASE r = grpc -> {gProbe[p]}
    [] r = stdout -> {sProbe[p]}
    [] r = tester -> {tProbe[p]}
    [] OTHER -> {mProbe[r][p], gauge[r][p]}

Holds(r) ==
  CASE r = grpc -> gHcs [] r = stdout -> sHcs [] r = tester -> tHc [] OTHER -> mHcs[r]

\* Between two announcements every reporter, in its field and in its gauge, shows
\* the probes as the manager has them, unless the last announcements of a probe
\* overlapped; and until Stop every reporter holds the results the manager stored.
ReportersAgree ==
  Quiet /\ running /\ pc[proc] # "store" =>
    \A r \in reporters :
      /\ \A p \in Probes \ raced : Shows(r, p) = {flag[p]}
      /\ pc[proc] # "off" => Holds(r) = last

\* "0=unhealthy, 1=degraded, 2=healthy", the help text of the gauge.
Documented == [unhealthy |-> 0, degraded |-> 1, healthy |-> 2]

\* A metrics reporter ignores results unless it is running, and exports after it has
\* released its lock: still, until Stop every result the manager stored was counted
\* once, and the status gauge of a check has the documented value for the last one.
MetricsFollow ==
  Quiet /\ running /\ pc[proc] \notin {"off", "store"} =>
    \A r \in Metrics \cap reporters, k \in Checks :
      /\ last[k] # NoResult => checkGauge[r][k] = Documented[last[k].status]
      /\ checkCount[r][k]["healthy"] + checkCount[r][k]["degraded"]
           + checkCount[r][k]["unhealthy"] = last[k].n

\* The manager announces changes only, and each of them once: whatever announcements
\* overlapped, a reporter has been told up once more than down if the manager has the
\* probe up, and as often if it has it down.  Tests count on these numbers.
TogglesBalance ==
  Quiet /\ tester \in reporters =>
    \A p \in Probes : /\ ups[p] = downs[p] + (IF flag[p] THEN 1 ELSE 0)
                      /\ toggles[p] = ups[p] + downs[p]

\* The service loads live and ready one after the other while the manager changes
\* them.  It says SERVING only if at some moment of the call both were set, or the
\* manager had found the service live and ready.
ServingJustified ==
  \A c \in Clients :
    rpc[c].pc = "send" /\ rpc[c].ans[Overall] = "SERVING" => c \in justified

\* When the processor has evaluated the last result, readiness over gRPC is what the
\* named services say: it is off exactly if a check that matters is NOT_SERVING.
ReadyMatchesServices ==
  Quiet /\ running /\ pc[proc] = "select" /\ AllChecksRan
  /\ grpc \in reporters /\ "ready" \notin raced =>
    (gProbe["ready"] <=> \A k \in AffectsLiveness \cup AffectsReadiness :
                           Named(k) # "NOT_SERVING")

\* The reporter refuses a Run as already running only while a Run before it got its
\* listener, or is about to: a Run that could not listen may be repeated.
RefusesOnlyIfStarted ==
  gRunning => gServe # "off" \/ \E t \in Callers : In(t, grpc, "listen")

\* A Stop that has begun returns with the address released, although clients keep
\* calling until then, GracefulStop waits for them without a deadline, and Stop may
\* come before the goroutine of Run has called Serve.  The server is the reporter's
\* own: one that the application shares has calls of other services to wait for.
StopCompletes ==
  (\E t \in Callers : pc[t] = "stopReady")
    ~> (\E t \in Callers : At(t, "done") /\ call[t] = StopCall) /\ ~gLn
=============================================================================
