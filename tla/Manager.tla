------------------------------- MODULE Manager -------------------------------
(***************************************************************************)
(* The standard health manager, manager/std/manager.go.                    *)
(*                                                                         *)
(* Four kinds of goroutine share a Manager:                                *)
(*   - the application's, which call AddCheck, AddReporter, Run and Stop;  *)
(*   - one processor for each successful Run, which takes results from the *)
(*     funnel, stores and relays them and evaluates the three probes;      *)
(*   - one checker for each check a Run dispatches, which performs the     *)
(*     check (once or at an interval) and sends its result on the funnel;  *)
(*   - whoever cancels the context that was given to Run.                  *)
(* An action is one step between two accesses to state that another        *)
(* goroutine can observe.  A context, a processor and the checkers that    *)
(* one Run starts carry the number of that Run.                            *)
(***************************************************************************)
EXTENDS Integers, Sequences, FiniteSets

CONSTANTS
  Checks,            \* names of the checks an application may add
  Reporters,         \* names of the reporters an application may add
  AffectsLiveness,   \* checks added WithLivenessImpact
  AffectsReadiness,  \* checks added WithReadinessImpact
  AffectsStartup,    \* checks added WithStartupImpact
  CheckAtInterval,   \* checks whose frequency has that bit; others run once
  CheckAfter,        \* checks that first sleep for a delay
  ZeroInterval,      \* interval checks added with an Interval <= 0
  Listeners,         \* reporters whose Run may fail (a socket, a second Run)
  Outcomes,          \* what a Check call may end in
  App,               \* application goroutines
  MaxRuns            \* bound: Run calls that win the running flag

Gen == 1 .. MaxRuns
Thread == App \cup Gen
Jobs == Checks \X Gen
Probes == {"live", "ready", "startup"}
Statuses == {"healthy", "degraded", "unhealthy"}

ASSUME SetsAssumption ==
  /\ IsFiniteSet(Checks)
  /\ AffectsLiveness \subseteq Checks
  /\ AffectsReadiness \subseteq Checks
  /\ AffectsStartup \subseteq Checks
  /\ CheckAtInterval \subseteq Checks
  /\ CheckAfter \subseteq Checks
  /\ ZeroInterval \subseteq CheckAtInterval
  /\ Listeners \subseteq Reporters

ASSUME OutcomesAssumption == Outcomes \subseteq Statuses \cup {"nil", "panic"}

ASSUME ThreadAssumption == MaxRuns \in Nat /\ App \cap Gen = {}

VARIABLES
  checkers, reporters,     \* what has been added
  running,                 \* runningPtr
  flag,                    \* livePtr, readyPtr, startupPtr
  allChecksRan, initialReady, startupDone,
  reported,                \* checkResults: the keys, and the results whose
  cancelLive, cancelReady, \* cancelLive and cancelReady fields are set
  funnel, cap,             \* checkFunnel and its capacity, NilChan before Run
  errs,                    \* errors waiting in errChan
  runs,                    \* number of Runs that won the running flag
  gen,                     \* the Run an application goroutine last started
  ctxDone,                 \* contexts that are cancelled
  chk, pend,               \* checker goroutines and the result each will send
  pc, each,                \* the step of a goroutine, its loop over reporters
  hc, est,                 \* a processor's local variables
  arg,                     \* the argument of AddCheck or AddReporter
  told, seen, up,          \* what each reporter was given, and its liveness
  crashed                  \* an unrecovered panic ended the process

registry == <<checkers, reporters>>
latches == <<allChecksRan, initialReady, startupDone>>
results == <<reported, cancelLive, cancelReady>>
channels == <<funnel, cap, errs>>
checking == <<chk, pend>>
locals == <<hc, est, arg>>
shown == <<told, seen, up>>
calls == <<runs, gen, ctxDone>>
background == <<registry, channels, calls, checking, crashed>>
elsewhere == <<registry, running, flag, latches, results, calls, pc, each, locals, shown>>
vars == <<registry, running, flag, latches, results, channels, calls,
          checking, pc, each, locals, shown, crashed>>

NilChan == -1
NoResult == [name |-> "none", status |-> "none"]
NoEach == [todo |-> {}, call |-> "none", value |-> FALSE]
NoEst == [live |-> FALSE, ready |-> FALSE, shownReady |-> FALSE]

Init ==
  /\ checkers = {} /\ reporters = {}
  /\ running = FALSE
  /\ flag = [p \in Probes |-> FALSE]
  /\ allChecksRan = FALSE /\ initialReady = FALSE /\ startupDone = FALSE
  /\ reported = {} /\ cancelLive = {} /\ cancelReady = {}
  /\ funnel = <<>> /\ cap = NilChan /\ errs = 0
  /\ runs = 0 /\ gen = [t \in App |-> 0] /\ ctxDone = [g \in Gen |-> FALSE]
  /\ chk = [j \in Jobs |-> "off"] /\ pend = [j \in Jobs |-> "none"]
  /\ pc = [t \in Thread |-> IF t \in App THEN "idle" ELSE "off"]
  /\ each = [t \in Thread |-> NoEach]
  /\ hc = [g \in Gen |-> NoResult] /\ est = [g \in Gen |-> NoEst]
  /\ arg = [t \in App |-> "none"]
  /\ told = [r \in Reporters |-> [p \in Probes |-> FALSE]]
  /\ seen = [r \in Reporters |-> [c \in Checks |-> "none"]]
  /\ up = [r \in Reporters |-> FALSE]
  /\ crashed = FALSE

-----------------------------------------------------------------------------
(* Control: a goroutine is at label l when its loop over reporters is over. *)

At(t, l) == pc[t] = l /\ each[t].todo = {}

Goto(t, l) == pc' = [pc EXCEPT ![t] = l]

Idle(t) == pc[t] \in {"idle", "stopped"} /\ each[t].todo = {}

\* reporters.Each: visit every reporter, in any order, under the read lock.
StartEach(t, call, v) ==
  each' = [each EXCEPT ![t] = [todo |-> reporters, call |-> call, value |-> v]]

Visited(t, r) ==
  each' = [each EXCEPT ![t] = IF each[t].todo = {r} THEN NoEach
                              ELSE [each[t] EXCEPT !.todo = @ \ {r}]]

\* reporters.Set takes the write lock: no loop over reporters is under way.
ReportersUnlocked == \A t \in Thread : each[t].todo = {}

\* setLive, setReady, setStartup: swap the flag, tell the reporters a change.
Swap(t, p, v) ==
  /\ flag' = [flag EXCEPT ![p] = v]
  /\ IF flag[p] # v THEN StartEach(t, p, v) ELSE UNCHANGED each

\* setReady refuses to turn readiness on before both gates are open.
GatesOpen == allChecksRan /\ startupDone

SetReady(t, v) ==
  IF v /\ ~GatesOpen
  THEN UNCHANGED <<flag, each>>
  ELSE Swap(t, "ready", v)

-----------------------------------------------------------------------------
(* AddCheck and AddReporter: load running, then store in the map.  Calls    *)
(* that find the manager running return an error and change nothing; so     *)
(* does adding a name again, since a name stands for a check's options.     *)

BeginAdd(t, x, label) ==
  /\ Idle(t) /\ ~running
  /\ arg' = [arg EXCEPT ![t] = x]
  /\ Goto(t, label)
  /\ UNCHANGED <<background, running, flag, latches, results, each, hc, est, shown>>

\* A name stands for a check with its options: frequency, delay, impacts.
AddCheck(t, c) == c \notin checkers /\ BeginAdd(t, c, "addCheck")

AddCheckSet(t) ==
  /\ At(t, "addCheck")
  /\ checkers' = checkers \cup {arg[t]}
  /\ arg' = [arg EXCEPT ![t] = "none"]
  /\ Goto(t, "idle")
  /\ UNCHANGED <<reporters, running, flag, latches, results, channels, calls,
                 checking, each, hc, est, shown, crashed>>

AddReporter(t, r) == r \notin reporters /\ BeginAdd(t, r, "addReporter")

AddReporterSet(t) ==
  /\ At(t, "addReporter")
  /\ ReportersUnlocked
  /\ reporters' = reporters \cup {arg[t]}
  /\ arg' = [arg EXCEPT ![t] = "none"]
  /\ Goto(t, "idle")
  /\ UNCHANGED <<checkers, running, flag, latches, results, channels, calls,
                 checking, each, hc, est, shown, crashed>>

-----------------------------------------------------------------------------
(* Run, in the goroutine of the application that calls it.  A Run that      *)
(* finds the flag taken returns at once and changes nothing.                *)

RunCAS(t) ==
  /\ Idle(t) /\ ~running
  /\ runs < MaxRuns
  /\ running' = TRUE
  /\ runs' = runs + 1
  /\ gen' = [gen EXCEPT ![t] = runs + 1]
  /\ Goto(t, "init")
  /\ UNCHANGED <<registry, flag, latches, results, channels, ctxDone, checking,
                 each, locals, shown, crashed>>

\* The funnel is made once, with the number of checkers at that moment.
FunnelCapacity == IF cap = NilChan THEN Cardinality(checkers) ELSE cap

InitInternals(t) ==
  /\ At(t, "init")
  /\ cap' = FunnelCapacity
  /\ Goto(t, "validate")
  /\ UNCHANGED <<registry, running, flag, latches, results, funnel, errs, calls,
                 checking, each, locals, shown, crashed>>

Validate(t) ==
  /\ At(t, "validate")
  /\ IF checkers = {} \/ reporters = {}
     THEN Goto(t, "fail") /\ UNCHANGED each
     ELSE Goto(t, "dispatch") /\ StartEach(t, "Run", FALSE)
  /\ UNCHANGED <<background, running, flag, latches, results, locals, shown>>

RunReporter(t, r) ==
  /\ each[t].call = "Run" /\ r \in each[t].todo
  /\ ~(r \in Listeners /\ up[r])
  /\ up' = [up EXCEPT ![r] = TRUE]
  /\ Visited(t, r)
  /\ UNCHANGED <<background, running, flag, latches, results, pc, locals, told, seen>>

\* The loop ends at the first error; the reporters already started stay up.
RunReporterFails(t, r) ==
  /\ each[t].call = "Run" /\ r \in each[t].todo
  /\ r \in Listeners
  /\ each' = [each EXCEPT ![t] = NoEach]
  /\ Goto(t, "fail")
  /\ UNCHANGED <<background, running, flag, latches, results, locals, shown>>

\* dispatchHealthChecks and the start of the processor goroutine.
Dispatch(t) ==
  /\ At(t, "dispatch")
  /\ ~ctxDone[gen[t]]
  /\ chk' = [j \in Jobs |->
               IF j[2] = gen[t] /\ j[1] \in checkers
               THEN IF j[1] \in CheckAfter THEN "delay" ELSE "start"
               ELSE chk[j]]
  /\ pc' = [pc EXCEPT ![t] = "startup", ![gen[t]] = "select"]
  /\ UNCHANGED <<registry, running, flag, latches, results, channels, calls, pend,
                 each, locals, shown, crashed>>

DispatchCancelled(t) ==
  /\ At(t, "dispatch")
  /\ ctxDone[gen[t]]
  /\ Goto(t, "fail")
  /\ UNCHANGED <<background, running, flag, latches, results, each, locals, shown>>

\* initStartupState: without startup checks startup is complete at once.
InitStartupState(t) ==
  /\ At(t, "startup")
  /\ IF checkers \cap AffectsStartup = {}
     THEN startupDone' = TRUE /\ Swap(t, "startup", TRUE)
     ELSE UNCHANGED <<startupDone, flag, each>>
  /\ Goto(t, "live")
  /\ UNCHANGED <<background, running, allChecksRan, initialReady, results, locals,
                 shown>>

RunLive(t) ==
  /\ At(t, "live")
  /\ Swap(t, "live", TRUE)
  /\ Goto(t, "idle")
  /\ UNCHANGED <<background, running, latches, results, locals, shown>>

\* Mutation: errChan is not buffered.
ErrChanNeverHasRoom == errs < 0

\* errChan is made with room for one error.
ErrChanHasRoom == errs < 1

\* m.errChan <- err
SendErr(t) ==
  /\ At(t, "fail")
  /\ ErrChanHasRoom
  /\ errs' = 1
  /\ Goto(t, "reset")
  /\ UNCHANGED <<registry, running, flag, latches, results, funnel, cap, calls,
                 checking, each, locals, shown, crashed>>

\* The deferred reset of a Run that failed.
Reset(t) ==
  /\ At(t, "reset")
  /\ running' = FALSE
  /\ Goto(t, "idle")
  /\ UNCHANGED <<background, flag, latches, results, each, locals, shown>>

\* The application receives from the channel that Run returned.
RecvErr ==
  /\ errs = 1
  /\ errs' = 0
  /\ UNCHANGED <<elsewhere, funnel, cap, checking, crashed>>

\* The application cancels the context it gave to a Run.
Cancel(g) ==
  /\ g <= runs
  /\ ~ctxDone[g]
  /\ ctxDone' = [ctxDone EXCEPT ![g] = TRUE]
  /\ UNCHANGED <<registry, running, flag, latches, results, channels, runs, gen,
                 checking, pc, each, locals, shown, crashed>>

-----------------------------------------------------------------------------
(* Stop, called by the application or by a processor.                       *)

\* Where Stop leaves its caller: the processor returns as well.
AfterStop(t) == IF t \in App THEN "stopped" ELSE "done"

\* Mutation: Stop stores to running without comparing it first.
StopUnchecked(t) ==
  running' = FALSE /\ Goto(t, "stopReady")

\* Mutation: Stop clears the flag and leaves the reporters alone.
StopFlagOnly(t) ==
  running' = FALSE /\ Goto(t, AfterStop(t))

StopCAS(t) ==
  IF running
  THEN Goto(t, "stopReady") /\ running' = FALSE
  ELSE Goto(t, AfterStop(t)) /\ UNCHANGED running

Stop(t) ==
  /\ Idle(t)
  /\ StopCAS(t)
  /\ UNCHANGED <<background, flag, latches, results, each, locals, shown>>

StopReady(t) ==
  /\ At(t, "stopReady")
  /\ SetReady(t, FALSE)
  /\ Goto(t, "stopReporters")
  /\ UNCHANGED <<background, running, latches, results, locals, shown>>

StopReporters(t) ==
  /\ At(t, "stopReporters")
  /\ StartEach(t, "Stop", FALSE)
  /\ Goto(t, AfterStop(t))
  /\ UNCHANGED <<background, running, flag, latches, results, locals, shown>>

StopReporter(t, r) ==
  /\ each[t].call = "Stop" /\ r \in each[t].todo
  /\ up' = [up EXCEPT ![r] = FALSE]
  /\ Visited(t, r)
  /\ UNCHANGED <<background, running, flag, latches, results, pc, locals, told, seen>>

\* One SetLiveness, SetReadiness or SetStartup call of a fan-out.
Tell(t, r) ==
  /\ each[t].call \in Probes /\ r \in each[t].todo
  /\ told' = [told EXCEPT ![r][each[t].call] = each[t].value]
  /\ Visited(t, r)
  /\ UNCHANGED <<background, running, flag, latches, results, pc, locals, seen, up>>

-----------------------------------------------------------------------------
(* The processor goroutine of Run g: processHealthCheck, evaluateFitness.   *)

\* Mutation: the processor also returns when Stop was called.
ProcEndsWithManager(g) == ctxDone[g] \/ ~running

\* The case of the processor's select that ends it.
ProcEnds(g) == ctxDone[g]

\* select: the context is done; Stop, and return.
ProcStop(g) ==
  /\ At(g, "select")
  /\ ProcEnds(g)
  /\ StopCAS(g)
  /\ UNCHANGED <<background, flag, latches, results, each, locals, shown>>

\* A result reaches processHealthCheck, which drops it when the context is
\* done and relays it to the reporters otherwise.  Both goes on to Fitness.
Process(g, m) ==
  IF ctxDone[g]
  THEN Goto(g, "fitness") /\ UNCHANGED <<each, hc>>
  ELSE /\ Goto(g, "store")
       /\ StartEach(g, "UpdateHealthChecks", FALSE)
       /\ hc' = [hc EXCEPT ![g] = m]

\* select: a result is in the funnel.
Receive(g) ==
  /\ At(g, "select")
  /\ funnel # <<>>
  /\ funnel' = Tail(funnel)
  /\ Process(g, Head(funnel))
  /\ UNCHANGED <<registry, running, flag, latches, results, cap, errs, calls,
                 checking, est, arg, shown, crashed>>

Relay(g, r) ==
  /\ each[g].call = "UpdateHealthChecks" /\ r \in each[g].todo
  /\ seen' = [seen EXCEPT ![r][hc[g].name] = hc[g].status]
  /\ Visited(g, r)
  /\ UNCHANGED <<background, running, flag, latches, results, pc, locals, told, up>>

\* Mutation: a degraded result fails probes too.
FailingOrDegraded(status) == status # "healthy"

Failing(status) == status = "unhealthy"

CancelsLive(m) == Failing(m.status) /\ m.name \in AffectsLiveness

\* Mutation: a failing liveness check leaves readiness alone.
CancelsReadyOnly(m) == Failing(m.status) /\ m.name \in AffectsReadiness

CancelsReady(m) ==
  Failing(m.status) /\ m.name \in AffectsLiveness \cup AffectsReadiness

\* checkResults.Set: insert or remove a name as its result says.
Put(S, name, b) == IF b THEN S \cup {name} ELSE S \ {name}

\* Mutation: the gate opens one check early.
AllButOneReported(S) == Cardinality(S) + 1 >= Cardinality(checkers)

\* Mutation: the gate opens one check late.
MoreThanAllReported(S) == Cardinality(S) > Cardinality(checkers)

\* All checks have reported in when the two maps have the same size.
AllReported(S) == Cardinality(S) = Cardinality(checkers)

\* The deferred end of processHealthCheck.
Store(g) ==
  /\ At(g, "store")
  /\ reported' = reported \cup {hc[g].name}
  /\ cancelLive' = Put(cancelLive, hc[g].name, CancelsLive(hc[g]))
  /\ cancelReady' = Put(cancelReady, hc[g].name, CancelsReady(hc[g]))
  /\ allChecksRan' = (allChecksRan \/ AllReported(reported'))
  /\ hc' = [hc EXCEPT ![g] = NoResult]
  /\ Goto(g, "fitness")
  /\ UNCHANGED <<background, running, flag, initialReady, startupDone, each, est,
                 arg, shown>>

\* evaluateStartup: every startup check has a result that cancels nothing.
StartupPassed ==
  \A c \in checkers \cap AffectsStartup :
     c \in reported /\ c \notin cancelLive /\ c \notin cancelReady

\* evaluateFitness returns early.
FitnessBails(g) ==
  /\ At(g, "fitness")
  /\ ~running \/ ~allChecksRan \/ ~(startupDone \/ StartupPassed)
  /\ Goto(g, "select")
  /\ UNCHANGED <<background, running, flag, latches, results, each, locals, shown>>

\* Mutation: startup completes without telling the reporters.
CompleteStartupSilently(g) == startupDone' = TRUE /\ UNCHANGED <<flag, each>>

\* Mutation: evaluation goes on and startup is never marked complete.
PassStartup(g) == UNCHANGED <<startupDone, flag, each>>

CompleteStartup(g) ==
  IF startupDone
  THEN UNCHANGED <<startupDone, flag, each>>
  ELSE startupDone' = TRUE /\ Swap(g, "startup", TRUE)

Fitness(g) ==
  /\ At(g, "fitness")
  /\ running /\ allChecksRan /\ (startupDone \/ StartupPassed)
  /\ CompleteStartup(g)
  /\ Goto(g, "aggregate")
  /\ UNCHANGED <<background, running, allChecksRan, initialReady, results, locals,
                 shown>>

\* aggregateResults, and the readiness the reporters were last given.
Aggregate(g) ==
  /\ At(g, "aggregate")
  /\ est' = [est EXCEPT ![g] = [live |-> cancelLive = {},
                                ready |-> cancelReady = {},
                                shownReady |-> flag["ready"]]]
  /\ Goto(g, "initial")
  /\ UNCHANGED <<background, running, flag, latches, results, each, hc, arg, shown>>

\* The first evaluation that finds the application ready flips readiness on.
InitialReady(g) ==
  /\ At(g, "initial")
  /\ IF est[g].ready /\ ~initialReady
     THEN /\ initialReady' = TRUE
          /\ est' = [est EXCEPT ![g] = [live |-> est[g].live, ready |-> TRUE,
                                        shownReady |-> TRUE]]
          /\ SetReady(g, TRUE)
     ELSE UNCHANGED <<initialReady, est, flag, each>>
  /\ Goto(g, "liveness")
  /\ UNCHANGED <<background, running, allChecksRan, startupDone, results, hc, arg,
                 shown>>

\* applyLivenessChange
Liveness(g) ==
  /\ At(g, "liveness")
  /\ Swap(g, "live", est[g].live)
  /\ Goto(g, "readiness")
  /\ UNCHANGED <<background, running, latches, results, locals, shown>>

\* Mutation: readiness is raised and never withdrawn.
RaiseReadiness(g, ready) ==
  IF ready THEN SetReady(g, TRUE) ELSE UNCHANGED <<flag, each>>

\* applyReadinessChange compares with the local copy, not with readyPtr.
ApplyReadiness(g, ready) ==
  IF est[g].shownReady = ready
  THEN UNCHANGED <<flag, each>>
  ELSE SetReady(g, ready)

Readiness(g) ==
  /\ At(g, "readiness")
  /\ ApplyReadiness(g, est[g].ready /\ est[g].live)
  /\ est' = [est EXCEPT ![g] = NoEst]
  /\ Goto(g, "select")
  /\ UNCHANGED <<background, running, latches, results, hc, arg, shown>>

-----------------------------------------------------------------------------
(* The checker goroutine of check j[1] in Run j[2].                         *)

Move(j, s) == chk' = [chk EXCEPT ![j] = s]

\* Where the goroutine goes after a result, or after a nil result.
AfterCheck(j) == IF j[1] \in CheckAtInterval THEN "tick" ELSE "done"

\* A step of the goroutine between two labels that touches nothing else.
MoveFrom(j, from, to) ==
  /\ chk[j] = from
  /\ Move(j, to)
  /\ UNCHANGED <<elsewhere, channels, pend, crashed>>

\* time.Sleep(Delay), which no cancellation interrupts, is over.
Wake(j) == MoveFrom(j, "delay", "start")

BeginOnce(j) ==
  /\ j[1] \notin CheckAtInterval
  /\ MoveFrom(j, "start", IF ctxDone[j[2]] THEN "done" ELSE "check")

\* time.NewTicker panics for an interval that is not positive.
BeginTicker(j) ==
  /\ chk[j] = "start" /\ j[1] \in CheckAtInterval
  /\ crashed' = (j[1] \in ZeroInterval)
  /\ Move(j, "tick")
  /\ UNCHANGED <<elsewhere, channels, pend>>

\* The two cases of the interval checker's select.
Tick(j) == MoveFrom(j, "tick", "check")

TickDone(j) == ctxDone[j[2]] /\ MoveFrom(j, "tick", "done")

\* Mutation: a panic is reported with a status that is none of the three.
UnknownAfterPanic(o) == IF o = "panic" THEN "unknown" ELSE o

\* safeCheck: a panic becomes an unhealthy result, a nil result is not sent.
SafeCheck(o) == IF o = "panic" THEN "unhealthy" ELSE o

CheckReturns(j, o) ==
  /\ chk[j] = "check"
  /\ IF o = "nil"
     THEN Move(j, AfterCheck(j)) /\ UNCHANGED pend
     ELSE Move(j, "send") /\ pend' = [pend EXCEPT ![j] = SafeCheck(o)]
  /\ UNCHANGED <<elsewhere, channels, crashed>>

\* What applyCheckOptions makes of a result: the name decides its impact.
Result(j) == [name |-> j[1], status |-> pend[j]]

HasRoom == Len(funnel) < cap

Send(j) ==
  /\ chk[j] = "send"
  /\ HasRoom
  /\ funnel' = Append(funnel, Result(j))
  /\ Move(j, AfterCheck(j))
  /\ pend' = [pend EXCEPT ![j] = "none"]
  /\ UNCHANGED <<elsewhere, cap, errs, crashed>>

\* A funnel of capacity 0 passes a result straight to a waiting processor.
Handoff(j, g) ==
  /\ cap = 0
  /\ chk[j] = "send" /\ At(g, "select")
  /\ Process(g, Result(j))
  /\ Move(j, AfterCheck(j))
  /\ pend' = [pend EXCEPT ![j] = "none"]
  /\ UNCHANGED <<registry, running, flag, latches, results, channels, calls, est,
                 arg, shown, crashed>>

-----------------------------------------------------------------------------
(* An application goroutine begins a call.                                  *)
Call(t) ==
  \/ \E c \in Checks : AddCheck(t, c)
  \/ \E r \in Reporters : AddReporter(t, r)
  \/ RunCAS(t)
  \/ Stop(t)

\* A step of a call of the manager's API that is under way.
ApiStep(t) ==
  \/ AddCheckSet(t) \/ AddReporterSet(t)
  \/ InitInternals(t) \/ Validate(t)
  \/ Dispatch(t) \/ DispatchCancelled(t)
  \/ InitStartupState(t) \/ RunLive(t)
  \/ SendErr(t) \/ Reset(t)

RunVisit(t) == \E r \in Reporters : RunReporter(t, r) \/ RunReporterFails(t, r)

StopStep(t) == StopReady(t) \/ StopReporters(t)

Visit(t) == \E r \in Reporters : Tell(t, r) \/ StopReporter(t, r)

\* A step of processor g.
Proc(g) ==
  \/ ProcStop(g) \/ Receive(g) \/ Store(g)
  \/ \E r \in Reporters : Relay(g, r)
  \/ FitnessBails(g) \/ Fitness(g) \/ Aggregate(g)
  \/ InitialReady(g) \/ Liveness(g) \/ Readiness(g)

\* A step of checker j, except the ones that wait for another goroutine.
Checker(j) ==
  \/ Wake(j) \/ BeginOnce(j) \/ BeginTicker(j) \/ Tick(j)
  \/ \E o \in Outcomes : CheckReturns(j, o)

Step ==
  \/ RecvErr
  \/ \E t \in App : Call(t) \/ ApiStep(t) \/ RunVisit(t)
  \/ \E t \in Thread : StopStep(t) \/ Visit(t)
  \/ \E g \in Gen : Cancel(g) \/ Proc(g)
  \/ \E j \in Jobs : Checker(j) \/ TickDone(j) \/ Send(j)
  \/ \E j \in Jobs, g \in Gen : Handoff(j, g)

Next == ~crashed /\ Step

Spec == Init /\ [][Next]_vars

\* The funnel takes the result of checker j, into a slot or straight to a processor.
Deliver(j) == Send(j) \/ \E g \in Gen : Handoff(j, g)

(***************************************************************************)
(* Fairness: goroutines that can go on do so, tickers tick, sleeps end and *)
(* checks return.  A select with two ready cases takes either with equal   *)
(* probability, so a case that is ready over and over is taken (strong     *)
(* fairness of ProcStop and TickDone); blocked senders of a channel are    *)
(* served in order (strong fairness of Deliver).  Nothing obliges *)
(* the application to call the API or to cancel a context.                 *)
(***************************************************************************)
Fairness ==
  /\ \A t \in App : WF_vars(~crashed /\ ApiStep(t)) /\ WF_vars(~crashed /\ RunVisit(t))
  /\ \A t \in Thread : WF_vars(~crashed /\ StopStep(t)) /\ WF_vars(~crashed /\ Visit(t))
  /\ \A g \in Gen : WF_vars(~crashed /\ Proc(g)) /\ SF_vars(~crashed /\ ProcStop(g))
  /\ \A j \in Jobs : WF_vars(~crashed /\ Checker(j)) /\ SF_vars(~crashed /\ Deliver(j))
  /\ \A j \in CheckAtInterval \X Gen : SF_vars(~crashed /\ TickDone(j))

FairSpec == Spec /\ Fairness

-----------------------------------------------------------------------------
(* Properties.                                                              *)

AppLabels == {"idle", "stopped", "addCheck", "addReporter", "init", "validate",
              "dispatch", "startup", "live", "fail", "reset",
              "stopReady", "stopReporters"}
ProcLabels == {"off", "select", "store", "fitness", "aggregate", "initial",
               "liveness", "readiness", "stopReady", "stopReporters", "done"}
CheckerLabels == {"off", "delay", "start", "tick", "check", "send", "done"}
EachCalls == Probes \cup {"none", "Run", "Stop", "UpdateHealthChecks"}
Names == [name : Checks, status : Statuses]

\* The values the Manager's fields, its goroutines and its reporters take: whatever a
\* check ends in, the results that wait, are processed and are relayed have one of the
\* three statuses; and the funnel holds nothing before the first Run made it.
TypeOK ==
  /\ checkers \subseteq Checks /\ reporters \subseteq Reporters
  /\ running \in BOOLEAN
  /\ flag \in [Probes -> BOOLEAN]
  /\ allChecksRan \in BOOLEAN /\ initialReady \in BOOLEAN /\ startupDone \in BOOLEAN
  /\ reported \subseteq Checks /\ cancelLive \subseteq Checks /\ cancelReady \subseteq Checks
  /\ funnel \in Seq(Names)
  /\ cap \in Nat \cup {NilChan}
  /\ funnel # <<>> => Len(funnel) <= cap
  /\ errs \in {0, 1}
  /\ runs \in 0 .. MaxRuns
  /\ gen \in [App -> 0 .. MaxRuns]
  /\ ctxDone \in [Gen -> BOOLEAN]
  /\ chk \in [Jobs -> CheckerLabels]
  /\ pend \in [Jobs -> Statuses \cup {"none"}]
  /\ pc \in [Thread -> AppLabels \cup ProcLabels]
  /\ each \in [Thread -> [todo : SUBSET Reporters, call : EachCalls, value : BOOLEAN]]
  /\ hc \in [Gen -> Names \cup {NoResult}]
  /\ est \in [Gen -> [live : BOOLEAN, ready : BOOLEAN, shownReady : BOOLEAN]]
  /\ arg \in [App -> Checks \cup Reporters \cup {"none"}]
  /\ told \in [Reporters -> [Probes -> BOOLEAN]]
  /\ seen \in [Reporters -> [Checks -> Statuses \cup {"none"}]]
  /\ up \in [Reporters -> BOOLEAN]
  /\ crashed \in BOOLEAN


\* Every goroutine that calls into the manager is between two calls.
Settled ==
  \A t \in Thread : /\ each[t].todo = {}
                    /\ pc[t] \in {"idle", "stopped", "off", "select", "done"}

\* The checks some Run has dispatched.
Dispatched == {j[1] : j \in {k \in Jobs : chk[k] # "off"}}

ImpactsReady(c) == c \in AffectsLiveness \cup AffectsReadiness

\* The first-run gate of processHealthCheck and setReady, as a reporter sees it:
\* a reporter is told that the application is ready only after it was relayed a
\* result of every check that was dispatched.
FirstRunGate ==
  [][\A r \in Reporters : ~told[r]["ready"] /\ told'[r]["ready"] =>
        \A c \in Dispatched : seen[r][c] # "none"]_vars

\* allChecksRan is set by comparing the sizes of two maps; when it is set, the
\* keys agree as well: every registered check has a result.
LatchSound ==
  [][~allChecksRan /\ allChecksRan' => checkers \subseteq reported']_vars

\* setReady(true) happens only while no stored result of processHealthCheck
\* denies readiness or liveness and every dispatched check has one.
ReadyFlipJustified ==
  [][~flag["ready"] /\ flag'["ready"] =>
        cancelReady = {} /\ cancelLive = {} /\ Dispatched \subseteq reported]_vars

\* evaluateFitness keeps up: when nothing is under way in a running manager whose
\* gates are open, a reporter shows ready exactly when no check it was relayed as
\* unhealthy affects readiness or liveness.
ReadinessAccurate ==
  Settled /\ running /\ GatesOpen /\ (\A g \in Gen : ~ctxDone[g]) =>
    \A r \in reporters :
      told[r]["ready"] = \A c \in checkers : ~(seen[r][c] = "unhealthy" /\ ImpactsReady(c))

\* The same of liveness and the checks that affect liveness.
LivenessAccurate ==
  Settled /\ running /\ GatesOpen /\ (\A g \in Gen : ~ctxDone[g]) =>
    \A r \in reporters :
      told[r]["live"] = \A c \in checkers : ~(seen[r][c] = "unhealthy" /\ c \in AffectsLiveness)

\* A reporter is told to give up liveness only after it was relayed an unhealthy
\* result of a check with liveness impact: neither a degraded result nor the
\* readiness impact of a check costs liveness, and the relay comes first.
LiveLossJustified ==
  [][\A r \in Reporters : told[r]["live"] /\ ~told'[r]["live"] =>
        \E c \in AffectsLiveness : seen[r][c] = "unhealthy"]_vars

\* Startup completes only when the last relayed result of every startup check
\* passed (evaluateStartup).
StartupChecksPassed ==
  [][~startupDone /\ startupDone' =>
        \A c \in checkers \cap AffectsStartup, r \in reporters :
           seen[r][c] \in {"healthy", "degraded"}]_vars

\* With startup checks, a reporter learns that startup is complete before it is
\* told that the application is ready.
StartupBeforeReady ==
  Dispatched \cap AffectsStartup # {} =>
    \A r \in Reporters : told[r]["ready"] => told[r]["startup"]

\* Goroutine t won the running flag in Stop and has not finished yet.
InStop(t) ==
  \/ pc[t] \in {"stopReady", "stopReporters"}
  \/ each[t].call = "Stop" /\ each[t].todo # {}

\* Stop is called by the application and by the processor; in the life of one
\* Run the reporters are stopped by one of them only, and only after running was
\* cleared.
StopExclusive ==
  \A t \in Thread : InStop(t) => ~running /\ \A u \in Thread : InStop(u) => u = t

\* The manager implements what it promises to reporters about the gates.
Promise == INSTANCE ProbePromise WITH ran <- allChecksRan, started <- startupDone
ImplementsPromise == Promise!Spec

\* A checker that waits to send is served, unless its context is cancelled.
SenderProgress ==
  \A j \in Jobs : chk[j] = "send" ~> (chk[j] # "send" \/ ctxDone[j[2]])

\* After a cancellation the processor ends; and if the manager was still running once
\* it had a processor, the reporters are stopped, by the processor's Stop or by one of
\* the application's.  A Stop that comes earlier, while Run starts reporters, is no part
\* of it: it takes the running flag, Run goes on, and the processor's Stop then finds
\* nothing to do.
ShutdownCompletes ==
  \A g \in Gen :
    /\ ctxDone[g] /\ pc[g] # "off" ~> pc[g] = "done"
    /\ runs = g /\ running /\ pc[g] # "off" ~> (\A r \in Reporters : ~up[r]) \/ []~ctxDone[g]

\* Run returns, also when it fails, unless errChan holds the error of an earlier Run
\* that nobody ever receives.
RunReturns ==
  \A t \in App : pc[t] = "init" ~> Idle(t) \/ [](At(t, "fail") /\ errs = 1)

\* The first Run of a manager that keeps running makes it ready, whatever the order in
\* which its checks report, unless one of them fails, or one that is registered never
\* reports (it returns nil, or AddCheck let it in too late to be dispatched).
ReadyEventually ==
  \A t \in App, r \in Reporters :
     pc[t] = "live" /\ runs = 1 /\ r \in reporters ~>
       \/ told[r]["ready"] \/ ~running \/ \E g \in Gen : ctxDone[g]
       \/ \E c \in Checks : seen[r][c] = "unhealthy"
       \/ [](~(checkers \subseteq reported))

\* Once Stop has returned no reporter is left showing ready.
NotReadyAfterStop ==
  \A t \in App : At(t, "stopped") /\ Settled => \A r \in Reporters : ~told[r]["ready"]

\* A cancelled context ends the checks of its Run.
CancelEndsChecks ==
  \A j \in Jobs : ctxDone[j[2]] ~> chk[j] \in {"off", "done"}
=============================================================================
