---------------------------- MODULE FanoutProofs ----------------------------
(***************************************************************************)
(* Theorems about Fanout, for any checks, impacts, setups of reporters,    *)
(* clients and bounds: what the reporters show is what the manager means.  *)
(***************************************************************************)
EXTENDS Fanout, TLAPS

\* The callers are the application's goroutine and the processor.
LEMMA TwoCallers ==
  /\ app \in Callers /\ proc \in Callers /\ app # proc
  /\ \A t \in Callers : t = app \/ t = proc
BY FanoutAssumption

\* The names of the reporters are told apart.
LEMMA Names ==
  /\ grpc # stdout /\ grpc # tester /\ stdout # tester
  /\ grpc \notin Metrics /\ stdout \notin Metrics /\ tester \notin Metrics
BY FanoutAssumption

CallType ==
  [op : {"none", "Run", "error", "Stop", "Set", "Update"},
   key : Probes \cup Checks \cup {"none"}, on : BOOLEAN,
   res : [n : Nat, status : Statuses \cup {"none"}]]

\* The fields of the calls that the manager makes.
LEMMA CallFields ==
  /\ RunCall \in CallType /\ RunCall.op = "Run"
  /\ RunError \in CallType /\ RunError.op = "error"
  /\ StopCall \in CallType /\ StopCall.op = "Stop"
  /\ \A p \in Probes, b \in BOOLEAN :
       /\ SetCall(p, b) \in CallType
       /\ SetCall(p, b).op = "Set" /\ SetCall(p, b).key = p /\ SetCall(p, b).on = b
  /\ \A k \in Checks, r \in [n : Nat, status : Statuses] :
       /\ UpdateCall(k, r) \in CallType
       /\ UpdateCall(k, r).op = "Update" /\ UpdateCall(k, r).key = k /\ UpdateCall(k, r).res = r
<1>1. /\ RunCall \in CallType /\ RunCall.op = "Run"
      /\ RunError \in CallType /\ RunError.op = "error"
      /\ StopCall \in CallType /\ StopCall.op = "Stop"
  BY DEF RunCall, RunError, StopCall, NoCall, NoResult, CallType
<1>2. ASSUME NEW p \in Probes, NEW b \in BOOLEAN
      PROVE  /\ SetCall(p, b) \in CallType
             /\ SetCall(p, b).op = "Set" /\ SetCall(p, b).key = p /\ SetCall(p, b).on = b
  BY <1>2 DEF SetCall, NoCall, NoResult, CallType
<1>3. ASSUME NEW k \in Checks, NEW r \in [n : Nat, status : Statuses]
      PROVE  /\ UpdateCall(k, r) \in CallType
             /\ UpdateCall(k, r).op = "Update" /\ UpdateCall(k, r).key = k
             /\ UpdateCall(k, r).res = r
  BY <1>3 DEF UpdateCall, NoCall, NoResult, CallType
<1> QED
  BY <1>1, <1>2, <1>3

\* A caller is inside a method of a reporter that it has to call.
AtOK(t) ==
  \/ at[t] = Nowhere
  \/ In(t, grpc, "listen") /\ grpc \in todo[t] /\ call[t].op = "Run"
  \/ (In(t, grpc, "graceful") \/ In(t, grpc, "drain")) /\ grpc \in todo[t] /\ call[t].op = "Stop"
  \/ In(t, tester, "boop") /\ tester \in todo[t] /\ call[t].op = "Set"
  \/ \E r \in Metrics \cap todo[t] : \/ In(t, r, "gauge") /\ call[t].op = "Set"
                                     \/ In(t, r, "record") /\ call[t].op = "Update"

\* The fan-outs.
CallingOK ==
  /\ reporters \in Setups
  /\ call \in [Callers -> CallType]
  /\ todo \in [Callers -> SUBSET reporters]
  /\ DOMAIN at = Callers
  /\ \A t \in Callers : AtOK(t)

\* A step of t that at most begins a fan-out of c.
Began(t, c) ==
  /\ CallingOK'
  /\ reporters' = reporters
  /\ todo'[t] # {} => call'[t] = c
  /\ \A u \in Callers \ {t} : todo'[u] = todo[u] /\ call'[u] = call[u]

\* A caller that has nothing under way is in no method.
LEMMA FreeNowhere ==
  ASSUME CallingOK, NEW t \in Callers, Free(t)
  PROVE  at[t] = Nowhere
BY DEF CallingOK, AtOK, Free

\* reporters.Each begins.
LEMMA FanBegins ==
  ASSUME CallingOK, NEW t \in Callers, NEW c \in CallType, Free(t), Fan(t, c)
  PROVE  Began(t, c) /\ todo'[t] = reporters /\ at' = at /\ call'[t] = c
<1>1. at[t] = Nowhere
  BY FreeNowhere
<1>2. /\ call' = [call EXCEPT ![t] = c] /\ todo' = [todo EXCEPT ![t] = reporters]
      /\ reporters' = reporters /\ at' = at
  BY DEF Fan
<1>3. call' \in [Callers -> CallType] /\ todo' \in [Callers -> SUBSET reporters]
      /\ call'[t] = c /\ todo'[t] = reporters
      /\ \A u \in Callers \ {t} : todo'[u] = todo[u] /\ call'[u] = call[u]
  BY <1>2 DEF CallingOK
<1>4. ASSUME NEW u \in Callers PROVE AtOK(u)'
  <2>1. CASE u = t
    BY <2>1, <1>1, <1>2 DEF AtOK
  <2>2. CASE u # t
    <3>1. AtOK(u) /\ todo'[u] = todo[u] /\ call'[u] = call[u] /\ at'[u] = at[u]
      BY <2>2, <1>2, <1>3 DEF CallingOK
    <3> QED
      BY <3>1 DEF AtOK, In
  <2> QED
    BY <2>1, <2>2
<1> QED
  BY <1>2, <1>3, <1>4 DEF CallingOK, Began

\* A step that leaves the fan-outs alone.
LEMMA NoFan ==
  ASSUME CallingOK, NEW t \in Callers, NEW c, Free(t), UNCHANGED calling
  PROVE  Began(t, c)
<1>1. reporters' = reporters /\ call' = call /\ todo' = todo /\ at' = at
  BY DEF calling
<1>2. \A u \in Callers : AtOK(u)'
  BY <1>1 DEF CallingOK, AtOK, In
<1>3. CallingOK'
  BY <1>1, <1>2 DEF CallingOK
<1> QED
  BY <1>1, <1>3 DEF Began, Free

\* setLive, setReady and setStartup announce a change.
LEMMA SwapBegins ==
  ASSUME CallingOK, flag \in [Probes -> BOOLEAN],
         NEW t \in Callers, NEW p \in Probes, NEW v \in BOOLEAN, Free(t), Swap(t, p, v)
  PROVE  /\ Began(t, SetCall(p, v)) /\ at' = at
         /\ flag' \in [Probes -> BOOLEAN] /\ flag' = [flag EXCEPT ![p] = v]
         /\ flag[p] = v => UNCHANGED calling
         /\ flag[p] # v => todo'[t] = reporters /\ call'[t] = SetCall(p, v)
<1>1. flag' = [flag EXCEPT ![p] = v]
  BY DEF Swap
<1>2. flag' \in [Probes -> BOOLEAN]
  BY <1>1
<1>3. CASE flag[p] # v
  <2>1. Fan(t, SetCall(p, v)) /\ SetCall(p, v) \in CallType
    BY <1>3, CallFields DEF Swap
  <2> QED
    BY <2>1, <1>1, <1>2, <1>3, FanBegins
<1>4. CASE flag[p] = v
  <2>1. UNCHANGED calling
    BY <1>4 DEF Swap
  <2>2. Began(t, SetCall(p, v))
    BY <2>1, NoFan
  <2> QED
    BY <2>1, <2>2, <1>1, <1>2, <1>4 DEF calling
<1> QED
  BY <1>3, <1>4

\* setReady announces a change, or is refused.
LEMMA SetReadyBegins ==
  ASSUME CallingOK, flag \in [Probes -> BOOLEAN],
         NEW t \in Callers, NEW v \in BOOLEAN, Free(t), SetReady(t, v)
  PROVE  /\ Began(t, SetCall("ready", v)) /\ at' = at
         /\ flag' \in [Probes -> BOOLEAN]
         /\ flag' = flag \/ flag' = [flag EXCEPT !["ready"] = v]
         /\ flag' = flag => UNCHANGED calling
         /\ flag' # flag => todo'[t] = reporters /\ call'[t] = SetCall("ready", v)
         /\ ~v \/ (AllChecksRan /\ startupDone) => flag'["ready"] = v
<1>0. "ready" \in Probes
  BY DEF Probes
<1>1. CASE v /\ ~(AllChecksRan /\ startupDone)
  <2>1. UNCHANGED calling /\ flag' = flag
    BY <1>1 DEF SetReady
  <2> QED
    BY <1>1, <2>1, NoFan DEF calling
<1>2. CASE ~(v /\ ~(AllChecksRan /\ startupDone))
  <2>1. Swap(t, "ready", v)
    BY <1>2 DEF SetReady
  <2>2. /\ Began(t, SetCall("ready", v)) /\ at' = at
        /\ flag' \in [Probes -> BOOLEAN] /\ flag' = [flag EXCEPT !["ready"] = v]
        /\ flag["ready"] = v => UNCHANGED calling
        /\ flag["ready"] # v => todo'[t] = reporters /\ call'[t] = SetCall("ready", v)
    BY <2>1, <1>0, SwapBegins
  <2>3. flag'["ready"] = v /\ (flag' = flag <=> flag["ready"] = v)
    BY <2>2, <1>0
  <2> QED
    BY <2>2, <2>3
<1> QED
  BY <1>1, <1>2

-----------------------------------------------------------------------------
(* The steps of reporters' methods.                                         *)

\* Only t moves, in a method of r, and may be done with r; or Run ends with an error.
Moved(t, r) ==
  /\ CallingOK'
  /\ reporters' = reporters
  /\ \/ call' = call /\ todo'[t] \in {todo[t], todo[t] \ {r}}
     \/ call[t].op = "Run" /\ call'[t] = RunError /\ todo'[t] = {}
  /\ at'[t] = Nowhere \/ \E l : at'[t] = <<r, l>>
  /\ \A u \in Callers \ {t} : todo'[u] = todo[u] /\ call'[u] = call[u] /\ at'[u] = at[u]

\* What a caller may be doing in a method of r at label l.
Within(t, r, l) ==
  /\ r \in todo[t]
  /\ \/ r = grpc /\ l = "listen" /\ call[t].op = "Run"
     \/ r = grpc /\ l \in {"graceful", "drain"} /\ call[t].op = "Stop"
     \/ r = tester /\ l = "boop" /\ call[t].op = "Set"
     \/ r \in Metrics /\ l = "gauge" /\ call[t].op = "Set"
     \/ r \in Metrics /\ l = "record" /\ call[t].op = "Update"

\* A caller that is inside a method is where the method can be.
LEMMA InWithin ==
  ASSUME CallingOK, NEW t \in Callers, NEW r, NEW l, In(t, r, l), l # "none"
  PROVE  Within(t, r, l)
<1>1. AtOK(t) /\ at[t] = <<r, l>> /\ at[t] # Nowhere
  BY DEF CallingOK, In, Nowhere
<1>2. CASE In(t, grpc, "listen") /\ grpc \in todo[t] /\ call[t].op = "Run"
  BY <1>1, <1>2 DEF In, Within
<1>3. CASE (In(t, grpc, "graceful") \/ In(t, grpc, "drain")) /\ grpc \in todo[t]
           /\ call[t].op = "Stop"
  BY <1>1, <1>3 DEF In, Within
<1>4. CASE In(t, tester, "boop") /\ tester \in todo[t] /\ call[t].op = "Set"
  BY <1>1, <1>4 DEF In, Within
<1>5. CASE \E m \in Metrics \cap todo[t] : \/ In(t, m, "gauge") /\ call[t].op = "Set"
                                           \/ In(t, m, "record") /\ call[t].op = "Update"
  BY <1>1, <1>5 DEF In, Within
<1> QED
  BY <1>1, <1>2, <1>3, <1>4, <1>5 DEF AtOK

\* A method goes on at label l.
LEMMA GotoMoves ==
  ASSUME CallingOK, NEW t \in Callers, NEW r, NEW l, Goto(t, r, l), Within(t, r, l)
  PROVE  Moved(t, r) /\ call' = call /\ todo' = todo /\ at'[t] = <<r, l>>
<1>1. /\ at' = [at EXCEPT ![t] = <<r, l>>]
      /\ reporters' = reporters /\ call' = call /\ todo' = todo
  BY DEF Goto
<1>2. at'[t] = <<r, l>> /\ DOMAIN at' = Callers /\ \A u \in Callers \ {t} : at'[u] = at[u]
  BY <1>1 DEF CallingOK
<1>3. AtOK(t)'
  BY <1>1, <1>2 DEF Within, AtOK, In
<1>4. ASSUME NEW u \in Callers \ {t} PROVE AtOK(u)'
  BY <1>1, <1>2, <1>4 DEF CallingOK, AtOK, In
<1> QED
  BY <1>1, <1>2, <1>3, <1>4 DEF CallingOK, Moved

\* A method returns.
LEMMA ReturnsMoves ==
  ASSUME CallingOK, NEW t \in Callers, NEW r, Returns(t, r)
  PROVE  Moved(t, r) /\ call' = call /\ todo'[t] = todo[t] \ {r} /\ at'[t] = Nowhere
<1>1. /\ at' = [at EXCEPT ![t] = Nowhere] /\ todo' = [todo EXCEPT ![t] = todo[t] \ {r}]
      /\ reporters' = reporters /\ call' = call
  BY DEF Returns
<1>2. /\ at'[t] = Nowhere /\ DOMAIN at' = Callers /\ \A u \in Callers \ {t} : at'[u] = at[u]
      /\ todo' \in [Callers -> SUBSET reporters] /\ todo'[t] = todo[t] \ {r}
      /\ \A u \in Callers \ {t} : todo'[u] = todo[u]
  BY <1>1 DEF CallingOK
<1>3. AtOK(t)'
  BY <1>2 DEF AtOK
<1>4. ASSUME NEW u \in Callers \ {t} PROVE AtOK(u)'
  BY <1>1, <1>2, <1>4 DEF CallingOK, AtOK, In
<1> QED
  BY <1>1, <1>2, <1>3, <1>4 DEF CallingOK, Moved

\* A method returns an error.
LEMMA ErrsMoves ==
  ASSUME CallingOK, NEW t \in Callers, NEW r, Errs(t), call[t].op = "Run"
  PROVE  Moved(t, r) /\ todo'[t] = {} /\ at'[t] = Nowhere /\ call'[t] = RunError
<1>1. /\ at' = [at EXCEPT ![t] = Nowhere] /\ todo' = [todo EXCEPT ![t] = {}]
      /\ call' = [call EXCEPT ![t] = RunError] /\ reporters' = reporters
  BY DEF Errs
<1>2. /\ at'[t] = Nowhere /\ DOMAIN at' = Callers /\ \A u \in Callers \ {t} : at'[u] = at[u]
      /\ todo' \in [Callers -> SUBSET reporters] /\ todo'[t] = {}
      /\ call' \in [Callers -> CallType] /\ call'[t] = RunError
      /\ \A u \in Callers \ {t} : todo'[u] = todo[u] /\ call'[u] = call[u]
  BY <1>1, CallFields DEF CallingOK
<1>3. AtOK(t)'
  BY <1>2 DEF AtOK
<1>4. ASSUME NEW u \in Callers \ {t} PROVE AtOK(u)'
  BY <1>1, <1>2, <1>4 DEF CallingOK, AtOK, In
<1> QED
  BY <1>1, <1>2, <1>3, <1>4 DEF CallingOK, Moved

\* A step of the gRPC reporter is a move of the caller in its fan-out.
LEMMA GRPCMoves ==
  ASSUME CallingOK, NEW t \in Callers, GRPCStep(t)
  PROVE  Moved(t, grpc)
<1>1. CASE GRPCRun(t)
  <2>1. grpc \in todo[t] /\ call[t].op = "Run" /\ (Errs(t) \/ Goto(t, grpc, "listen"))
    BY <1>1 DEF GRPCRun, Starts
  <2>2. Within(t, grpc, "listen")
    BY <2>1 DEF Within
  <2> QED
    BY <2>1, <2>2, ErrsMoves, GotoMoves
<1>2. CASE GRPCListen(t)
  BY <1>2, ReturnsMoves DEF GRPCListen
<1>3. CASE GRPCListenFails(t)
  <2>1. In(t, grpc, "listen") /\ Errs(t)
    BY <1>3 DEF GRPCListenFails
  <2>2. call[t].op = "Run"
    BY <2>1, InWithin DEF Within
  <2> QED
    BY <2>1, <2>2, ErrsMoves
<1>4. CASE GRPCStop(t)
  <2>1. grpc \in todo[t] /\ call[t].op = "Stop" /\ (Returns(t, grpc) \/ Goto(t, grpc, "graceful"))
    BY <1>4 DEF GRPCStop, Starts
  <2>2. Within(t, grpc, "graceful")
    BY <2>1 DEF Within
  <2> QED
    BY <2>1, <2>2, ReturnsMoves, GotoMoves
<1>5. CASE GracefulStop(t)
  <2>1. In(t, grpc, "graceful") /\ Goto(t, grpc, "drain")
    BY <1>5 DEF GracefulStop
  <2>2. Within(t, grpc, "graceful")
    BY <2>1, InWithin
  <2>3. Within(t, grpc, "drain")
    BY <2>2, Names DEF Within
  <2> QED
    BY <2>1, <2>3, GotoMoves
<1>6. CASE Drained(t)
  BY <1>6, ReturnsMoves DEF Drained
<1>7. CASE GRPCSet(t) \/ GRPCUpdate(t)
  BY <1>7, ReturnsMoves DEF GRPCSet, GRPCUpdate
<1> QED
  BY <1>1, <1>2, <1>3, <1>4, <1>5, <1>6, <1>7 DEF GRPCStep

\* The same for the metrics reporters.
LEMMA MetricsMoves ==
  ASSUME CallingOK, NEW t \in Callers, NEW r \in Metrics,
         \/ MetricsRun(t, r) \/ MetricsStop(t, r) \/ MetricsStore(t, r)
         \/ MetricsGauge(t, r) \/ MetricsUpdate(t, r) \/ MetricsRecord(t, r)
  PROVE  Moved(t, r)
<1>1. CASE MetricsRun(t, r) \/ MetricsStop(t, r) \/ MetricsGauge(t, r) \/ MetricsRecord(t, r)
  BY <1>1, ReturnsMoves DEF MetricsRun, MetricsStop, MetricsGauge, MetricsRecord
<1>2. CASE MetricsStore(t, r)
  <2>1. Goto(t, r, "gauge") /\ Within(t, r, "gauge")
    BY <1>2 DEF MetricsStore, Starts, Within
  <2> QED
    BY <2>1, GotoMoves
<1>3. CASE MetricsUpdate(t, r)
  <2>1. (Goto(t, r, "record") \/ Returns(t, r)) /\ Within(t, r, "record")
    BY <1>3 DEF MetricsUpdate, Starts, Within
  <2> QED
    BY <2>1, GotoMoves, ReturnsMoves
<1> QED
  BY <1>1, <1>2, <1>3

\* The same for the stdout reporter.
LEMMA StdoutMoves ==
  ASSUME CallingOK, NEW t \in Callers, StdoutStep(t)
  PROVE  Moved(t, stdout)
BY ReturnsMoves DEF StdoutStep, StdoutRunStop, StdoutSet, StdoutUpdate

\* The same for the test reporter.
LEMMA TestMoves ==
  ASSUME CallingOK, NEW t \in Callers, TestStep(t)
  PROVE  Moved(t, tester)
<1>1. CASE TestRunStop(t) \/ TestCount(t) \/ TestUpdate(t)
  BY <1>1, ReturnsMoves DEF TestRunStop, TestCount, TestUpdate
<1>2. CASE TestStore(t)
  <2>1. Goto(t, tester, "boop") /\ Within(t, tester, "boop")
    BY <1>2 DEF TestStore, Starts, Within
  <2> QED
    BY <2>1, GotoMoves
<1> QED
  BY <1>1, <1>2 DEF TestStep

\* A method of a reporter moves its caller and leaves the manager alone.
LEMMA ReporterMoves ==
  ASSUME CallingOK, NEW t \in Callers, ReporterStep(t)
  PROVE  UNCHANGED manager /\ \E r : Moved(t, r)
<1>1. UNCHANGED manager
  BY DEF ReporterStep
<1>2. CASE GRPCStep(t)
  BY <1>1, <1>2, GRPCMoves
<1>3. CASE MetricsStep(t)
  BY <1>1, <1>3, MetricsMoves DEF MetricsStep
<1>4. CASE StdoutStep(t) \/ TestStep(t)
  BY <1>1, <1>4, StdoutMoves, TestMoves
<1> QED
  BY <1>2, <1>3, <1>4 DEF ReporterStep

-----------------------------------------------------------------------------
(* The manager's steps.                                                     *)

AppLabels == {"idle", "dispatch", "startup", "live", "up", "stopReady", "stopReporters", "done"}
ProcLabels == {"off", "select", "store", "fitness", "initial", "liveness", "readiness",
               "stopReady", "stopReporters", "done"}
Stopping == {"stopReady", "stopReporters", "done"}

\* Run's goroutine and the processor: which of them are started, and that Stop
\* clears running for good.
PcOK ==
  /\ pc \in [Callers -> AppLabels \cup ProcLabels]
  /\ pc[app] \in AppLabels /\ pc[proc] \in ProcLabels
  /\ pc[proc] = "off" <=> pc[app] \in {"idle", "dispatch"}
  /\ running \in BOOLEAN
  /\ \A t \in Callers : pc[t] \in Stopping => ~running

\* The manager's fields and the local variables of the processor.
FieldsOK ==
  /\ flag \in [Probes -> BOOLEAN]
  /\ startupDone \in BOOLEAN /\ initialReady \in BOOLEAN
  /\ last \in [Checks -> Results]
  /\ est \in [live : BOOLEAN, ready : BOOLEAN, shownReady : BOOLEAN]
  /\ est.ready => est.live
  /\ pc[proc] = "store" => /\ hc.key \in Checks
                           /\ hc.res \in [n : 1 .. MaxResults, status : Statuses]
                           /\ hc.res.n = last[hc.key].n + 1

\* A fan-out under way is the one that the caller began when it moved to its label.
CallOK(t) ==
  todo[t] # {} =>
    \/ t = app /\ pc[t] = "dispatch" /\ call[t] = RunCall
    \/ t = app /\ pc[t] = "live" /\ call[t] = SetCall("startup", TRUE)
    \/ t = app /\ pc[t] = "up" /\ call[t] = SetCall("live", TRUE)
    \/ t = proc /\ pc[t] = "store" /\ call[t] = UpdateCall(hc.key, hc.res)
    \/ t = proc /\ pc[t] = "initial" /\ call[t] = SetCall("startup", TRUE)
    \/ t = proc /\ pc[t] = "liveness" /\ call[t] = SetCall("ready", TRUE) /\ est.ready
    \/ t = proc /\ pc[t] = "readiness" /\ call[t] = SetCall("live", est.live)
    \/ t = proc /\ pc[t] = "select" /\ call[t] = SetCall("ready", est.ready)
    \/ pc[t] = "stopReporters" /\ call[t] = SetCall("ready", FALSE)
    \/ pc[t] = "done" /\ call[t] = StopCall

CallInv == CallingOK /\ PcOK /\ FieldsOK /\ \A t \in Callers : CallOK(t)

\* The other caller's fan-out is not disturbed.
LEMMA OtherCall ==
  ASSUME NEW t \in Callers, NEW u \in Callers, u # t, CallOK(u),
         todo'[u] = todo[u], call'[u] = call[u], pc'[u] = pc[u],
         u = app \/ (hc' = hc /\ est' = est)
  PROVE  CallOK(u)'
BY TwoCallers DEF CallOK

\* What aggregateResults finds is consistent.
LEMMA Verdicts ==
  /\ Verdict("live") \in BOOLEAN /\ Verdict("ready") \in BOOLEAN
  /\ Verdict("ready") => Verdict("live")
BY DEF Verdict, Cancels

\* Run's part of the manager.
LEMMA RunKeepsCalls ==
  ASSUME CallInv,
         Run \/ RunFails \/ Dispatch \/ InitStartupState \/ RunLive \/ Cancel
  PROVE  CallInv'
<1>0. /\ CallingOK /\ PcOK /\ FieldsOK /\ CallOK(app) /\ CallOK(proc)
      /\ app \in Callers /\ proc \in Callers /\ app # proc
      /\ \A t \in Callers : t = app \/ t = proc
  BY TwoCallers DEF CallInv
<1>p. "live" \in Probes /\ "startup" \in Probes
  BY DEF Probes
<1>1. CASE Run
  <2>1. Began(app, RunCall)
    BY <1>0, <1>1, FanBegins, CallFields DEF Run, At
  <2>2. pc' = [pc EXCEPT ![app] = "dispatch"] /\ pc[app] = "idle" /\ running' = TRUE
        /\ UNCHANGED <<flag, startupDone, initialReady, last, hc, est>>
    BY <1>1 DEF Run, At, Moves
  <2>3. PcOK'
    BY <1>0, <2>2 DEF PcOK, AppLabels, ProcLabels, Stopping
  <2>4. FieldsOK' /\ pc'[app] = "dispatch" /\ pc'[proc] = pc[proc]
    BY <1>0, <2>2 DEF FieldsOK, PcOK
  <2>5. CallOK(app)' /\ CallOK(proc)'
    BY <1>0, <2>1, <2>2, <2>4, OtherCall DEF CallOK, Began
  <2> QED
    BY <1>0, <2>1, <2>3, <2>4, <2>5 DEF CallInv, Began
<1>2. CASE RunFails
  <2>1. Began(app, RunCall) /\ todo' = todo /\ todo[app] = {}
    BY <1>0, <1>2, NoFan DEF RunFails, At, Free, calling
  <2>2. pc' = [pc EXCEPT ![app] = "idle"] /\ pc[app] = "dispatch" /\ running' = FALSE
        /\ UNCHANGED <<flag, startupDone, initialReady, last, hc, est>>
    BY <1>2 DEF RunFails, At, Moves
  <2>3. PcOK'
    BY <1>0, <2>2 DEF PcOK, AppLabels, ProcLabels, Stopping
  <2>4. FieldsOK' /\ pc'[app] = "idle" /\ pc'[proc] = pc[proc]
    BY <1>0, <2>2 DEF FieldsOK, PcOK
  <2>5. CallOK(app)' /\ CallOK(proc)'
    BY <1>0, <2>1, <2>2, <2>4, OtherCall DEF CallOK, Began
  <2> QED
    BY <1>0, <2>1, <2>3, <2>4, <2>5 DEF CallInv, Began
<1>3. CASE Dispatch
  <2>1. Began(app, RunCall) /\ todo' = todo /\ todo[app] = {}
    BY <1>0, <1>3, NoFan DEF Dispatch, At, Free, calling
  <2>2. pc' = [pc EXCEPT ![app] = "startup", ![proc] = "select"] /\ pc[app] = "dispatch"
        /\ UNCHANGED <<running, flag, startupDone, initialReady, last, hc, est>>
    BY <1>3 DEF Dispatch, At
  <2>3. PcOK'
    BY <1>0, <2>2 DEF PcOK, AppLabels, ProcLabels, Stopping
  <2>4. FieldsOK' /\ pc'[app] = "startup" /\ pc'[proc] = "select"
    BY <1>0, <2>2 DEF FieldsOK, PcOK
  <2>5. todo[proc] = {}
    BY <1>0, <2>2 DEF PcOK, CallOK
  <2>6. CallOK(app)' /\ CallOK(proc)'
    BY <2>1, <2>5 DEF CallOK
  <2> QED
    BY <1>0, <2>1, <2>3, <2>4, <2>6 DEF CallInv, Began
<1>4. CASE InitStartupState
  <2>1. Began(app, SetCall("startup", TRUE)) /\ flag' \in [Probes -> BOOLEAN]
    BY <1>0, <1>p, <1>4, SwapBegins DEF InitStartupState, At, FieldsOK
  <2>2. pc' = [pc EXCEPT ![app] = "live"] /\ pc[app] = "startup" /\ startupDone' = TRUE
        /\ UNCHANGED <<running, initialReady, last, hc, est>>
    BY <1>4 DEF InitStartupState, At, Moves
  <2>3. PcOK'
    BY <1>0, <2>2 DEF PcOK, AppLabels, ProcLabels, Stopping
  <2>4. FieldsOK' /\ pc'[app] = "live" /\ pc'[proc] = pc[proc]
    BY <1>0, <2>1, <2>2 DEF FieldsOK, PcOK
  <2>5. CallOK(app)' /\ CallOK(proc)'
    BY <1>0, <2>1, <2>2, <2>4, OtherCall DEF CallOK, Began
  <2> QED
    BY <1>0, <2>1, <2>3, <2>4, <2>5 DEF CallInv, Began
<1>5. CASE RunLive
  <2>1. Began(app, SetCall("live", TRUE)) /\ flag' \in [Probes -> BOOLEAN]
    BY <1>0, <1>p, <1>5, SwapBegins DEF RunLive, At, FieldsOK
  <2>2. pc' = [pc EXCEPT ![app] = "up"] /\ pc[app] = "live"
        /\ UNCHANGED <<running, startupDone, initialReady, last, hc, est>>
    BY <1>5 DEF RunLive, At, Moves
  <2>3. PcOK'
    BY <1>0, <2>2 DEF PcOK, AppLabels, ProcLabels, Stopping
  <2>4. FieldsOK' /\ pc'[app] = "up" /\ pc'[proc] = pc[proc]
    BY <1>0, <2>1, <2>2 DEF FieldsOK, PcOK
  <2>5. CallOK(app)' /\ CallOK(proc)'
    BY <1>0, <2>1, <2>2, <2>4, OtherCall DEF CallOK, Began
  <2> QED
    BY <1>0, <2>1, <2>3, <2>4, <2>5 DEF CallInv, Began
<1>6. CASE Cancel
  <2>1. UNCHANGED <<calling, running, flag, startupDone, initialReady, last, pc, hc, est>>
    BY <1>6 DEF Cancel
  <2>2. CallingOK'
    BY <1>0, <2>1 DEF calling, CallingOK, AtOK, In
  <2>3. PcOK' /\ FieldsOK'
    BY <1>0, <2>1 DEF PcOK, FieldsOK
  <2>4. CallOK(app)' /\ CallOK(proc)'
    BY <1>0, <2>1 DEF CallOK, calling
  <2> QED
    BY <1>0, <2>2, <2>3, <2>4 DEF CallInv
<1> QED
  BY <1>1, <1>2, <1>3, <1>4, <1>5, <1>6

\* Stop, by either of its callers.
LEMMA StopKeepsCalls ==
  ASSUME CallInv, NEW t \in Callers, StopCAS(t) \/ StopReady(t) \/ StopReporters(t)
  PROVE  CallInv'
<1>0. /\ CallingOK /\ PcOK /\ FieldsOK /\ CallOK(app) /\ CallOK(proc)
      /\ app \in Callers /\ proc \in Callers /\ app # proc
      /\ \A u \in Callers : u = app \/ u = proc
  BY TwoCallers DEF CallInv
<1>1. CASE StopCAS(t)
  <2>1. Began(t, StopCall) /\ todo' = todo /\ todo[t] = {}
    BY <1>0, <1>1, NoFan DEF StopCAS, At, Free, calling
  <2>2. PICK l \in {"stopReady", "done"} : pc' = [pc EXCEPT ![t] = l]
    BY <1>1 DEF StopCAS, Moves
  <2>3. /\ \/ t = app /\ pc[app] = "up"
           \/ t = proc /\ pc[proc] = "select"
        /\ running' = FALSE
        /\ UNCHANGED <<flag, startupDone, initialReady, last, hc, est>>
    BY <1>1 DEF StopCAS, At
  <2>4. PcOK'
    BY <1>0, <2>2, <2>3 DEF PcOK, AppLabels, ProcLabels, Stopping
  <2>5. FieldsOK' /\ pc'[t] = l /\ \A u \in Callers \ {t} : pc'[u] = pc[u]
    BY <1>0, <2>2, <2>3 DEF FieldsOK, PcOK
  <2>6. CallOK(t)'
    BY <2>1, <2>3, <2>5 DEF CallOK, Began
  <2>7. ASSUME NEW u \in Callers \ {t} PROVE CallOK(u)'
    BY <1>0, <2>1, <2>3, <2>5, <2>7, OtherCall DEF Began
  <2> QED
    BY <2>1, <2>4, <2>5, <2>6, <2>7 DEF CallInv, Began
<1>2. CASE StopReady(t)
  <2>1. Began(t, SetCall("ready", FALSE)) /\ flag' \in [Probes -> BOOLEAN]
    BY <1>0, <1>2, SetReadyBegins DEF StopReady, At, FieldsOK
  <2>2. pc' = [pc EXCEPT ![t] = "stopReporters"] /\ pc[t] = "stopReady"
        /\ UNCHANGED <<running, startupDone, initialReady, last, hc, est>>
    BY <1>2 DEF StopReady, At, Moves
  <2>3. PcOK'
    BY <1>0, <2>2 DEF PcOK, AppLabels, ProcLabels, Stopping
  <2>4. FieldsOK' /\ pc'[t] = "stopReporters" /\ \A u \in Callers \ {t} : pc'[u] = pc[u]
    BY <1>0, <2>1, <2>2 DEF FieldsOK, PcOK
  <2>5. CallOK(t)'
    BY <2>1, <2>2, <2>4 DEF CallOK, Began
  <2>6. ASSUME NEW u \in Callers \ {t} PROVE CallOK(u)'
    BY <1>0, <2>1, <2>2, <2>4, <2>6, OtherCall DEF Began
  <2> QED
    BY <2>1, <2>3, <2>4, <2>5, <2>6 DEF CallInv, Began
<1>3. CASE StopReporters(t)
  <2>1. Began(t, StopCall)
    BY <1>0, <1>3, FanBegins, CallFields DEF StopReporters, At
  <2>2. pc' = [pc EXCEPT ![t] = "done"] /\ pc[t] = "stopReporters"
        /\ UNCHANGED <<running, flag, startupDone, initialReady, last, hc, est>>
    BY <1>3 DEF StopReporters, At, Moves
  <2>3. PcOK'
    BY <1>0, <2>2 DEF PcOK, AppLabels, ProcLabels, Stopping
  <2>4. FieldsOK' /\ pc'[t] = "done" /\ \A u \in Callers \ {t} : pc'[u] = pc[u]
    BY <1>0, <2>2 DEF FieldsOK, PcOK
  <2>5. CallOK(t)'
    BY <2>1, <2>2, <2>4 DEF CallOK, Began
  <2>6. ASSUME NEW u \in Callers \ {t} PROVE CallOK(u)'
    BY <1>0, <2>1, <2>2, <2>4, <2>6, OtherCall DEF Began
  <2> QED
    BY <2>1, <2>3, <2>4, <2>5, <2>6 DEF CallInv, Began
<1> QED
  BY <1>1, <1>2, <1>3

\* The processor.
LEMMA ProcessorKeepsCalls ==
  ASSUME CallInv,
         \/ \E k \in Checks, st \in Statuses : Receive(k, st)
         \/ Store \/ Fitness \/ InitialReady \/ Liveness \/ Readiness
  PROVE  CallInv'
<1>0. /\ CallingOK /\ PcOK /\ FieldsOK /\ CallOK(app) /\ CallOK(proc)
      /\ app \in Callers /\ proc \in Callers /\ app # proc
      /\ \A u \in Callers : u = app \/ u = proc
  BY TwoCallers DEF CallInv
<1>p. "live" \in Probes /\ "startup" \in Probes
  BY DEF Probes
<1>app. ASSUME NEW c, Began(proc, c), NEW l \in ProcLabels \ ({"off"} \cup Stopping),
               pc' = [pc EXCEPT ![proc] = l], pc[proc] \notin {"off"} \cup Stopping,
               running' = running
        PROVE  PcOK' /\ pc'[proc] = l /\ pc'[app] = pc[app] /\ CallOK(app)'
  <2>1. PcOK' /\ pc'[proc] = l /\ pc'[app] = pc[app]
    BY <1>0, <1>app DEF PcOK, AppLabels, ProcLabels, Stopping
  <2> QED
    BY <1>0, <1>app, <2>1, OtherCall DEF Began
<1>1. ASSUME NEW k \in Checks, NEW st \in Statuses, Receive(k, st) PROVE CallInv'
  <2> DEFINE r == [n |-> last[k].n + 1, status |-> st]
  <2>1. /\ pc[proc] = "select" /\ Free(proc) /\ last[k].n < MaxResults
        /\ running' = running /\ UNCHANGED <<flag, startupDone, initialReady, last, est>>
    BY <1>1 DEF Receive, At
  <2>2. last[k].n \in 0 .. MaxResults /\ MaxResults \in Nat
    BY <1>0, FanoutAssumption DEF FieldsOK, Results
  <2>3. r \in [n : 1 .. MaxResults, status : Statuses] /\ r \in [n : Nat, status : Statuses]
        /\ r.n = last[k].n + 1
    BY <2>1, <2>2
  <2> HIDE DEF r
  <2>4. CASE ctxDone
    <3>1. UNCHANGED <<hc, calling>> /\ pc' = [pc EXCEPT ![proc] = "fitness"]
      BY <1>1, <2>4 DEF Receive, Moves
    <3>2. Began(proc, StopCall) /\ todo' = todo
      BY <1>0, <2>1, <3>1, NoFan DEF calling
    <3>3. PcOK' /\ pc'[proc] = "fitness" /\ CallOK(app)'
      BY <1>app, <2>1, <3>1, <3>2 DEF ProcLabels, Stopping
    <3>4. FieldsOK' /\ CallOK(proc)'
      BY <1>0, <2>1, <3>1, <3>2, <3>3 DEF FieldsOK, CallOK, Free
    <3> QED
      BY <1>0, <3>2, <3>3, <3>4 DEF CallInv, Began
  <2>5. CASE ~ctxDone
    <3>1. /\ hc' = [key |-> k, res |-> r] /\ Fan(proc, UpdateCall(k, r))
          /\ pc' = [pc EXCEPT ![proc] = "store"]
      BY <1>1, <2>5 DEF Receive, Moves, r
    <3>2. Began(proc, UpdateCall(k, r))
      BY <1>0, <2>1, <2>3, <3>1, FanBegins, CallFields
    <3>3. PcOK' /\ pc'[proc] = "store" /\ CallOK(app)'
      BY <1>app, <2>1, <3>1, <3>2 DEF ProcLabels, Stopping
    <3>4. hc'.key = k /\ hc'.res = r
      BY <3>1
    <3>5. FieldsOK'
      BY <1>0, <2>1, <2>3, <3>3, <3>4 DEF FieldsOK
    <3>6. CallOK(proc)'
      BY <3>2, <3>3, <3>4 DEF CallOK, Began
    <3> QED
      BY <1>0, <3>2, <3>3, <3>5, <3>6 DEF CallInv, Began
  <2> QED
    BY <2>4, <2>5
<1>2. CASE Store
  <2>1. /\ pc[proc] = "store" /\ Free(proc) /\ pc' = [pc EXCEPT ![proc] = "fitness"]
        /\ last' = [last EXCEPT ![hc.key] = hc.res]
        /\ UNCHANGED <<calling, running, flag, startupDone, initialReady, est>>
    BY <1>2 DEF Store, At, Moves
  <2>2. Began(proc, StopCall) /\ todo' = todo
    BY <1>0, <2>1, NoFan DEF calling
  <2>3. PcOK' /\ pc'[proc] = "fitness" /\ CallOK(app)'
    BY <1>app, <2>1, <2>2 DEF ProcLabels, Stopping
  <2>4. hc.res \in Results
    BY <1>0, <2>1, FanoutAssumption DEF FieldsOK, Results
  <2>5. FieldsOK' /\ CallOK(proc)'
    BY <1>0, <2>1, <2>2, <2>3, <2>4 DEF FieldsOK, CallOK, Free
  <2> QED
    BY <1>0, <2>2, <2>3, <2>5 DEF CallInv, Began
<1>3. CASE Fitness
  <2>1. pc[proc] = "fitness" /\ Free(proc) /\ UNCHANGED <<running, initialReady, last, hc, est>>
    BY <1>3 DEF Fitness, At
  <2>2. CASE ~running \/ ~AllChecksRan
    <3>1. UNCHANGED <<startupDone, flag, calling>> /\ pc' = [pc EXCEPT ![proc] = "select"]
      BY <1>3, <2>2 DEF Fitness, Moves
    <3>2. Began(proc, StopCall) /\ todo' = todo
      BY <1>0, <2>1, <3>1, NoFan DEF calling
    <3>3. PcOK' /\ pc'[proc] = "select" /\ CallOK(app)'
      BY <1>app, <2>1, <3>1, <3>2 DEF ProcLabels, Stopping
    <3>4. FieldsOK' /\ CallOK(proc)'
      BY <1>0, <2>1, <3>1, <3>2, <3>3 DEF FieldsOK, CallOK, Free
    <3> QED
      BY <1>0, <3>2, <3>3, <3>4 DEF CallInv, Began
  <2>3. CASE ~(~running \/ ~AllChecksRan)
    <3>1. /\ startupDone' = TRUE /\ pc' = [pc EXCEPT ![proc] = "initial"]
          /\ UNCHANGED <<flag, calling>> \/ Swap(proc, "startup", TRUE)
      BY <1>3, <2>3 DEF Fitness, Moves
    <3>2. Began(proc, SetCall("startup", TRUE)) /\ flag' \in [Probes -> BOOLEAN]
      BY <1>0, <1>p, <2>1, <3>1, NoFan, SwapBegins DEF FieldsOK
    <3>3. PcOK' /\ pc'[proc] = "initial" /\ CallOK(app)'
      BY <1>app, <2>1, <3>1, <3>2 DEF ProcLabels, Stopping
    <3>4. FieldsOK'
      BY <1>0, <2>1, <3>1, <3>2, <3>3 DEF FieldsOK
    <3>5. CallOK(proc)'
      BY <3>2, <3>3 DEF CallOK, Began
    <3> QED
      BY <1>0, <3>2, <3>3, <3>4, <3>5 DEF CallInv, Began
  <2> QED
    BY <2>2, <2>3
<1>4. CASE InitialReady
  <2> DEFINE first == Verdict("ready") /\ ~initialReady
  <2>1. /\ pc[proc] = "initial" /\ Free(proc) /\ pc' = [pc EXCEPT ![proc] = "liveness"]
        /\ UNCHANGED <<running, startupDone, last, hc>>
        /\ initialReady' = (initialReady \/ first)
        /\ est' = [live |-> Verdict("live"), ready |-> Verdict("ready") /\ Verdict("live"),
                   shownReady |-> flag["ready"] \/ first]
        /\ IF first THEN SetReady(proc, TRUE) ELSE UNCHANGED <<flag, calling>>
    BY <1>4 DEF InitialReady, At, Moves
  <2>2. first \in BOOLEAN /\ (first => Verdict("ready") /\ Verdict("live"))
    BY Verdicts
  <2>3. flag["ready"] \in BOOLEAN
    BY <1>0 DEF FieldsOK, Probes
  <2> HIDE DEF first
  <2>4. /\ Began(proc, SetCall("ready", TRUE)) /\ flag' \in [Probes -> BOOLEAN]
        /\ first \/ (todo' = todo)
    BY <1>0, <2>1, NoFan, SetReadyBegins DEF FieldsOK, calling
  <2>5. PcOK' /\ pc'[proc] = "liveness" /\ CallOK(app)'
    BY <1>app, <2>1, <2>4 DEF ProcLabels, Stopping
  <2>6. /\ est' \in [live : BOOLEAN, ready : BOOLEAN, shownReady : BOOLEAN]
        /\ est'.ready => est'.live
        /\ first => est'.ready
    BY <2>1, <2>2, <2>3, Verdicts
  <2>7. initialReady' \in BOOLEAN
    BY <2>1
  <2>8. FieldsOK'
    BY <1>0, <2>1, <2>4, <2>5, <2>6, <2>7 DEF FieldsOK
  <2>9. CallOK(proc)'
    BY <2>1, <2>4, <2>5, <2>6 DEF CallOK, Began, Free
  <2> QED
    BY <1>0, <2>4, <2>5, <2>8, <2>9 DEF CallInv, Began
<1>5. CASE Liveness
  <2>1. /\ pc[proc] = "liveness" /\ Free(proc) /\ pc' = [pc EXCEPT ![proc] = "readiness"]
        /\ UNCHANGED <<running, startupDone, initialReady, last, hc, est>>
        /\ Swap(proc, "live", est.live)
    BY <1>5 DEF Liveness, At, Moves
  <2>2. Began(proc, SetCall("live", est.live)) /\ flag' \in [Probes -> BOOLEAN]
    BY <1>0, <1>p, <2>1, SwapBegins DEF FieldsOK
  <2>3. PcOK' /\ pc'[proc] = "readiness" /\ CallOK(app)'
    BY <1>app, <2>1, <2>2 DEF ProcLabels, Stopping
  <2>4. FieldsOK'
    BY <1>0, <2>1, <2>2, <2>3 DEF FieldsOK
  <2>5. CallOK(proc)'
    BY <2>1, <2>2, <2>3 DEF CallOK, Began
  <2> QED
    BY <1>0, <2>2, <2>3, <2>4, <2>5 DEF CallInv, Began
<1>6. CASE Readiness
  <2>1. /\ pc[proc] = "readiness" /\ Free(proc) /\ pc' = [pc EXCEPT ![proc] = "select"]
        /\ UNCHANGED <<running, startupDone, initialReady, last, hc>>
        /\ est' = [est EXCEPT !.shownReady = FALSE]
        /\ SetReady(proc, est.ready) \/ UNCHANGED <<flag, calling>>
    BY <1>6 DEF Readiness, At, Moves
  <2>2. Began(proc, SetCall("ready", est.ready)) /\ flag' \in [Probes -> BOOLEAN]
    BY <1>0, <2>1, NoFan, SetReadyBegins DEF FieldsOK
  <2>3. PcOK' /\ pc'[proc] = "select" /\ CallOK(app)'
    BY <1>app, <2>1, <2>2 DEF ProcLabels, Stopping
  <2>4. /\ est' \in [live : BOOLEAN, ready : BOOLEAN, shownReady : BOOLEAN]
        /\ est'.ready = est.ready /\ est'.live = est.live
    BY <1>0, <2>1 DEF FieldsOK
  <2>5. FieldsOK'
    BY <1>0, <2>1, <2>2, <2>3, <2>4 DEF FieldsOK
  <2>6. CallOK(proc)'
    BY <2>2, <2>3, <2>4 DEF CallOK, Began
  <2> QED
    BY <1>0, <2>2, <2>3, <2>5, <2>6 DEF CallInv, Began
<1> QED
  BY <1>1, <1>2, <1>3, <1>4, <1>5, <1>6

\* Reporters and clients.
LEMMA OthersKeepCalls ==
  ASSUME CallInv, ServerStep \/ (\E t \in Callers : ReporterStep(t)) \/ UNCHANGED vars
  PROVE  CallInv'
<1>0. CallingOK /\ PcOK /\ FieldsOK /\ \A t \in Callers : CallOK(t)
  BY DEF CallInv
<1>1. ASSUME UNCHANGED manager PROVE PcOK' /\ FieldsOK'
  BY <1>0, <1>1 DEF manager, PcOK, FieldsOK
<1>2. ASSUME NEW t \in Callers, ReporterStep(t) PROVE CallInv'
  <2>1. UNCHANGED manager /\ \E r : Moved(t, r)
    BY <1>0, <1>2, ReporterMoves
  <2>2. ASSUME NEW u \in Callers PROVE todo'[u] # {} => todo[u] # {} /\ call'[u] = call[u]
    BY <2>1, <2>2 DEF Moved
  <2>3. ASSUME NEW u \in Callers PROVE CallOK(u)'
    BY <1>0, <2>1, <2>2, <2>3 DEF CallOK, manager
  <2> QED
    BY <1>1, <2>1, <2>3 DEF CallInv, Moved
<1>3. ASSUME UNCHANGED <<calling, manager>> PROVE CallInv'
  <2>1. CallingOK'
    BY <1>0, <1>3 DEF calling, CallingOK, AtOK, In
  <2>2. ASSUME NEW t \in Callers PROVE CallOK(t)'
    <3>1. call' = call /\ todo' = todo /\ pc' = pc /\ hc' = hc /\ est' = est /\ CallOK(t)
      BY <1>0, <1>3 DEF calling, manager
    <3> QED
      BY <3>1 DEF CallOK
  <2> QED
    BY <1>1, <1>3, <2>1, <2>2 DEF CallInv
<1> QED
  BY <1>2, <1>3 DEF ServerStep, vars

\* Every step of the composition.
LEMMA StepCases ==
  ASSUME [Next]_vars
  PROVE  \/ Run \/ RunFails \/ Dispatch \/ InitStartupState \/ RunLive \/ Cancel
         \/ \E t \in Callers : StopCAS(t) \/ StopReady(t) \/ StopReporters(t)
         \/ \E k \in Checks, s \in Statuses : Receive(k, s)
         \/ Store \/ Fitness \/ InitialReady \/ Liveness \/ Readiness
         \/ ServerStep \/ (\E t \in Callers : ReporterStep(t))
         \/ UNCHANGED vars
BY DEF Next, ManagerInput, ManagerStep

\* No step breaks the discipline of the calls.
LEMMA CallStep == CallInv /\ [Next]_vars => CallInv'
<1> SUFFICES ASSUME CallInv, [Next]_vars PROVE CallInv'
  OBVIOUS
<1> QED
  BY StepCases, RunKeepsCalls, StopKeepsCalls, ProcessorKeepsCalls, OthersKeepCalls

\* It holds at the start.
LEMMA CallInit == Init => CallInv
<1> SUFFICES ASSUME Init PROVE CallInv
  OBVIOUS
<1>1. CallingOK
  BY DEF Init, CallsInit, CallingOK, AtOK, NoCall, NoResult, CallType
<1>2. PcOK
  <2>1. pc = [t \in Callers |-> IF t = app THEN "idle" ELSE "off"] /\ running = FALSE
    BY DEF Init
  <2>2. pc[app] = "idle" /\ pc[proc] = "off" /\ \A t \in Callers : pc[t] \in {"idle", "off"}
    BY <2>1, TwoCallers
  <2>3. pc \in [Callers -> AppLabels \cup ProcLabels]
    BY <2>1 DEF AppLabels, ProcLabels
  <2> QED
    BY <2>1, <2>2, <2>3 DEF PcOK, AppLabels, ProcLabels, Stopping
<1>3. FieldsOK
  <2>1. pc[proc] # "store"
    BY TwoCallers DEF Init
  <2>2. flag \in [Probes -> BOOLEAN] /\ startupDone \in BOOLEAN /\ initialReady \in BOOLEAN
    BY DEF Init, AllDown
  <2>3. last \in [Checks -> Results]
    BY FanoutAssumption DEF Init, NoResults, NoResult, Results
  <2>4. est \in [live : BOOLEAN, ready : BOOLEAN, shownReady : BOOLEAN] /\ ~est.ready
    BY DEF Init, NoVerdict
  <2> QED
    BY <2>1, <2>2, <2>3, <2>4 DEF FieldsOK
<1>4. \A t \in Callers : CallOK(t)
  BY DEF Init, CallsInit, CallOK
<1> QED
  BY <1>1, <1>2, <1>3, <1>4 DEF CallInv

\* Fan-outs under way are always those of the callers' labels.
LEMMA CallInvariance == Spec => []CallInv
BY CallInit, CallStep, PTL DEF Spec

\* The announcements under way are of probes.
LEMMA SetFields ==
  ASSUME CallInv, NEW t \in Callers, todo[t] # {}, call[t].op = "Set"
  PROVE  /\ call[t].key \in Probes /\ call[t].on \in BOOLEAN
         /\ call[t].key = "ready" /\ call[t].on => est.live /\ est.ready
<1>1. CallOK(t) /\ est.live \in BOOLEAN /\ est.ready \in BOOLEAN /\ (est.ready => est.live)
  BY DEF CallInv, FieldsOK
<1>2. call[t] # RunCall /\ call[t] # StopCall
  BY CallFields
<1>3. call[t] # UpdateCall(hc.key, hc.res)
  BY DEF UpdateCall, NoCall
<1>4. "live" \in Probes /\ "ready" \in Probes /\ "startup" \in Probes
  BY DEF Probes
<1>5. \E p \in Probes, b \in BOOLEAN :
        call[t] = SetCall(p, b) /\ (p = "ready" /\ b => est.ready)
  BY <1>1, <1>2, <1>3, <1>4 DEF CallOK
<1> QED
  BY <1>1, <1>5, CallFields

shown == <<service, metrics, console, recorder>>

\* A step of the manager leaves the reporters' state alone; it begins no fan-out, or
\* one that announces no probe, or one that announces the probe it just changed.
LEMMA ManagerFans ==
  ASSUME CallInv, ManagerInput \/ \E t \in Callers : ManagerStep(t)
  PROVE  /\ UNCHANGED shown
         /\ \/ UNCHANGED <<calling, flag>>
            \/ \E t \in Callers, c \in CallType :
                 Free(t) /\ c.op # "Set" /\ Fan(t, c) /\ flag' = flag
            \/ \E t \in Callers, p \in Probes, v \in BOOLEAN :
                 /\ Free(t) /\ flag[p] # v
                 /\ flag' = [flag EXCEPT ![p] = v] /\ Fan(t, SetCall(p, v))
<1> DEFINE Changes(t) ==
      \/ UNCHANGED <<calling, flag>>
      \/ \E p \in Probes, v \in BOOLEAN :
           /\ Free(t) /\ flag[p] # v
           /\ flag' = [flag EXCEPT ![p] = v] /\ Fan(t, SetCall(p, v))
<1>0. CallingOK /\ PcOK /\ FieldsOK /\ app \in Callers /\ proc \in Callers
      /\ "live" \in Probes /\ "ready" \in Probes /\ "startup" \in Probes
  BY TwoCallers DEF CallInv, Probes
<1>1. UNCHANGED shown
  BY DEF shown, ManagerInput, ManagerStep
<1>2. ASSUME NEW t \in Callers, NEW p \in Probes, NEW v \in BOOLEAN, Free(t), Swap(t, p, v)
      PROVE  Changes(t)
  <2>1. flag' = [flag EXCEPT ![p] = v] /\ flag \in [Probes -> BOOLEAN]
    BY <1>0, <1>2 DEF Swap, FieldsOK
  <2>2. CASE flag[p] = v
    <3>1. flag' = flag /\ UNCHANGED calling
      BY <1>2, <2>1, <2>2 DEF Swap
    <3> QED
      BY <3>1
  <2>3. CASE flag[p] # v
    BY <1>2, <2>1, <2>3 DEF Swap
  <2> QED
    BY <2>2, <2>3
<1>3. ASSUME NEW t \in Callers, NEW v \in BOOLEAN, Free(t), SetReady(t, v) PROVE Changes(t)
  BY <1>0, <1>2, <1>3 DEF SetReady
<1> HIDE DEF Changes
<1>4. ASSUME NEW t \in Callers, Changes(t) \/ UNCHANGED <<calling, flag>>
             \/ (\E c \in CallType : Free(t) /\ c.op # "Set" /\ Fan(t, c) /\ flag' = flag)
      PROVE  \/ UNCHANGED <<calling, flag>>
             \/ \E u \in Callers, c \in CallType :
                  Free(u) /\ c.op # "Set" /\ Fan(u, c) /\ flag' = flag
             \/ \E u \in Callers, p \in Probes, v \in BOOLEAN :
                  /\ Free(u) /\ flag[p] # v
                  /\ flag' = [flag EXCEPT ![p] = v] /\ Fan(u, SetCall(p, v))
  BY <1>4 DEF Changes
<1>5. CASE RunFails \/ Dispatch \/ Cancel \/ Store \/ \E t \in Callers : StopCAS(t)
  <2>1. UNCHANGED <<calling, flag>>
    BY <1>5 DEF RunFails, Dispatch, Cancel, Store, StopCAS
  <2> QED
    BY <1>0, <1>1, <1>4, <2>1
<1>6. CASE Run
  <2>1. Free(app) /\ Fan(app, RunCall) /\ flag' = flag /\ RunCall \in CallType /\ RunCall.op # "Set"
    BY <1>6, CallFields DEF Run, At
  <2> QED
    BY <1>0, <1>1, <1>4, <2>1
<1>7. CASE \E t \in Callers : StopReporters(t)
  <2>1. PICK t \in Callers : StopReporters(t)
    BY <1>7
  <2>2. Free(t) /\ Fan(t, StopCall) /\ flag' = flag /\ StopCall \in CallType /\ StopCall.op # "Set"
    BY <2>1, CallFields DEF StopReporters, At
  <2> QED
    BY <1>1, <1>4, <2>2
<1>8. CASE \E k \in Checks, st \in Statuses : Receive(k, st)
  <2>1. PICK k \in Checks, st \in Statuses : Receive(k, st)
    BY <1>8
  <2>2. CASE ctxDone
    BY <1>0, <1>1, <1>4, <2>1, <2>2 DEF Receive
  <2>3. CASE ~ctxDone
    <3> DEFINE r == [n |-> last[k].n + 1, status |-> st]
    <3>1. last[k].n \in Nat
      BY <1>0, FanoutAssumption DEF FieldsOK, Results
    <3>2. r \in [n : Nat, status : Statuses]
      BY <3>1
    <3>3. Free(proc) /\ Fan(proc, UpdateCall(k, r)) /\ flag' = flag
      BY <2>1, <2>3 DEF Receive, At
    <3> HIDE DEF r
    <3>4. UpdateCall(k, r) \in CallType /\ UpdateCall(k, r).op # "Set"
      BY <3>2, CallFields
    <3> QED
      BY <1>0, <1>1, <1>4, <3>3, <3>4
  <2> QED
    BY <2>2, <2>3
<1>9. CASE InitStartupState \/ RunLive
  <2>1. Free(app) /\ (Swap(app, "startup", TRUE) \/ Swap(app, "live", TRUE))
    BY <1>9 DEF InitStartupState, RunLive, At
  <2> QED
    BY <1>0, <1>1, <1>2, <1>4, <2>1
<1>10. CASE Fitness \/ InitialReady \/ Liveness \/ Readiness
  <2>1. est.live \in BOOLEAN /\ est.ready \in BOOLEAN
    BY <1>0 DEF FieldsOK
  <2>2. Free(proc)
    BY <1>10 DEF Fitness, InitialReady, Liveness, Readiness, At
  <2>3. \/ UNCHANGED <<calling, flag>> \/ Swap(proc, "startup", TRUE) \/ SetReady(proc, TRUE)
        \/ Swap(proc, "live", est.live) \/ SetReady(proc, est.ready)
    BY <1>10 DEF Fitness, InitialReady, Liveness, Readiness
  <2> QED
    BY <1>0, <1>1, <1>2, <1>3, <1>4, <2>1, <2>2, <2>3
<1>11. CASE \E t \in Callers : StopReady(t)
  <2>1. PICK t \in Callers : StopReady(t)
    BY <1>11
  <2>2. Free(t) /\ SetReady(t, FALSE)
    BY <2>1 DEF StopReady, At
  <2> QED
    BY <1>1, <1>3, <1>4, <2>2
<1> QED
  BY <1>5, <1>6, <1>7, <1>8, <1>9, <1>10, <1>11 DEF ManagerInput, ManagerStep

-----------------------------------------------------------------------------
(* Toggles.                                                                 *)

\* The announcement of p that t still has to make to the tester.
ToTell(t, p) == tester \in todo[t] /\ call[t].op = "Set" /\ call[t].key = p

Up(t, p) == IF ToTell(t, p) /\ call[t].on THEN 1 ELSE 0
Down(t, p) == IF ToTell(t, p) /\ ~call[t].on THEN 1 ELSE 0
Value(p) == IF flag[p] THEN 1 ELSE 0

\* Announcements that the test reporter counted or will count balance the flag.
ToggleInv ==
  /\ ups \in [Probes -> Nat] /\ downs \in [Probes -> Nat] /\ toggles \in [Probes -> Nat]
  /\ \A p \in Probes :
       /\ tester \in reporters =>
            ups[p] + Up(app, p) + Up(proc, p) = downs[p] + Down(app, p) + Down(proc, p) + Value(p)
       /\ toggles[p] = ups[p] + downs[p]

\* The same, from the point of view of one caller.
LEMMA ToggleParts ==
  ASSUME NEW t \in Callers, NEW w \in Callers, t # w, NEW p \in Probes
  PROVE  /\ Up(t, p) \in Nat /\ Down(t, p) \in Nat /\ Value(p) \in Nat
         /\ \A u, d \in Nat :
              u + Up(app, p) + Up(proc, p) = d + Down(app, p) + Down(proc, p) + Value(p)
                <=> u + Up(t, p) + Up(w, p) = d + Down(t, p) + Down(w, p) + Value(p)
<1>1. \A v \in Callers : Up(v, p) \in Nat /\ Down(v, p) \in Nat
  BY DEF Up, Down
<1>2. Value(p) \in Nat
  BY DEF Value
<1>3. (t = app /\ w = proc) \/ (t = proc /\ w = app)
  BY TwoCallers
<1> QED
  BY <1>1, <1>2, <1>3

\* A step in another reporter leaves what the tester has to be told.
LEMMA PendingKept ==
  ASSUME NEW t \in Callers, NEW r, Moved(t, r), r # tester
  PROVE  \A u \in Callers, p \in Probes : Up(u, p)' = Up(u, p) /\ Down(u, p)' = Down(u, p)
<1> TAKE u \in Callers, p \in Probes
<1>1. CASE u # t
  BY <1>1 DEF Moved, ToTell, Up, Down
<1>2. CASE u = t /\ call' = call /\ todo'[t] \in {todo[t], todo[t] \ {r}}
  BY <1>2 DEF ToTell, Up, Down
<1>3. CASE u = t /\ call[t].op = "Run" /\ todo'[t] = {}
  BY <1>3 DEF ToTell, Up, Down
<1> QED
  BY <1>1, <1>2, <1>3 DEF Moved

\* A fan-out begins.
LEMMA FanPending ==
  ASSUME CallingOK, NEW t \in Callers, NEW c \in CallType, Free(t), Fan(t, c)
  PROVE  /\ \A u \in Callers \ {t}, p \in Probes : Up(u, p)' = Up(u, p) /\ Down(u, p)' = Down(u, p)
         /\ \A p \in Probes : Up(t, p) = 0 /\ Down(t, p) = 0
         /\ \A p \in Probes :
              c.op # "Set" \/ c.key # p => Up(t, p)' = 0 /\ Down(t, p)' = 0
         /\ \A p \in Probes : tester \in reporters /\ c.op = "Set" /\ c.key = p =>
              Up(t, p)' = (IF c.on THEN 1 ELSE 0) /\ Down(t, p)' = (IF c.on THEN 0 ELSE 1)
<1>1. Began(t, c) /\ todo'[t] = reporters /\ call'[t] = c
  BY FanBegins
<1>2. \A u \in Callers \ {t}, p \in Probes : Up(u, p)' = Up(u, p) /\ Down(u, p)' = Down(u, p)
  BY <1>1 DEF ToTell, Up, Down, Began
<1>3. \A p \in Probes : Up(t, p) = 0 /\ Down(t, p) = 0
  BY DEF ToTell, Up, Down, Free
<1> QED
  BY <1>1, <1>2, <1>3 DEF ToTell, Up, Down

\* Every announcement is counted once.
LEMMA ToggleStep == CallInv /\ ToggleInv /\ [Next]_vars => ToggleInv'
<1> SUFFICES ASSUME CallInv, ToggleInv, [Next]_vars PROVE ToggleInv'
  OBVIOUS
<1>0. CallingOK /\ FieldsOK
  BY DEF CallInv
<1>1. ASSUME NEW p \in Probes
      PROVE  /\ ups[p] \in Nat /\ downs[p] \in Nat /\ toggles[p] \in Nat /\ flag[p] \in BOOLEAN
             /\ toggles[p] = ups[p] + downs[p]
             /\ tester \in reporters =>
                  \A t, w \in Callers : t # w =>
                    ups[p] + Up(t, p) + Up(w, p) = downs[p] + Down(t, p) + Down(w, p) + Value(p)
  <2>1. ups[p] \in Nat /\ downs[p] \in Nat /\ toggles[p] \in Nat /\ flag[p] \in BOOLEAN
        /\ toggles[p] = ups[p] + downs[p]
    BY <1>0, <1>1 DEF ToggleInv, FieldsOK
  <2>2. ASSUME tester \in reporters, NEW t \in Callers, NEW w \in Callers, t # w
        PROVE  ups[p] + Up(t, p) + Up(w, p) = downs[p] + Down(t, p) + Down(w, p) + Value(p)
    BY <1>1, <2>1, <2>2, ToggleParts DEF ToggleInv
  <2> QED
    BY <2>1, <2>2
<1>s. ASSUME NEW t \in Callers, NEW w \in Callers, t # w, NEW p \in Probes,
             (ups[p] \in Nat /\ downs[p] \in Nat)',
             (ups[p] + Up(t, p) + Up(w, p) = downs[p] + Down(t, p) + Down(w, p) + Value(p))'
      PROVE  (ups[p] + Up(app, p) + Up(proc, p)
                = downs[p] + Down(app, p) + Down(proc, p) + Value(p))'
  <2>1. /\ (Up(t, p) \in Nat)' /\ (Up(w, p) \in Nat)' /\ (Down(t, p) \in Nat)'
        /\ (Down(w, p) \in Nat)' /\ (Value(p) \in Nat)'
    BY DEF Up, Down, Value
  <2>2. (t = app /\ w = proc) \/ (t = proc /\ w = app)
    BY <1>s, TwoCallers
  <2> QED
    BY <1>s, <2>1, <2>2
<1>2. ASSUME UNCHANGED <<ups, downs, toggles, flag, reporters>>,
             \A u \in Callers, p \in Probes : Up(u, p)' = Up(u, p) /\ Down(u, p)' = Down(u, p)
      PROVE  ToggleInv'
  BY <1>2, TwoCallers DEF ToggleInv, Value
<1>3. ASSUME UNCHANGED <<calling, recorder, flag>> PROVE ToggleInv'
  <2>1. UNCHANGED <<ups, downs, toggles, flag, reporters, todo, call>>
    BY <1>3 DEF calling, recorder
  <2> QED
    BY <1>2, <2>1 DEF Up, Down, ToTell
<1>4. CASE ManagerInput \/ \E t \in Callers : ManagerStep(t)
  <2>1. UNCHANGED <<ups, downs, toggles, recorder>>
    BY <1>4, ManagerFans DEF shown, recorder
  <2>2. CASE UNCHANGED <<calling, flag>>
    BY <1>3, <2>1, <2>2
  <2>3. ASSUME NEW t \in Callers, NEW c \in CallType, Free(t), c.op # "Set", Fan(t, c), flag' = flag
        PROVE  ToggleInv'
    <3>1. reporters' = reporters
      BY <2>3 DEF Fan
    <3>2. \A u \in Callers, p \in Probes : Up(u, p)' = Up(u, p) /\ Down(u, p)' = Down(u, p)
      BY <1>0, <2>3, FanPending
    <3> QED
      BY <1>2, <2>1, <2>3, <3>1, <3>2
  <2>4. ASSUME NEW t \in Callers, NEW q \in Probes, NEW v \in BOOLEAN, Free(t), flag[q] # v,
               flag' = [flag EXCEPT ![q] = v], Fan(t, SetCall(q, v))
        PROVE  ToggleInv'
    <3>1. reporters' = reporters
      BY <2>4 DEF Fan
    <3>2. PICK w \in Callers : t # w
      BY TwoCallers
    <3>3. /\ SetCall(q, v) \in CallType /\ SetCall(q, v).op = "Set"
          /\ SetCall(q, v).key = q /\ SetCall(q, v).on = v
      BY CallFields
    <3>4. ASSUME NEW p \in Probes, tester \in reporters
          PROVE  /\ Up(w, p)' = Up(w, p) /\ Down(w, p)' = Down(w, p)
                 /\ Up(t, p) = 0 /\ Down(t, p) = 0
                 /\ p # q => Up(t, p)' = 0 /\ Down(t, p)' = 0 /\ Value(p)' = Value(p)
                 /\ p = q /\ v => Up(t, p)' = 1 /\ Down(t, p)' = 0 /\ Value(p)' = 1 /\ Value(p) = 0
                 /\ p = q /\ ~v => Up(t, p)' = 0 /\ Down(t, p)' = 1 /\ Value(p)' = 0 /\ Value(p) = 1
      <4>1. /\ Up(w, p)' = Up(w, p) /\ Down(w, p)' = Down(w, p)
            /\ Up(t, p) = 0 /\ Down(t, p) = 0
            /\ p # q => Up(t, p)' = 0 /\ Down(t, p)' = 0
            /\ p = q => Up(t, p)' = (IF v THEN 1 ELSE 0) /\ Down(t, p)' = (IF v THEN 0 ELSE 1)
        BY <1>0, <2>4, <3>2, <3>3, <3>4, FanPending
      <4>2. /\ p # q => flag'[p] = flag[p]
            /\ p = q => flag'[p] = v /\ flag[p] = ~v
        BY <1>0, <2>4, <3>4 DEF FieldsOK
      <4>3. /\ p # q => Value(p)' = Value(p)
            /\ p = q /\ v => Value(p)' = 1 /\ Value(p) = 0
            /\ p = q /\ ~v => Value(p)' = 0 /\ Value(p) = 1
        BY <4>2 DEF Value
      <4> QED
        BY <4>1, <4>3
    <3>5. ASSUME NEW p \in Probes, tester \in reporters
          PROVE  ups[p] + Up(t, p)' + Up(w, p)' = downs[p] + Down(t, p)' + Down(w, p)' + Value(p)'
      <4>1. /\ ups[p] + Up(t, p) + Up(w, p) = downs[p] + Down(t, p) + Down(w, p) + Value(p)
            /\ ups[p] \in Nat /\ downs[p] \in Nat
        BY <1>1, <3>2, <3>5
      <4>2. Up(w, p) \in Nat /\ Down(w, p) \in Nat /\ Value(p) \in Nat
        BY <3>2, <3>5, ToggleParts
      <4> QED
        BY <3>4, <3>5, <4>1, <4>2
    <3>6. ASSUME NEW p \in Probes, tester \in reporters
          PROVE  (ups[p] + Up(app, p) + Up(proc, p)
                    = downs[p] + Down(app, p) + Down(proc, p) + Value(p))'
      <4>1. (ups[p] \in Nat /\ downs[p] \in Nat)'
        BY <1>1, <2>1, <3>6
      <4> QED
        BY <1>s, <2>1, <3>2, <3>5, <3>6, <4>1
    <3> QED
      BY <2>1, <3>1, <3>6 DEF ToggleInv
  <2> QED
    BY <1>4, <2>2, <2>3, <2>4, ManagerFans
<1>5. CASE ServerStep \/ UNCHANGED vars
  <2>1. UNCHANGED <<calling, recorder, flag>>
    BY <1>5 DEF ServerStep, vars, manager
  <2> QED
    BY <1>3, <2>1
<1>6. ASSUME NEW t \in Callers, ReporterStep(t) PROVE ToggleInv'
  <2>1. flag' = flag
    BY <1>6 DEF ReporterStep, manager
  <2>2. ASSUME NEW r, Moved(t, r), r # tester, UNCHANGED recorder PROVE ToggleInv'
    <3>1. UNCHANGED <<ups, downs, toggles, reporters>>
      BY <2>2 DEF recorder, Moved
    <3> QED
      BY <1>2, <2>1, <2>2, <3>1, PendingKept
  <2>3. CASE GRPCStep(t) /\ UNCHANGED <<metrics, console, recorder>>
    BY <1>0, <2>2, <2>3, GRPCMoves, Names
  <2>4. CASE MetricsStep(t) /\ UNCHANGED <<service, console, recorder>>
    BY <1>0, <2>2, <2>4, MetricsMoves, Names DEF MetricsStep
  <2>5. CASE StdoutStep(t) /\ UNCHANGED <<service, metrics, recorder>>
    BY <1>0, <2>2, <2>5, StdoutMoves, Names
  <2>6. CASE TestRunStop(t) \/ TestUpdate(t)
    <3>1. /\ call' = call /\ reporters' = reporters /\ call[t].op # "Set"
          /\ todo' = [todo EXCEPT ![t] = todo[t] \ {tester}]
          /\ UNCHANGED <<ups, downs, toggles>>
      BY <2>6 DEF TestRunStop, TestUpdate, Starts, Returns
    <3>2. todo'[t] = todo[t] \ {tester} /\ \A u \in Callers \ {t} : todo'[u] = todo[u]
      BY <1>0, <3>1 DEF CallingOK
    <3>3. \A u \in Callers, p \in Probes : Up(u, p)' = Up(u, p) /\ Down(u, p)' = Down(u, p)
      BY <3>1, <3>2 DEF Up, Down, ToTell
    <3> QED
      BY <1>2, <2>1, <3>1, <3>3
  <2>7. CASE TestStore(t)
    <3>1. UNCHANGED <<ups, downs, toggles, reporters, todo, call>>
      BY <2>7 DEF TestStore, Goto
    <3> QED
      BY <1>2, <2>1, <3>1 DEF Up, Down, ToTell
  <2>8. CASE TestCount(t)
    <3> DEFINE q == call[t].key  on == call[t].on
    <3>0. In(t, tester, "boop") /\ Returns(t, tester)
      BY <2>8 DEF TestCount
    <3>1. tester \in todo[t] /\ call[t].op = "Set" /\ todo[t] # {}
      BY <1>0, <3>0, InWithin, Names DEF Within
    <3>2. q \in Probes /\ on \in BOOLEAN
      BY <3>1, SetFields
    <3> HIDE DEF q, on
    <3>3. /\ ups' = [ups EXCEPT ![q] = ups[q] + (IF on THEN 1 ELSE 0)]
          /\ downs' = [downs EXCEPT ![q] = downs[q] + (IF on THEN 0 ELSE 1)]
          /\ toggles' = [toggles EXCEPT ![q] = toggles[q] + 1]
      BY <2>8 DEF TestCount, Boop, q, on
    <3>4. /\ call' = call /\ reporters' = reporters
          /\ todo'[t] = todo[t] \ {tester} /\ \A u \in Callers \ {t} : todo'[u] = todo[u]
      BY <1>0, <3>0 DEF Returns, CallingOK
    <3>5. PICK w \in Callers : t # w
      BY TwoCallers
    <3>6. ASSUME NEW p \in Probes
          PROVE  /\ Up(w, p)' = Up(w, p) /\ Down(w, p)' = Down(w, p)
                 /\ Up(t, p)' = 0 /\ Down(t, p)' = 0 /\ Value(p)' = Value(p)
                 /\ p # q => Up(t, p) = 0 /\ Down(t, p) = 0
                 /\ p = q /\ on => Up(t, p) = 1 /\ Down(t, p) = 0
                 /\ p = q /\ ~on => Up(t, p) = 0 /\ Down(t, p) = 1
      BY <2>1, <3>1, <3>4, <3>5, <3>6 DEF Up, Down, ToTell, Value, q, on
    <3>7. /\ ups' \in [Probes -> Nat] /\ downs' \in [Probes -> Nat] /\ toggles' \in [Probes -> Nat]
      BY <1>1, <3>2, <3>3 DEF ToggleInv
    <3>8. ASSUME NEW p \in Probes
          PROVE  /\ p # q => ups'[p] = ups[p] /\ downs'[p] = downs[p] /\ toggles'[p] = toggles[p]
                 /\ p = q /\ on => ups'[p] = ups[p] + 1 /\ downs'[p] = downs[p]
                 /\ p = q /\ ~on => ups'[p] = ups[p] /\ downs'[p] = downs[p] + 1
                 /\ p = q => toggles'[p] = toggles[p] + 1
      <4>1. ups \in [Probes -> Nat] /\ downs \in [Probes -> Nat] /\ toggles \in [Probes -> Nat]
        BY DEF ToggleInv
      <4>2. ups[p] \in Nat /\ downs[p] \in Nat
        BY <1>1, <3>8
      <4> QED
        BY <3>2, <3>3, <3>8, <4>1, <4>2
    <3>9. ASSUME NEW p \in Probes PROVE toggles'[p] = ups'[p] + downs'[p]
      <4>1. ups[p] \in Nat /\ downs[p] \in Nat /\ toggles[p] = ups[p] + downs[p]
        BY <1>1, <3>9
      <4> QED
        BY <3>2, <3>8, <3>9, <4>1
    <3>10. ASSUME NEW p \in Probes, tester \in reporters
           PROVE  (ups[p] + Up(app, p) + Up(proc, p)
                     = downs[p] + Down(app, p) + Down(proc, p) + Value(p))'
      <4>1. /\ ups[p] + Up(t, p) + Up(w, p) = downs[p] + Down(t, p) + Down(w, p) + Value(p)
            /\ ups[p] \in Nat /\ downs[p] \in Nat
        BY <1>1, <3>5, <3>10
      <4>2. Up(w, p) \in Nat /\ Down(w, p) \in Nat /\ Value(p) \in Nat
        BY <3>5, <3>10, ToggleParts
      <4>3. ups'[p] + Up(t, p)' + Up(w, p)' = downs'[p] + Down(t, p)' + Down(w, p)' + Value(p)'
        BY <3>2, <3>6, <3>8, <3>10, <4>1, <4>2
      <4>4. (ups[p] \in Nat /\ downs[p] \in Nat)'
        BY <3>7, <3>10
      <4> QED
        BY <1>s, <3>5, <3>10, <4>3, <4>4
    <3> QED
      BY <3>4, <3>7, <3>9, <3>10 DEF ToggleInv
  <2> QED
    BY <1>6, <2>3, <2>4, <2>5, <2>6, <2>7, <2>8 DEF ReporterStep, TestStep
<1> QED
  BY <1>4, <1>5, <1>6 DEF Next

\* At the start nothing was announced.
LEMMA ToggleInit == Init => ToggleInv
<1> SUFFICES ASSUME Init PROVE ToggleInv
  OBVIOUS
<1>1. /\ ups = [p \in Probes |-> 0] /\ downs = ups /\ toggles = ups
      /\ \A t \in Callers : todo[t] = {}
      /\ \A p \in Probes : flag[p] = FALSE
  BY DEF Init, TestInit, CallsInit, AllDown
<1>2. \A p \in Probes : /\ Up(app, p) = 0 /\ Up(proc, p) = 0 /\ Down(app, p) = 0 /\ Down(proc, p) = 0
                        /\ Value(p) = 0
  BY <1>1, TwoCallers DEF Up, Down, ToTell, Value
<1> QED
  BY <1>1, <1>2 DEF ToggleInv

\* Whatever announcements of the two goroutines overlap, the test reporter's counters
\* balance: between calls it was told up once more than down exactly if the probe is up.
THEOREM TogglesAreBalanced == Spec => []TogglesBalance
<1>1. ToggleInv => TogglesBalance
  <2> SUFFICES ASSUME ToggleInv, Quiet, tester \in reporters, NEW p \in Probes
               PROVE  /\ ups[p] = downs[p] + (IF flag[p] THEN 1 ELSE 0)
                      /\ toggles[p] = ups[p] + downs[p]
    BY DEF TogglesBalance
  <2>1. Up(app, p) = 0 /\ Up(proc, p) = 0 /\ Down(app, p) = 0 /\ Down(proc, p) = 0
    BY TwoCallers DEF Quiet, Free, Up, Down, ToTell
  <2>2. ups[p] \in Nat /\ downs[p] \in Nat /\ Value(p) \in Nat
    BY DEF ToggleInv, Value
  <2>3. ups[p] + Up(app, p) + Up(proc, p) = downs[p] + Down(app, p) + Down(proc, p) + Value(p)
        /\ toggles[p] = ups[p] + downs[p]
    BY DEF ToggleInv
  <2> QED
    BY <2>1, <2>2, <2>3 DEF Value
<1> QED
  BY <1>1, ToggleInit, ToggleStep, CallInvariance, PTL DEF Spec

-----------------------------------------------------------------------------
(* The gRPC reporter.                                                       *)

\* A caller that is in Run of the gRPC reporter stays there unless it moves itself,
\* and only to return with or without a listener.
LEMMA ListenKept ==
  ASSUME CallInv, [Next]_vars, NEW u \in Callers, In(u, grpc, "listen")
  PROVE  In(u, grpc, "listen")' \/ GRPCListen(u) \/ GRPCListenFails(u)
<1>0. CallingOK /\ at[u] = <<grpc, "listen">> /\ at[u] # Nowhere
  BY DEF CallInv, In, Nowhere
<1>1. CASE ManagerInput \/ \E t \in Callers : ManagerStep(t)
  <2>1. at' = at
    BY <1>1, ManagerFans DEF calling, Fan
  <2> QED
    BY <2>1 DEF In
<1>2. CASE ServerStep \/ UNCHANGED vars
  BY <1>2 DEF ServerStep, vars, calling, In
<1>3. ASSUME NEW t \in Callers, ReporterStep(t), t # u PROVE In(u, grpc, "listen")'
  <2>1. PICK r : Moved(t, r)
    BY <1>0, <1>3, ReporterMoves
  <2> QED
    BY <1>3, <2>1 DEF Moved, In
<1>4. CASE ReporterStep(u)
  <2>1. GRPCStep(u) => GRPCListen(u) \/ GRPCListenFails(u)
    BY <1>0 DEF GRPCStep, GRPCRun, GRPCStop, GracefulStop, Drained, GRPCSet, GRPCUpdate, Starts, In
  <2>2. ~MetricsStep(u)
    BY <1>0 DEF MetricsStep, MetricsRun, MetricsStop, MetricsStore, MetricsGauge, MetricsUpdate,
                MetricsRecord, Starts, In
  <2>3. ~StdoutStep(u) /\ ~TestStep(u)
    BY <1>0 DEF StdoutStep, StdoutRunStop, StdoutSet, StdoutUpdate,
                TestStep, TestRunStop, TestStore, TestCount, TestUpdate, Starts, In
  <2> QED
    BY <1>4, <2>1, <2>2, <2>3 DEF ReporterStep
<1> QED
  BY <1>1, <1>2, <1>3, <1>4 DEF Next

\* The gRPC reporter is running only with a goroutine that serves, or while a Run is
\* about to listen: no Run that failed to listen makes a later one be refused.
THEOREM RefusalsAreJustified == Spec => []RefusesOnlyIfStarted
<1>1. Init => RefusesOnlyIfStarted
  BY DEF Init, GRPCInit, RefusesOnlyIfStarted
<1>2. CallInv /\ RefusesOnlyIfStarted /\ [Next]_vars => RefusesOnlyIfStarted'
  <2> SUFFICES ASSUME CallInv, RefusesOnlyIfStarted, [Next]_vars, gRunning'
               PROVE  gServe' # "off" \/ \E t \in Callers : In(t, grpc, "listen")'
    BY DEF RefusesOnlyIfStarted
  <2>0. CallingOK
    BY DEF CallInv
  <2>1. ASSUME NEW t \in Callers, GRPCListenFails(t) PROVE FALSE
    BY <2>1 DEF GRPCListenFails
  <2>2. ASSUME NEW t \in Callers, GRPCListen(t) PROVE gServe' # "off"
    BY <2>2 DEF GRPCListen
  <2>3. ASSUME NEW t \in Callers, GRPCRun(t), ~gRunning PROVE In(t, grpc, "listen")'
    BY <2>0, <2>3 DEF GRPCRun, Goto, In, CallingOK
  <2>4. gServe # "off" => gServe' # "off"
    <3>1. CASE ManagerInput \/ (\E t \in Callers : ManagerStep(t)) \/ UNCHANGED vars
      BY <3>1 DEF ManagerInput, ManagerStep, vars, service, server
    <3>2. CASE ServerStep
      BY <3>2 DEF ServerStep, ServeStarts, GRPCEnvironment, ServeFails, Ask, Handler, LoadLive,
                  LoadReady, Lookup, List, Send, server
    <3>3. CASE \E t \in Callers : ReporterStep(t)
      BY <3>3 DEF ReporterStep, GRPCStep, GRPCRun, GRPCListen, GRPCListenFails, GRPCStop,
                  GracefulStop, Drained, GRPCSet, GRPCUpdate, service, server
    <3> QED
      BY <3>1, <3>2, <3>3 DEF Next
  <2>5. gRunning \/ \E t \in Callers : GRPCRun(t) /\ ~gRunning
    <3>1. CASE ManagerInput \/ (\E t \in Callers : ManagerStep(t)) \/ UNCHANGED vars
      BY <3>1 DEF ManagerInput, ManagerStep, vars, service, fields
    <3>2. CASE ServerStep
      BY <3>2 DEF ServerStep, ServeStarts, GRPCEnvironment, ServeFails, Ask, Handler, LoadLive,
                  LoadReady, Lookup, List, Send, fields
    <3>3. CASE \E t \in Callers : ReporterStep(t)
      BY <3>3 DEF ReporterStep, GRPCStep, GRPCListen, GRPCListenFails, GRPCStop,
                  GracefulStop, Drained, GRPCSet, GRPCUpdate, service, fields
    <3> QED
      BY <3>1, <3>2, <3>3 DEF Next
  <2> QED
    BY <2>1, <2>2, <2>3, <2>4, <2>5, ListenKept DEF RefusesOnlyIfStarted
<1> QED
  BY <1>1, <1>2, CallInvariance, PTL DEF Spec

RpcType == [pc : {"idle", "live", "ready", "lookup", "list", "send"},
            method : {"none", "Check", "Watch", "List"}, svc : Services \cup {"none"},
            ans : [Services -> Answers]]

\* A call of the health service; what it was told is justified, and a client that
\* loaded live and would now find ready is.
RpcOK ==
  /\ rpc \in [Clients -> RpcType]
  /\ \A c \in Clients :
       /\ rpc[c].pc \in {"live", "ready"} => rpc[c].svc = Overall
       /\ rpc[c].pc = "lookup" => rpc[c].svc \in Checks /\ rpc[c].svc # Overall
       /\ rpc[c].pc = "send" /\ rpc[c].ans[Overall] = "SERVING" => rpc[c].svc = Overall

ServeInv ==
  \A c \in Clients :
    /\ rpc[c].pc = "ready" /\ gProbe["ready"] => c \in justified
    /\ rpc[c].pc = "send" /\ rpc[c].ans[Overall] = "SERVING" => c \in justified

\* What a handler answers.
LEMMA AnswerFacts ==
  /\ "none" \in Answers /\ NoAnswer \in [Services -> Answers] /\ NoAnswer[Overall] = "none"
  /\ \A s \in Services, a \in Answers :
       /\ Only(s, a) \in [Services -> Answers]
       /\ s = Overall => Only(s, a)[Overall] = a
       /\ s # Overall => Only(s, a)[Overall] = "none"
  /\ \A b : Serving(b) \in {"SERVING", "NOT_SERVING"} /\ (Serving(b) = "SERVING" <=> b)
  /\ \A k : Named(k) \in Answers
  /\ {"SERVING", "NOT_SERVING"} \subseteq Answers
<1>0. Overall \in Services /\ "none" \in Answers /\ {"SERVING", "NOT_SERVING"} \subseteq Answers
  BY DEF Services, Answers
<1>1. NoAnswer \in [Services -> Answers] /\ NoAnswer[Overall] = "none"
  BY <1>0 DEF NoAnswer
<1>2. \A s \in Services, a \in Answers :
       /\ Only(s, a) \in [Services -> Answers]
       /\ s = Overall => Only(s, a)[Overall] = a
       /\ s # Overall => Only(s, a)[Overall] = "none"
  BY <1>0, <1>1 DEF Only
<1>3. \A b : Serving(b) \in {"SERVING", "NOT_SERVING"} /\ (Serving(b) = "SERVING" <=> b)
  BY DEF Serving
<1>4. \A k : Named(k) \in Answers
  BY <1>3 DEF Named, Answers
<1> QED
  BY <1>0, <1>1, <1>2, <1>3, <1>4

\* Handlers keep to the calls they have.
LEMMA RpcStep == RpcOK /\ [Next]_vars => RpcOK'
<1> SUFFICES ASSUME RpcOK, [Next]_vars PROVE RpcOK'
  OBVIOUS
<1>1. ASSUME rpc' = rpc PROVE RpcOK'
  BY <1>1 DEF RpcOK
<1>2. ASSUME NEW c \in Clients, NEW x \in RpcType, rpc' = [rpc EXCEPT ![c] = x],
             x.pc \in {"live", "ready"} => x.svc = Overall,
             x.pc = "lookup" => x.svc \in Checks /\ x.svc # Overall,
             x.pc = "send" /\ x.ans[Overall] = "SERVING" => x.svc = Overall
      PROVE  RpcOK'
  BY <1>2 DEF RpcOK
<1>3. ASSUME NEW c \in Clients, NEW f \in [Services -> Answers], Answer(c, f),
             f[Overall] = "SERVING" => rpc[c].svc = Overall
      PROVE  RpcOK'
  <2> DEFINE x == [rpc[c] EXCEPT !.pc = "send", !.ans = f]
  <2>1. rpc' = [rpc EXCEPT ![c] = x] /\ rpc[c] \in RpcType
    BY <1>3 DEF Answer, RpcOK
  <2>2. x \in RpcType /\ x.pc = "send" /\ x.ans = f /\ x.svc = rpc[c].svc
    BY <2>1 DEF RpcType
  <2> QED
    BY <1>2, <1>3, <2>1, <2>2
<1>4. ASSUME NEW c \in Clients, NEW m, NEW s, <<m, s>> \in Requests, Ask(c, m, s) PROVE RpcOK'
  <2> DEFINE l == IF m = "List" THEN "list" ELSE IF s = Overall THEN "live" ELSE "lookup"
             x == [Idle EXCEPT !.method = m, !.svc = s, !.pc = l]
  <2>1. rpc' = [rpc EXCEPT ![c] = x]
    BY <1>4 DEF Ask
  <2>2. (m \in {"Check", "Watch"} /\ s \in Services) \/ (m = "List" /\ s = "none")
    BY <1>4, RequestsAssumption
  <2>3. Idle \in RpcType
    BY AnswerFacts DEF Idle, RpcType
  <2>4. x \in RpcType /\ x.pc = l /\ x.svc = s
    <3>1. l \in {"list", "live", "lookup"} /\ m \in {"Check", "Watch", "List"}
          /\ s \in Services \cup {"none"}
      BY <2>2
    <3> HIDE DEF l
    <3> QED
      BY <2>3, <3>1 DEF RpcType
  <2>5. /\ l \in {"live", "ready"} => s = Overall
        /\ l = "lookup" => s \in Checks /\ s # Overall
        /\ l # "send"
    BY <2>2 DEF Services
  <2> HIDE DEF x, l
  <2> QED
    BY <1>2, <2>1, <2>4, <2>5
<1>5. ASSUME NEW c \in Clients, Handler(c) PROVE RpcOK'
  <2>0. Overall \in Services /\ rpc[c] \in RpcType
    BY DEF Services, RpcOK
  <2>1. CASE LoadLive(c)
    <3>1. CASE gProbe["live"]
      <4> DEFINE x == [rpc[c] EXCEPT !.pc = "ready"]
      <4>1. rpc' = [rpc EXCEPT ![c] = x] /\ rpc[c].svc = Overall
        BY <2>1, <3>1 DEF LoadLive, RpcOK
      <4>2. x \in RpcType /\ x.pc = "ready" /\ x.svc = rpc[c].svc
        BY <2>0 DEF RpcType
      <4> QED
        BY <1>2, <4>1, <4>2
    <3>2. CASE ~gProbe["live"]
      <4>1. Answer(c, Only(Overall, "NOT_SERVING")) /\ rpc[c].svc = Overall
        BY <2>1, <3>2 DEF LoadLive, RpcOK
      <4> QED
        BY <1>3, <2>0, <4>1, AnswerFacts
    <3> QED
      BY <3>1, <3>2
  <2>2. CASE LoadReady(c)
    <3>1. Answer(c, Only(Overall, Serving(ReadyLoaded))) /\ rpc[c].svc = Overall
      BY <2>2 DEF LoadReady, RpcOK
    <3>2. Serving(ReadyLoaded) \in Answers
      BY AnswerFacts
    <3>3. Only(Overall, Serving(ReadyLoaded)) \in [Services -> Answers]
      BY <2>0, <3>2, AnswerFacts
    <3> QED
      BY <1>3, <3>1, <3>3
  <2>3. CASE Lookup(c)
    <3> DEFINE s == rpc[c].svc
    <3>1. Answer(c, Only(s, Named(s))) /\ s \in Services /\ s # Overall
      BY <2>3 DEF Lookup, RpcOK, Services
    <3>2. Named(s) \in Answers
      BY AnswerFacts
    <3>3. Only(s, Named(s)) \in [Services -> Answers] /\ Only(s, Named(s))[Overall] = "none"
      BY <3>1, <3>2, AnswerFacts
    <3> QED
      BY <1>3, <3>1, <3>3
  <2>4. CASE List(c)
    <3> DEFINE f == [s \in Services |-> IF s = Overall \/ gHcs[s] = NoResult THEN "none" ELSE Named(s)]
    <3>1. Answer(c, f)
      BY <2>4 DEF List
    <3>2. f \in [Services -> Answers] /\ f[Overall] = "none"
      BY <2>0, AnswerFacts
    <3> HIDE DEF f
    <3> QED
      BY <1>3, <3>1, <3>2
  <2>5. CASE Send(c)
    <3>1. rpc' = [rpc EXCEPT ![c] = Idle] /\ Idle \in RpcType /\ Idle.pc = "idle"
      BY <2>5, AnswerFacts DEF Send, Idle, RpcType
    <3> QED
      BY <1>2, <3>1
  <2> QED
    BY <1>5, <2>1, <2>2, <2>3, <2>4, <2>5 DEF Handler
<1>6. CASE ManagerInput \/ (\E t \in Callers : ManagerStep(t)) \/ UNCHANGED vars
  <2>1. rpc' = rpc
    BY <1>6 DEF ManagerInput, ManagerStep, vars, service
  <2> QED
    BY <1>1, <2>1
<1>7. CASE ServerStep
  <2>1. CASE ServeStarts \/ ServeFails
    BY <1>1, <2>1 DEF ServeStarts, ServeFails
  <2>2. CASE \E c \in Clients, q \in Requests : Ask(c, q[1], q[2])
    <3>1. PICK c \in Clients, q \in Requests : Ask(c, q[1], q[2])
      BY <2>2
    <3>2. q = <<q[1], q[2]>>
      BY RequestsAssumption
    <3> QED
      BY <1>4, <3>1, <3>2
  <2> QED
    BY <1>5, <1>7, <2>1, <2>2 DEF ServerStep, GRPCEnvironment
<1>8. CASE \E t \in Callers : ReporterStep(t)
  <2>1. rpc' = rpc
    BY <1>8 DEF ReporterStep, GRPCStep, GRPCRun, GRPCListen, GRPCListenFails, GRPCStop,
                GracefulStop, Drained, GRPCSet, GRPCUpdate, service
  <2> QED
    BY <1>1, <2>1
<1> QED
  BY <1>6, <1>7, <1>8 DEF Next

\* At the start no client calls.
LEMMA RpcInit == Init => RpcOK
BY AnswerFacts DEF Init, GRPCInit, RpcOK, Idle, RpcType

\* gProbe["ready"] is turned on only for a verdict that the service is live and ready.
LEMMA ReadyComes ==
  ASSUME CallInv, [Next]_vars, gProbe'["ready"], ~gProbe["ready"], gProbe \in [Probes -> BOOLEAN]
  PROVE  est'.live /\ est'.ready
<1>1. PICK t \in Callers : GRPCSet(t) /\ UNCHANGED manager
  <2>1. CASE ManagerInput \/ (\E t \in Callers : ManagerStep(t)) \/ UNCHANGED vars
    BY <2>1 DEF ManagerInput, ManagerStep, vars, service, fields
  <2>2. CASE ServerStep
    BY <2>2 DEF ServerStep, ServeStarts, GRPCEnvironment, ServeFails, Ask, Handler, LoadLive,
                LoadReady, Lookup, List, Send, fields
  <2>3. CASE \E t \in Callers : ReporterStep(t)
    BY <2>3 DEF ReporterStep, GRPCStep, GRPCRun, GRPCListen, GRPCListenFails, GRPCStop,
                GracefulStop, Drained, GRPCUpdate, service, fields
  <2> QED
    BY <2>1, <2>2, <2>3 DEF Next
<1>2. /\ call[t].op = "Set" /\ todo[t] # {}
      /\ gProbe' = [gProbe EXCEPT ![call[t].key] = call[t].on]
  BY <1>1 DEF GRPCSet, Starts
<1>3. call[t].key = "ready" /\ call[t].on
  BY <1>2
<1> QED
  BY <1>1, <1>2, <1>3, SetFields DEF manager

\* The probes of the gRPC reporter.
LEMMA GProbeStep ==
  CallInv /\ gProbe \in [Probes -> BOOLEAN] /\ [Next]_vars => gProbe' \in [Probes -> BOOLEAN]
<1> SUFFICES ASSUME CallInv, gProbe \in [Probes -> BOOLEAN], [Next]_vars
             PROVE  gProbe' \in [Probes -> BOOLEAN]
  OBVIOUS
<1>1. CASE ManagerInput \/ (\E t \in Callers : ManagerStep(t)) \/ UNCHANGED vars
  BY <1>1 DEF ManagerInput, ManagerStep, vars, service, fields
<1>2. CASE ServerStep
  BY <1>2 DEF ServerStep, ServeStarts, GRPCEnvironment, ServeFails, Ask, Handler, LoadLive,
              LoadReady, Lookup, List, Send, fields
<1>3. ASSUME NEW t \in Callers, GRPCSet(t) PROVE gProbe' \in [Probes -> BOOLEAN]
  <2>1. /\ call[t].op = "Set" /\ todo[t] # {}
        /\ gProbe' = [gProbe EXCEPT ![call[t].key] = call[t].on]
    BY <1>3 DEF GRPCSet, Starts
  <2>2. call[t].on \in BOOLEAN
    BY <2>1, SetFields
  <2> QED
    BY <2>1, <2>2
<1>4. CASE \E t \in Callers : ReporterStep(t) /\ ~GRPCSet(t)
  BY <1>4 DEF ReporterStep, GRPCStep, GRPCRun, GRPCListen, GRPCListenFails, GRPCStop,
              GracefulStop, Drained, GRPCUpdate, service, fields
<1> QED
  BY <1>1, <1>2, <1>3, <1>4 DEF Next

\* A client that asks for the overall status is at ready only after it found live, and
\* is told SERVING only if it then finds ready.
LEMMA RpcMoves ==
  ASSUME RpcOK, [Next]_vars, NEW c \in Clients
  PROVE  /\ rpc'[c].pc = "ready" => rpc[c].pc = "ready" \/ gProbe'["live"]
         /\ rpc'[c].pc = "send" /\ rpc'[c].ans[Overall] = "SERVING" =>
              \/ rpc[c].pc = "send" /\ rpc[c].ans[Overall] = "SERVING"
              \/ rpc[c].pc = "ready" /\ gProbe["ready"]
<1>0. \A d \in Clients : rpc[d] \in RpcType
  BY DEF RpcOK
<1>t. Overall \in Services
  BY DEF Services
<1>1. CASE rpc' = rpc
  BY <1>1
<1>2. ASSUME NEW d \in Clients, d # c, NEW x, rpc' = [rpc EXCEPT ![d] = x] PROVE rpc'[c] = rpc[c]
  BY <1>2 DEF RpcOK
<1>3. ASSUME NEW f, Answer(c, f) PROVE rpc'[c].pc = "send" /\ rpc'[c].ans = f
  BY <1>0, <1>3 DEF Answer, RpcOK, RpcType
<1>4. ASSUME NEW d \in Clients, Handler(d) PROVE rpc' = [rpc EXCEPT ![d] = rpc'[d]]
  <2>1. rpc \in [Clients -> RpcType]
    BY DEF RpcOK
  <2> QED
    BY <1>4, <2>1 DEF Handler, LoadLive, LoadReady, Lookup, List, Send, Answer
<1>5. CASE Handler(c)
  <2>1. CASE LoadLive(c)
    <3>1. CASE gProbe["live"]
      <4>1. rpc' = [rpc EXCEPT ![c].pc = "ready"] /\ gProbe' = gProbe
        BY <2>1, <3>1 DEF LoadLive, fields
      <4>2. rpc'[c].pc = "ready"
        BY <1>0, <4>1 DEF RpcOK, RpcType
      <4> QED
        BY <3>1, <4>1, <4>2
    <3>2. CASE ~gProbe["live"]
      <4>1. Answer(c, Only(Overall, "NOT_SERVING"))
        BY <2>1, <3>2 DEF LoadLive
      <4>2. rpc'[c].pc = "send" /\ rpc'[c].ans = Only(Overall, "NOT_SERVING")
        BY <1>3, <4>1
      <4>3. Only(Overall, "NOT_SERVING")[Overall] = "NOT_SERVING"
        BY <1>t, AnswerFacts
      <4> QED
        BY <4>2, <4>3
    <3> QED
      BY <3>1, <3>2
  <2>2. CASE LoadReady(c)
    <3>1. Answer(c, Only(Overall, Serving(ReadyLoaded))) /\ rpc[c].pc = "ready"
      BY <2>2 DEF LoadReady
    <3>2. rpc'[c].pc = "send" /\ rpc'[c].ans = Only(Overall, Serving(ReadyLoaded))
      BY <1>3, <3>1
    <3>3. Serving(ReadyLoaded) \in Answers /\ (Serving(ReadyLoaded) = "SERVING" => gProbe["ready"])
      BY AnswerFacts DEF ReadyLoaded, Serving
    <3>4. Only(Overall, Serving(ReadyLoaded))[Overall] = Serving(ReadyLoaded)
      BY <1>t, <3>3, AnswerFacts
    <3> QED
      BY <3>1, <3>2, <3>3, <3>4
  <2>3. CASE Lookup(c)
    <3> DEFINE s == rpc[c].svc
    <3>1. Answer(c, Only(s, Named(s))) /\ s \in Services /\ s # Overall
      BY <2>3 DEF Lookup, RpcOK, Services
    <3>2. Only(s, Named(s))[Overall] = "none"
      BY <3>1, AnswerFacts
    <3>3. rpc'[c].pc = "send" /\ rpc'[c].ans = Only(s, Named(s))
      BY <1>3, <3>1
    <3> QED
      BY <3>2, <3>3
  <2>4. CASE List(c)
    <3> DEFINE f == [s \in Services |-> IF s = Overall \/ gHcs[s] = NoResult THEN "none" ELSE Named(s)]
    <3>1. Answer(c, f) /\ f[Overall] = "none"
      BY <1>t, <2>4 DEF List
    <3> HIDE DEF f
    <3>2. rpc'[c].pc = "send" /\ rpc'[c].ans = f
      BY <1>3, <3>1
    <3> QED
      BY <3>1, <3>2
  <2>5. CASE Send(c)
    <3>1. rpc'[c] = Idle
      BY <2>5 DEF Send, RpcOK
    <3> QED
      BY <3>1 DEF Idle
  <2> QED
    BY <1>5, <2>1, <2>2, <2>3, <2>4, <2>5 DEF Handler
<1>6. ASSUME NEW m, NEW s, Ask(c, m, s) PROVE rpc'[c].pc \in {"list", "live", "lookup"}
  BY <1>6 DEF Ask, RpcOK, Idle
<1>7. ASSUME NEW d \in Clients, NEW q \in Requests, Ask(d, q[1], q[2])
      PROVE  rpc'[c] = rpc[c] \/ rpc'[c].pc \in {"list", "live", "lookup"}
  <2>1. CASE d = c
    BY <1>6, <1>7, <2>1
  <2>2. CASE d # c
    BY <1>2, <1>7, <2>2 DEF Ask
  <2> QED
    BY <2>1, <2>2
<1>8. \/ rpc' = rpc \/ \E d \in Clients : Handler(d)
      \/ \E d \in Clients, q \in Requests : Ask(d, q[1], q[2])
  BY DEF Next, ManagerInput, ManagerStep, ServerStep, ServeStarts, GRPCEnvironment, ServeFails,
         ReporterStep, GRPCStep, GRPCRun, GRPCListen, GRPCListenFails, GRPCStop,
         GracefulStop, Drained, GRPCSet, GRPCUpdate, service, vars
<1> QED
  BY <1>1, <1>2, <1>4, <1>5, <1>7, <1>8

\* The health service says SERVING only to a client during whose call both probes were
\* set at some moment, or the manager had found the service live and ready.
THEOREM ServingIsJustified == Spec => []ServingJustified
<1> DEFINE Inv == RpcOK /\ gProbe \in [Probes -> BOOLEAN] /\ ServeInv
<1>1. Init => Inv
  <2> SUFFICES ASSUME Init PROVE Inv
    OBVIOUS
  <2>1. gProbe \in [Probes -> BOOLEAN] /\ \A c \in Clients : rpc[c].pc = "idle"
    BY DEF Init, GRPCInit, AllDown, Idle
  <2> QED
    BY <2>1, RpcInit DEF ServeInv
<1>2. CallInv /\ Inv /\ [Next]_vars => Inv'
  <2> SUFFICES ASSUME CallInv, Inv, [Next]_vars PROVE ServeInv'
    BY RpcStep, GProbeStep
  <2>1. RpcOK'
    BY RpcStep
  <2>2. CASE UNCHANGED vars
    BY <2>2 DEF vars, service, fields, ServeInv
  <2>3. CASE Next
    <3>1. justified' = {c \in Clients : rpc'[c].svc = Overall /\ (c \in justified \/ Good')}
      BY <2>3 DEF Next, History
    <3> SUFFICES ASSUME NEW c \in Clients
                 PROVE  /\ rpc'[c].pc = "ready" /\ gProbe'["ready"] => c \in justified'
                        /\ rpc'[c].pc = "send" /\ rpc'[c].ans[Overall] = "SERVING" => c \in justified'
      BY DEF ServeInv
    <3>2. ASSUME rpc'[c].pc = "ready", gProbe'["ready"] PROVE c \in justified'
      <4>1. rpc'[c].svc = Overall
        BY <2>1, <3>2 DEF RpcOK
      <4>2. CASE gProbe'["live"]
        BY <3>1, <3>2, <4>1, <4>2 DEF Good
      <4>3. CASE ~gProbe'["live"] /\ gProbe["ready"]
        <5>1. rpc[c].pc = "ready"
          BY <3>2, <4>3, RpcMoves
        <5> QED
          BY <3>1, <4>1, <4>3, <5>1 DEF ServeInv
      <4>4. CASE ~gProbe["ready"]
        <5>1. est'.live /\ est'.ready
          BY <3>2, <4>4, ReadyComes
        <5> QED
          BY <3>1, <4>1, <5>1 DEF Good
      <4> QED
        BY <4>2, <4>3, <4>4
    <3>3. ASSUME rpc'[c].pc = "send", rpc'[c].ans[Overall] = "SERVING" PROVE c \in justified'
      <4>1. rpc'[c].svc = Overall
        BY <2>1, <3>3 DEF RpcOK
      <4>2. c \in justified
        BY <3>3, RpcMoves DEF ServeInv
      <4> QED
        BY <3>1, <4>1, <4>2
    <3> QED
      BY <3>2, <3>3
  <2> QED
    BY <2>2, <2>3
<1>3. Inv => ServingJustified
  BY DEF ServeInv, ServingJustified
<1> QED
  BY <1>1, <1>2, <1>3, CallInvariance, PTL DEF Spec

-----------------------------------------------------------------------------
(* What reporters show of the probes.                                       *)

ShowTypes ==
  /\ gProbe \in [Probes -> BOOLEAN] /\ sProbe \in [Probes -> BOOLEAN] /\ tProbe \in [Probes -> BOOLEAN]
  /\ mProbe \in [Metrics -> [Probes -> BOOLEAN]] /\ gauge \in [Metrics -> [Probes -> BOOLEAN]]

\* Announcements store and show Booleans.
LEMMA ShowStep == CallInv /\ ShowTypes /\ [Next]_vars => ShowTypes'
<1> SUFFICES ASSUME CallInv, ShowTypes, [Next]_vars PROVE ShowTypes'
  OBVIOUS
<1>0. CallingOK
  BY DEF CallInv
<1>1. gProbe' \in [Probes -> BOOLEAN]
  BY GProbeStep DEF ShowTypes
<1>2. CASE UNCHANGED <<metrics, console, recorder>>
  BY <1>1, <1>2 DEF ShowTypes, metrics, console, recorder
<1>3. ASSUME NEW t \in Callers, call[t].op = "Set", todo[t] # {}
      PROVE  call[t].key \in Probes /\ call[t].on \in BOOLEAN
  BY <1>3, SetFields
<1>4. ASSUME NEW t \in Callers, NEW r \in Metrics, UNCHANGED <<console, recorder>>,
             \/ MetricsRun(t, r) \/ MetricsStop(t, r) \/ MetricsStore(t, r)
             \/ MetricsGauge(t, r) \/ MetricsUpdate(t, r) \/ MetricsRecord(t, r)
      PROVE  ShowTypes'
  <2>0. UNCHANGED <<sProbe, tProbe>>
    BY <1>4 DEF console, recorder
  <2>1. CASE MetricsStore(t, r)
    <3>1. /\ mProbe' = [mProbe EXCEPT ![r][call[t].key] = call[t].on] /\ gauge' = gauge
          /\ call[t].on \in BOOLEAN
      BY <1>3, <2>1 DEF MetricsStore, Starts
    <3> QED
      BY <1>1, <2>0, <3>1 DEF ShowTypes
  <2>2. CASE MetricsGauge(t, r)
    <3>1. In(t, r, "gauge")
      BY <2>2 DEF MetricsGauge
    <3>2. call[t].op = "Set" /\ todo[t] # {}
      BY <1>0, <3>1, InWithin, Names DEF Within
    <3>3. /\ gauge' = [gauge EXCEPT ![r][call[t].key] = call[t].on] /\ mProbe' = mProbe
          /\ call[t].on \in BOOLEAN
      BY <1>3, <2>2, <3>2 DEF MetricsGauge
    <3> QED
      BY <1>1, <2>0, <3>3 DEF ShowTypes
  <2>3. CASE MetricsRun(t, r) \/ MetricsStop(t, r) \/ MetricsUpdate(t, r) \/ MetricsRecord(t, r)
    BY <1>1, <2>0, <2>3 DEF ShowTypes, MetricsRun, MetricsStop, MetricsUpdate, MetricsRecord, metrics
  <2> QED
    BY <1>4, <2>1, <2>2, <2>3
<1>5. ASSUME NEW t \in Callers, UNCHANGED <<metrics, recorder>>, StdoutStep(t) PROVE ShowTypes'
  <2>1. sProbe' \in [Probes -> BOOLEAN]
    BY <1>3, <1>5 DEF StdoutStep, StdoutRunStop, StdoutSet, StdoutUpdate, Starts, console, ShowTypes
  <2> QED
    BY <1>1, <1>5, <2>1 DEF ShowTypes, metrics, recorder
<1>6. ASSUME NEW t \in Callers, UNCHANGED <<metrics, console>>, TestStep(t) PROVE ShowTypes'
  <2>1. tProbe' \in [Probes -> BOOLEAN]
    BY <1>3, <1>6 DEF TestStep, TestRunStop, TestStore, TestCount, TestUpdate, Starts, ShowTypes
  <2> QED
    BY <1>1, <1>6, <2>1 DEF ShowTypes, metrics, console
<1>7. CASE ManagerInput \/ (\E t \in Callers : ManagerStep(t)) \/ ServerStep \/ UNCHANGED vars
  BY <1>2, <1>7 DEF ManagerInput, ManagerStep, ServerStep, vars
<1>8. CASE \E t \in Callers : ReporterStep(t)
  BY <1>2, <1>4, <1>5, <1>6, <1>8 DEF ReporterStep, MetricsStep
<1> QED
  BY <1>7, <1>8 DEF Next

\* At the start all probes are down.
LEMMA ShowInit == Init => ShowTypes
BY DEF Init, GRPCInit, StdoutInit, TestInit, MetricsInit, InstrumentsInit, AllDown, ShowTypes

\* Nobody has to announce p to r.
Clear(r, p) == \A t \in Callers : ~(Announces(t, p) /\ r \in todo[t])

\* One caller at most announces p; those it is done with show the flag, and in the
\* methods of two steps the first one is done.
AgreeOn(p) ==
  /\ ~Overlap(p)
  /\ \A t \in Callers : Announces(t, p) => call[t].on = flag[p]
  /\ \A r \in reporters : Clear(r, p) => Shows(r, p) = {flag[p]}
  /\ \A t \in Callers, r \in Metrics :
       Announces(t, p) /\ In(t, r, "gauge") => mProbe[r][p] = flag[p]
  /\ \A t \in Callers : Announces(t, p) /\ In(t, tester, "boop") => tProbe[p] = flag[p]

AgreeInv == \A p \in Probes \ raced : AgreeOn(p)

\* A method of r changes nobody's announcements to other reporters.
LEMMA AnnounceMoves ==
  ASSUME NEW t \in Callers, NEW r, Moved(t, r), NEW u \in Callers, NEW p \in Probes
  PROVE  /\ Announces(u, p)' => Announces(u, p) /\ call'[u] = call[u]
         /\ \A q : q # r => (Announces(u, p)' /\ q \in todo'[u] <=> Announces(u, p) /\ q \in todo[u])
         /\ ~Free(u)' => ~Free(u)
<1>1. CASE u # t
  BY <1>1 DEF Moved, Announces, Free
<1>2. CASE u = t /\ call' = call /\ todo'[t] \in {todo[t], todo[t] \ {r}}
  BY <1>2 DEF Announces, Free
<1>3. CASE u = t /\ call[t].op = "Run" /\ todo'[t] = {}
  BY <1>3 DEF Announces, Free
<1> QED
  BY <1>1, <1>2, <1>3 DEF Moved

\* The probes that are not raced after a step of a reporter were not before.
LEMMA MovesRace ==
  ASSUME NEW t \in Callers, NEW r, Moved(t, r), History, NEW p \in Probes \ raced'
  PROVE  p \notin raced /\ ~Overlap(p)'
<1>1. raced' = {q \in Probes : Overlap(q)' \/ (q \in raced /\ ~Announced(q))}
  BY DEF History
<1>2. ~Announced(p)
  BY AnnounceMoves DEF Announced, Announces
<1> QED
  BY <1>1, <1>2

\* A step in r keeps the agreement if it keeps that of r, and what others are half way
\* through.
LEMMA AgreeMoves ==
  ASSUME AgreeInv, NEW t \in Callers, NEW r, Moved(t, r), History, flag' = flag,
         NEW p \in Probes \ raced',
         \A q \in reporters \ {r} : Shows(q, p)' = Shows(q, p),
         r \in reporters /\ Clear(r, p)' => Shows(r, p)' = {flag[p]},
         \A m \in Metrics : Announces(t, p) /\ In(t, m, "gauge")' => mProbe'[m][p] = flag[p],
         Announces(t, p) /\ In(t, tester, "boop")' => tProbe'[p] = flag[p],
         Announces(t, p) \/ \A m \in Metrics : mProbe'[m][p] = mProbe[m][p],
         Announces(t, p) \/ tProbe'[p] = tProbe[p]
  PROVE  AgreeOn(p)'
<1>1. p \notin raced /\ ~Overlap(p)' /\ AgreeOn(p)
  BY MovesRace DEF AgreeInv
<1>2. ASSUME NEW u \in Callers, Announces(u, p)'
      PROVE  Announces(u, p) /\ call'[u].on = flag'[p]
  BY <1>1, <1>2, AnnounceMoves DEF AgreeOn
<1>3. ASSUME NEW q \in reporters, Clear(q, p)' PROVE Shows(q, p)' = {flag'[p]}
  <2>1. CASE q = r
    BY <1>3, <2>1
  <2>2. CASE q # r
    <3>1. Clear(q, p)
      BY <1>3, <2>2, AnnounceMoves DEF Clear
    <3> QED
      BY <1>1, <1>3, <2>2, <3>1 DEF AgreeOn
  <2> QED
    BY <2>1, <2>2
<1>4. ASSUME NEW u \in Callers, u # t, Announces(u, p) PROVE ~Announces(t, p) /\ at'[u] = at[u]
  BY <1>1, <1>4, TwoCallers DEF AgreeOn, Overlap, Moved
<1>5. ASSUME NEW u \in Callers, NEW m \in Metrics, Announces(u, p)', In(u, m, "gauge")'
      PROVE  mProbe'[m][p] = flag'[p]
  <2>1. Announces(u, p)
    BY <1>2, <1>5
  <2>2. CASE u = t
    BY <1>5, <2>1, <2>2
  <2>3. CASE u # t
    <3>1. ~Announces(t, p) /\ at'[u] = at[u]
      BY <1>4, <2>1, <2>3
    <3> QED
      BY <1>1, <1>5, <2>1, <3>1 DEF AgreeOn, In
  <2> QED
    BY <2>2, <2>3
<1>6. ASSUME NEW u \in Callers, Announces(u, p)', In(u, tester, "boop")'
      PROVE  tProbe'[p] = flag'[p]
  <2>1. Announces(u, p)
    BY <1>2, <1>6
  <2>2. CASE u = t
    BY <1>6, <2>1, <2>2
  <2>3. CASE u # t
    <3>1. ~Announces(t, p) /\ at'[u] = at[u]
      BY <1>4, <2>1, <2>3
    <3> QED
      BY <1>1, <1>6, <2>1, <3>1 DEF AgreeOn, In
  <2> QED
    BY <2>2, <2>3
<1>7. reporters' = reporters
  BY DEF Moved
<1> QED
  BY <1>1, <1>2, <1>3, <1>5, <1>6, <1>7 DEF AgreeOn

\* What a reporter shows, by its name.
LEMMA ShowsBy ==
  \A p \in Probes :
    /\ Shows(grpc, p) = {gProbe[p]} /\ Shows(stdout, p) = {sProbe[p]} /\ Shows(tester, p) = {tProbe[p]}
    /\ \A m \in Metrics : Shows(m, p) = {mProbe[m][p], gauge[m][p]}
BY Names DEF Shows

\* The reporters of a setup.
LEMMA ReporterNames ==
  ASSUME CallingOK
  PROVE  \A q \in reporters : q \in Metrics \/ q \in {grpc, stdout, tester}
BY FanoutAssumption DEF CallingOK

\* A step in which t shows or does not touch p keeps what is clear for r.
LEMMA SameShows ==
  ASSUME AgreeInv, NEW t \in Callers, NEW r \in reporters, Moved(t, r), flag' = flag,
         NEW p \in Probes \ raced, ~Announces(t, p), Shows(r, p)' = Shows(r, p), Clear(r, p)'
  PROVE  Shows(r, p)' = {flag[p]}
<1>1. Clear(r, p)
  <2> SUFFICES ASSUME NEW u \in Callers, Announces(u, p), r \in todo[u] PROVE FALSE
    BY DEF Clear
  <2>1. u # t /\ todo'[u] = todo[u] /\ call'[u] = call[u]
    BY DEF Moved
  <2> QED
    BY <2>1 DEF Clear, Announces, Free
<1> QED
  BY <1>1 DEF AgreeInv, AgreeOn

\* The gRPC reporter.
LEMMA GRPCAgrees ==
  ASSUME CallInv, ShowTypes, AgreeInv, NEW t \in Callers, GRPCStep(t), History, flag' = flag,
         UNCHANGED <<metrics, console, recorder>>, NEW p \in Probes \ raced'
  PROVE  AgreeOn(p)'
<1>0. CallingOK /\ Moved(t, grpc) /\ p \notin raced /\ AgreeOn(p)
  BY GRPCMoves, MovesRace DEF CallInv, AgreeInv
<1>1. UNCHANGED <<mProbe, gauge, sProbe, tProbe>>
  BY DEF metrics, console, recorder
<1>2. \A q \in reporters \ {grpc} : Shows(q, p)' = Shows(q, p)
  BY <1>0, <1>1, ReporterNames, Names DEF Shows
<1>3. at'[t] = Nowhere \/ \E l : at'[t] = <<grpc, l>>
  BY <1>0 DEF Moved
<1>4. (\A m \in Metrics : ~In(t, m, "gauge")') /\ ~In(t, tester, "boop")'
  BY <1>3, Names DEF In, Nowhere
<1>5. ASSUME grpc \in reporters, Clear(grpc, p)' PROVE Shows(grpc, p)' = {flag[p]}
  <2>1. CASE GRPCSet(t) /\ call[t].key = p
    <3>1. /\ call[t].op = "Set" /\ todo[t] # {} /\ gProbe' = [gProbe EXCEPT ![p] = call[t].on]
      BY <2>1 DEF GRPCSet, Starts
    <3>2. Announces(t, p)
      BY <2>1, <3>1 DEF Announces, Free
    <3>3. gProbe'[p] = flag[p]
      BY <1>0, <3>1, <3>2 DEF AgreeOn, ShowTypes
    <3> QED
      BY <3>3, Names DEF Shows
  <2>2. CASE ~(GRPCSet(t) /\ call[t].key = p)
    <3>1. gProbe'[p] = gProbe[p]
      BY <2>2 DEF GRPCStep, GRPCRun, GRPCListen, GRPCListenFails, GRPCStop, GracefulStop, Drained,
                  GRPCSet, GRPCUpdate, service, fields, ShowTypes
    <3>2. Shows(grpc, p)' = Shows(grpc, p)
      BY <3>1, Names DEF Shows
    <3>3. ~Announces(t, p)
      <4>1. GRPCSet(t) \/ call[t].op # "Set"
        <5>1. \A l : In(t, grpc, l) /\ l # "none" => call[t].op # "Set"
          BY <1>0, InWithin, Names DEF Within
        <5> QED
          BY <5>1 DEF GRPCStep, GRPCRun, GRPCListen, GRPCListenFails, GRPCStop, GracefulStop, Drained,
                      GRPCUpdate, Starts
      <4> QED
        BY <2>2, <4>1 DEF Announces
    <3> QED
      BY <1>0, <1>5, <3>2, <3>3, SameShows
  <2> QED
    BY <2>1, <2>2
<1> QED
  BY <1>0, <1>1, <1>2, <1>4, <1>5, AgreeMoves

\* The stdout reporter.
LEMMA StdoutAgrees ==
  ASSUME CallInv, ShowTypes, AgreeInv, NEW t \in Callers, StdoutStep(t), History, flag' = flag,
         UNCHANGED <<service, metrics, recorder>>, NEW p \in Probes \ raced'
  PROVE  AgreeOn(p)'
<1>0. CallingOK /\ Moved(t, stdout) /\ p \notin raced /\ AgreeOn(p)
  BY StdoutMoves, MovesRace DEF CallInv, AgreeInv
<1>1. UNCHANGED <<mProbe, gauge, gProbe, tProbe>>
  BY DEF metrics, service, fields, recorder
<1>2. \A q \in reporters \ {stdout} : Shows(q, p)' = Shows(q, p)
  BY <1>0, <1>1, ReporterNames, Names DEF Shows
<1>3. at'[t] = Nowhere \/ \E l : at'[t] = <<stdout, l>>
  BY <1>0 DEF Moved
<1>4. (\A m \in Metrics : ~In(t, m, "gauge")') /\ ~In(t, tester, "boop")'
  BY <1>3, Names DEF In, Nowhere
<1>5. ASSUME stdout \in reporters, Clear(stdout, p)' PROVE Shows(stdout, p)' = {flag[p]}
  <2>1. CASE StdoutSet(t) /\ call[t].key = p
    <3>1. /\ call[t].op = "Set" /\ todo[t] # {} /\ sProbe' = [sProbe EXCEPT ![p] = call[t].on]
      BY <2>1 DEF StdoutSet, Starts
    <3>2. Announces(t, p)
      BY <2>1, <3>1 DEF Announces, Free
    <3>3. sProbe'[p] = flag[p]
      BY <1>0, <3>1, <3>2 DEF AgreeOn, ShowTypes
    <3> QED
      BY <3>3, Names DEF Shows
  <2>2. CASE ~(StdoutSet(t) /\ call[t].key = p)
    <3>1. sProbe'[p] = sProbe[p] /\ (StdoutSet(t) \/ call[t].op # "Set")
      BY <2>2 DEF StdoutStep, StdoutRunStop, StdoutSet, StdoutUpdate, console, ShowTypes, Starts
    <3>2. Shows(stdout, p)' = Shows(stdout, p)
      BY <3>1, Names DEF Shows
    <3>3. ~Announces(t, p)
      BY <2>2, <3>1 DEF Announces
    <3> QED
      BY <1>0, <1>5, <3>2, <3>3, SameShows
  <2> QED
    BY <2>1, <2>2
<1> QED
  BY <1>0, <1>1, <1>2, <1>4, <1>5, AgreeMoves

\* The test reporter.
LEMMA TestAgrees ==
  ASSUME CallInv, ShowTypes, AgreeInv, NEW t \in Callers, TestStep(t), History, flag' = flag,
         UNCHANGED <<service, metrics, console>>, NEW p \in Probes \ raced'
  PROVE  AgreeOn(p)'
<1>0. CallingOK /\ Moved(t, tester) /\ p \notin raced /\ AgreeOn(p)
  BY TestMoves, MovesRace DEF CallInv, AgreeInv
<1>1. UNCHANGED <<mProbe, gauge, gProbe, sProbe>>
  BY DEF metrics, service, fields, console
<1>2. \A q \in reporters \ {tester} : Shows(q, p)' = Shows(q, p)
  BY <1>0, <1>1, ReporterNames, Names DEF Shows
<1>3. at'[t] = Nowhere \/ \E l : at'[t] = <<tester, l>>
  BY <1>0 DEF Moved
<1>4. \A m \in Metrics : ~In(t, m, "gauge")'
  BY <1>3, Names DEF In, Nowhere
<1>5. CASE TestStore(t)
  <2>1. /\ call[t].op = "Set" /\ tester \in todo[t] /\ todo[t] # {} /\ Goto(t, tester, "boop")
        /\ tProbe' = [tProbe EXCEPT ![call[t].key] = call[t].on]
    BY <1>5 DEF TestStore, Starts
  <2>2. CASE call[t].key = p
    <3>1. Announces(t, p)
      BY <2>1, <2>2 DEF Announces, Free
    <3>2. tProbe'[p] = flag[p]
      BY <1>0, <2>1, <2>2, <3>1 DEF AgreeOn, ShowTypes
    <3>3. todo' = todo /\ call' = call
      BY <2>1 DEF Goto
    <3>4. ~Clear(tester, p)'
      BY <2>1, <3>1, <3>3 DEF Clear, Announces, Free
    <3> QED
      BY <1>0, <1>1, <1>2, <1>4, <3>1, <3>2, <3>4, AgreeMoves
  <2>3. CASE call[t].key # p
    <3>1. ~Announces(t, p) /\ tProbe'[p] = tProbe[p]
      BY <2>1, <2>3 DEF Announces, ShowTypes
    <3>2. Shows(tester, p)' = Shows(tester, p)
      BY <3>1, Names DEF Shows
    <3>3. tester \in reporters /\ Clear(tester, p)' => Shows(tester, p)' = {flag[p]}
      BY <1>0, <3>1, <3>2, SameShows
    <3> QED
      BY <1>0, <1>1, <1>2, <1>4, <3>1, <3>3, AgreeMoves
  <2> QED
    BY <2>2, <2>3
<1>6. CASE TestRunStop(t) \/ TestCount(t) \/ TestUpdate(t)
  <2>1. tProbe' = tProbe /\ Returns(t, tester)
    BY <1>6 DEF TestRunStop, TestCount, TestUpdate
  <2>2. ~In(t, tester, "boop")'
    BY <1>0, <2>1, ReturnsMoves DEF In, Nowhere
  <2>3. Shows(tester, p)' = Shows(tester, p)
    BY <2>1, Names DEF Shows
  <2>4. ASSUME tester \in reporters, Clear(tester, p)' PROVE Shows(tester, p)' = {flag[p]}
    <3>1. CASE Announces(t, p)
      <4>1. In(t, tester, "boop")
        BY <1>6, <3>1 DEF TestRunStop, TestCount, TestUpdate, Starts, Announces
      <4>2. tProbe[p] = flag[p]
        BY <1>0, <3>1, <4>1 DEF AgreeOn
      <4> QED
        BY <2>1, <4>2, Names DEF Shows
    <3>2. CASE ~Announces(t, p)
      BY <1>0, <2>3, <2>4, <3>2, SameShows
    <3> QED
      BY <3>1, <3>2
  <2> QED
    BY <1>0, <1>1, <1>2, <1>4, <2>1, <2>2, <2>4, AgreeMoves
<1> QED
  BY <1>5, <1>6 DEF TestStep

\* The metrics reporters.
LEMMA MetricsAgree ==
  ASSUME CallInv, ShowTypes, AgreeInv, NEW t \in Callers, NEW r \in Metrics, History, flag' = flag,
         \/ MetricsRun(t, r) \/ MetricsStop(t, r) \/ MetricsStore(t, r)
         \/ MetricsGauge(t, r) \/ MetricsUpdate(t, r) \/ MetricsRecord(t, r),
         UNCHANGED <<service, console, recorder>>, NEW p \in Probes \ raced'
  PROVE  AgreeOn(p)'
<1>0. CallingOK /\ Moved(t, r) /\ p \notin raced /\ AgreeOn(p)
  BY MetricsMoves, MovesRace DEF CallInv, AgreeInv
<1>1. UNCHANGED <<gProbe, sProbe, tProbe>>
  BY DEF service, fields, console, recorder
<1>2. ASSUME \A m \in Metrics \ {r} : mProbe'[m][p] = mProbe[m][p] /\ gauge'[m][p] = gauge[m][p]
      PROVE  \A q \in reporters \ {r} : Shows(q, p)' = Shows(q, p)
  BY <1>0, <1>1, <1>2, ReporterNames, Names DEF Shows
<1>3. at'[t] = Nowhere \/ \E l : at'[t] = <<r, l>>
  BY <1>0 DEF Moved
<1>4. ~In(t, tester, "boop")' /\ \A m \in Metrics : In(t, m, "gauge")' => m = r
  BY <1>3, Names DEF In, Nowhere
<1>5. CASE MetricsStore(t, r)
  <2>1. /\ call[t].op = "Set" /\ r \in todo[t] /\ todo[t] # {} /\ Goto(t, r, "gauge")
        /\ mProbe' = [mProbe EXCEPT ![r][call[t].key] = call[t].on] /\ gauge' = gauge
    BY <1>5 DEF MetricsStore, Starts
  <2>2. \A m \in Metrics \ {r} : mProbe'[m] = mProbe[m]
    BY <2>1 DEF ShowTypes
  <2>3. \A q \in reporters \ {r} : Shows(q, p)' = Shows(q, p)
    BY <1>2, <2>1, <2>2
  <2>4. CASE call[t].key = p
    <3>1. Announces(t, p)
      BY <2>1, <2>4 DEF Announces, Free
    <3>2. mProbe'[r][p] = flag[p]
      BY <1>0, <2>1, <2>4, <3>1 DEF AgreeOn, ShowTypes
    <3>3. todo' = todo /\ call' = call
      BY <2>1 DEF Goto
    <3>4. ~Clear(r, p)'
      BY <2>1, <3>1, <3>3 DEF Clear, Announces, Free
    <3> QED
      BY <1>0, <1>1, <1>4, <2>3, <3>1, <3>2, <3>4, AgreeMoves
  <2>5. CASE call[t].key # p
    <3>1. ~Announces(t, p)
      BY <2>5 DEF Announces
    <3>2. \A m \in Metrics : mProbe'[m][p] = mProbe[m][p]
      BY <2>1, <2>2, <2>5 DEF ShowTypes
    <3>3. Shows(r, p)' = Shows(r, p)
      BY <2>1, <3>2, Names DEF Shows
    <3>4. r \in reporters /\ Clear(r, p)' => Shows(r, p)' = {flag[p]}
      BY <1>0, <3>1, <3>3, SameShows
    <3> QED
      BY <1>0, <1>1, <1>4, <2>3, <3>1, <3>2, <3>4, AgreeMoves
  <2> QED
    BY <2>4, <2>5
<1>6. CASE MetricsGauge(t, r)
  <2>1. /\ In(t, r, "gauge") /\ Returns(t, r)
        /\ gauge' = [gauge EXCEPT ![r][call[t].key] = call[t].on] /\ mProbe' = mProbe
    BY <1>6 DEF MetricsGauge
  <2>2. \A m \in Metrics \ {r} : gauge'[m] = gauge[m]
    BY <2>1 DEF ShowTypes
  <2>3. \A q \in reporters \ {r} : Shows(q, p)' = Shows(q, p)
    BY <1>2, <2>1, <2>2
  <2>4. \A m \in Metrics : ~In(t, m, "gauge")'
    BY <1>0, <2>1, ReturnsMoves DEF In, Nowhere
  <2>5. r \in todo[t] /\ call[t].op = "Set"
    BY <1>0, <2>1, InWithin, Names DEF Within
  <2>6. ASSUME r \in reporters, Clear(r, p)' PROVE Shows(r, p)' = {flag[p]}
    <3>1. CASE call[t].key = p
      <4>1. Announces(t, p)
        BY <2>5, <3>1 DEF Announces, Free
      <4>2. gauge'[r][p] = flag[p] /\ mProbe'[r][p] = flag[p]
        BY <1>0, <2>1, <3>1, <4>1 DEF AgreeOn, ShowTypes
      <4> QED
        BY <4>2, Names DEF Shows
    <3>2. CASE call[t].key # p
      <4>1. ~Announces(t, p) /\ gauge'[r][p] = gauge[r][p]
        BY <2>1, <3>2 DEF Announces, ShowTypes
      <4>2. Shows(r, p)' = Shows(r, p)
        BY <2>1, <4>1, Names DEF Shows
      <4> QED
        BY <1>0, <2>6, <4>1, <4>2, SameShows
    <3> QED
      BY <3>1, <3>2
  <2> QED
    BY <1>0, <1>1, <1>4, <2>1, <2>3, <2>4, <2>6, AgreeMoves
<1>7. CASE MetricsRun(t, r) \/ MetricsStop(t, r) \/ MetricsUpdate(t, r) \/ MetricsRecord(t, r)
  <2>1. mProbe' = mProbe /\ gauge' = gauge
    BY <1>7 DEF MetricsRun, MetricsStop, MetricsUpdate, MetricsRecord, metrics
  <2>2. \A q \in reporters : Shows(q, p)' = Shows(q, p)
    BY <1>0, <1>1, <2>1, ReporterNames, Names DEF Shows
  <2>3. call[t].op # "Set"
    <3>1. CASE MetricsRecord(t, r)
      BY <1>0, <3>1, InWithin, Names DEF Within, MetricsRecord
    <3>2. CASE MetricsRun(t, r) \/ MetricsStop(t, r) \/ MetricsUpdate(t, r)
      BY <3>2 DEF MetricsRun, MetricsStop, MetricsUpdate, Starts
    <3> QED
      BY <1>7, <3>1, <3>2
  <2>4. ~Announces(t, p)
    BY <2>3 DEF Announces
  <2>5. r \in reporters /\ Clear(r, p)' => Shows(r, p)' = {flag[p]}
    BY <1>0, <2>2, <2>4, SameShows
  <2> QED
    BY <1>0, <1>1, <1>4, <2>1, <2>2, <2>4, <2>5, AgreeMoves
<1> QED
  BY <1>5, <1>6, <1>7

\* The manager begins an announcement, alone or not.
LEMMA ManagerAgrees ==
  ASSUME CallInv, AgreeInv, ManagerInput \/ (\E t \in Callers : ManagerStep(t)), History,
         NEW p \in Probes \ raced'
  PROVE  AgreeOn(p)'
<1>0. CallingOK /\ FieldsOK /\ UNCHANGED <<gProbe, sProbe, tProbe, mProbe, gauge>>
  BY ManagerFans DEF CallInv, shown, service, fields, metrics, console, recorder
<1>1. ~Overlap(p)' /\ (p \notin raced \/ Announced(p))
  BY DEF History
<1>2. \A q \in reporters : Shows(q, p)' = {flag[p]} <=> Shows(q, p) = {flag[p]}
  BY <1>0 DEF Shows
<1>3. ASSUME flag'[p] = flag[p], reporters' = reporters, at' = at,
             \A u \in Callers : /\ Announces(u, p)' <=> Announces(u, p)
                                /\ Announces(u, p) => call'[u] = call[u] /\ todo'[u] = todo[u]
      PROVE  AgreeOn(p)'
  <2>1. p \notin raced
    BY <1>1, <1>3 DEF Announced, Announces
  <2>2. AgreeOn(p)
    BY <2>1 DEF AgreeInv
  <2>3. ASSUME NEW q \in reporters, Clear(q, p)' PROVE Shows(q, p)' = {flag'[p]}
    <3>1. Clear(q, p)
      BY <1>3, <2>3 DEF Clear
    <3> QED
      BY <1>2, <1>3, <2>2, <3>1 DEF AgreeOn
  <2> QED
    BY <1>0, <1>1, <1>3, <2>2, <2>3 DEF AgreeOn, In
<1>4. CASE UNCHANGED <<calling, flag>>
  BY <1>3, <1>4 DEF calling, Announces, Free
<1>5. ASSUME NEW t \in Callers, NEW c \in CallType, Free(t), Fan(t, c),
             c.op # "Set" \/ c.key # p, flag'[p] = flag[p]
      PROVE  AgreeOn(p)'
  <2>1. Began(t, c) /\ at' = at /\ call'[t] = c
    BY <1>0, <1>5, FanBegins
  <2>2. ASSUME NEW u \in Callers
        PROVE  /\ Announces(u, p)' <=> Announces(u, p)
               /\ Announces(u, p) => call'[u] = call[u] /\ todo'[u] = todo[u]
    BY <1>5, <2>1, <2>2 DEF Began, Announces, Free
  <2> QED
    BY <1>3, <1>5, <2>1, <2>2 DEF Began
<1>6. ASSUME NEW t \in Callers, NEW q \in Probes, NEW v \in BOOLEAN, Free(t), flag[q] # v,
             flag' = [flag EXCEPT ![q] = v], Fan(t, SetCall(q, v))
      PROVE  AgreeOn(p)'
  <2>0. /\ SetCall(q, v) \in CallType /\ SetCall(q, v).op = "Set"
        /\ SetCall(q, v).key = q /\ SetCall(q, v).on = v
    BY CallFields
  <2>1. CASE q # p
    BY <1>0, <1>5, <1>6, <2>0, <2>1 DEF FieldsOK
  <2>2. CASE q = p
    <3>1. /\ Began(t, SetCall(p, v)) /\ at' = at /\ call'[t] = SetCall(p, v) /\ todo'[t] = reporters
          /\ reporters' = reporters /\ flag'[p] = v /\ todo' \in [Callers -> SUBSET reporters]
      BY <1>0, <1>6, <2>0, <2>2, FanBegins DEF Began, FieldsOK, CallingOK
    <3>2. at[t] = Nowhere
      BY <1>0, <1>6, FreeNowhere
    <3>3. CASE reporters = {}
      <4>1. \A u \in Callers : ~Announces(u, p)'
        BY <3>1, <3>3 DEF Announces, Free
      <4> QED
        BY <1>1, <3>1, <3>3, <4>1 DEF AgreeOn
    <3>4. CASE reporters # {}
      <4>1. Announces(t, p)'
        BY <2>0, <2>2, <3>1, <3>4 DEF Announces, Free
      <4>2. \A u \in Callers : Announces(u, p)' => u = t
        BY <1>1, <4>1, TwoCallers DEF Overlap
      <4>3. ~In(t, tester, "boop")' /\ \A m \in Metrics : ~In(t, m, "gauge")'
        BY <3>1, <3>2 DEF In, Nowhere
      <4>4. \A r \in reporters : ~Clear(r, p)'
        BY <3>1, <4>1 DEF Clear
      <4> QED
        BY <1>1, <2>0, <2>2, <3>1, <4>2, <4>3, <4>4 DEF AgreeOn
    <3> QED
      BY <3>3, <3>4
  <2> QED
    BY <2>1, <2>2
<1> QED
  BY <1>4, <1>5, <1>6, ManagerFans

\* No step makes a reporter show another value than the manager has.
LEMMA AgreeStep == CallInv /\ ShowTypes /\ AgreeInv /\ [Next]_vars => AgreeInv'
<1> SUFFICES ASSUME CallInv, ShowTypes, AgreeInv, [Next]_vars PROVE AgreeInv'
  OBVIOUS
<1>1. ASSUME UNCHANGED <<calling, flag, mProbe, gauge, gProbe, sProbe, tProbe>>, NEW p \in Probes,
             p \notin raced
      PROVE  AgreeOn(p)'
  <2>1. AgreeOn(p)
    BY <1>1 DEF AgreeInv
  <2>2. \A r \in reporters : Shows(r, p)' = Shows(r, p) /\ (Clear(r, p)' <=> Clear(r, p))
    BY <1>1 DEF Shows, Clear, Announces, Free, calling
  <2>3. ~Overlap(p)' /\ \A t \in Callers : Announces(t, p)' <=> Announces(t, p)
    BY <1>1, <2>1 DEF AgreeOn, Overlap, Announces, Free, calling
  <2> QED
    BY <1>1, <2>1, <2>2, <2>3 DEF AgreeOn, In, calling
<1>2. CASE UNCHANGED vars
  <2>1. UNCHANGED <<calling, flag, mProbe, gauge, gProbe, sProbe, tProbe, raced>>
    BY <1>2 DEF vars, manager, metrics, service, fields, console, recorder
  <2> QED
    BY <1>1, <2>1 DEF AgreeInv
<1>3. CASE Next
  <2> SUFFICES ASSUME NEW p \in Probes \ raced' PROVE AgreeOn(p)'
    BY DEF AgreeInv
  <2>0. History
    BY <1>3 DEF Next
  <2>1. CASE ManagerInput \/ \E t \in Callers : ManagerStep(t)
    BY <2>0, <2>1, ManagerAgrees
  <2>2. CASE ServerStep
    <3>1. UNCHANGED <<calling, flag, mProbe, gauge, sProbe, tProbe>>
      BY <2>2 DEF ServerStep, metrics, console, recorder, manager
    <3>2. gProbe' = gProbe
      BY <2>2 DEF ServerStep, ServeStarts, GRPCEnvironment, ServeFails, Ask, Handler, LoadLive,
                  LoadReady, Lookup, List, Send, fields
    <3>3. p \notin raced
      BY <2>0, <3>1 DEF History, Announced, Announces, Free, calling
    <3> QED
      BY <1>1, <3>1, <3>2, <3>3
  <2>3. ASSUME NEW t \in Callers, ReporterStep(t) PROVE AgreeOn(p)'
    <3>1. flag' = flag
      BY <2>3 DEF ReporterStep, manager
    <3>2. CASE GRPCStep(t) /\ UNCHANGED <<metrics, console, recorder>>
      BY <2>0, <3>1, <3>2, GRPCAgrees
    <3>3. CASE MetricsStep(t) /\ UNCHANGED <<service, console, recorder>>
      BY <2>0, <3>1, <3>3, MetricsAgree DEF MetricsStep
    <3>4. CASE StdoutStep(t) /\ UNCHANGED <<service, metrics, recorder>>
      BY <2>0, <3>1, <3>4, StdoutAgrees
    <3>5. CASE TestStep(t) /\ UNCHANGED <<service, metrics, console>>
      BY <2>0, <3>1, <3>5, TestAgrees
    <3> QED
      BY <2>3, <3>2, <3>3, <3>4, <3>5 DEF ReporterStep
  <2> QED
    BY <1>3, <2>1, <2>2, <2>3 DEF Next
<1> QED
  BY <1>2, <1>3

\* At the start everything is down.
LEMMA AgreeInit == Init => AgreeInv
<1> SUFFICES ASSUME Init, NEW p \in Probes PROVE AgreeOn(p)
  BY DEF AgreeInv
<1>1. \A t \in Callers : ~Announces(t, p)
  BY DEF Init, CallsInit, Announces, Free
<1>2. CallingOK
  BY CallInit DEF CallInv
<1>3. /\ gProbe[p] = FALSE /\ sProbe[p] = FALSE /\ tProbe[p] = FALSE /\ flag[p] = FALSE
      /\ \A m \in Metrics : mProbe[m][p] = FALSE /\ gauge[m][p] = FALSE
  BY DEF Init, GRPCInit, StdoutInit, TestInit, MetricsInit, InstrumentsInit, AllDown
<1>4. \A r \in reporters : Shows(r, p) = {flag[p]}
  BY <1>2, <1>3, ReporterNames, Names DEF Shows
<1> QED
  BY <1>1, <1>4, TwoCallers DEF AgreeOn, Overlap

\* Reporters show the flags that were not raced.
LEMMA AgreeInvariance == Spec => [](ShowTypes /\ AgreeInv)
BY ShowInit, ShowStep, AgreeInit, AgreeStep, CallInvariance, PTL DEF Spec

-----------------------------------------------------------------------------
(* The results that reporters hold.                                         *)

HoldTypes ==
  /\ gHcs \in [Checks -> Results] /\ sHcs \in [Checks -> Results] /\ tHc \in [Checks -> Results]
  /\ mHcs \in [Metrics -> [Checks -> Results]]

\* The result being relayed is the one at the processor.
LEMMA UpdateFields ==
  ASSUME CallInv, NEW t \in Callers, todo[t] # {}, call[t].op = "Update"
  PROVE  /\ t = proc /\ pc[proc] = "store" /\ call[t].key = hc.key /\ call[t].res = hc.res
         /\ hc.key \in Checks /\ hc.res \in Results
         /\ hc.res.n = last[hc.key].n + 1 /\ hc.res.status \in Statuses /\ hc.res # NoResult
<1>1. CallOK(t) /\ FieldsOK
  BY DEF CallInv
<1>2. call[t] # RunCall /\ call[t] # StopCall
  BY CallFields
<1>3. \A p, b : call[t] # SetCall(p, b)
  BY DEF SetCall, NoCall
<1>4. t = proc /\ pc[t] = "store" /\ call[t] = UpdateCall(hc.key, hc.res)
  BY <1>1, <1>2, <1>3 DEF CallOK
<1>5. /\ hc.key \in Checks /\ hc.res \in [n : 1 .. MaxResults, status : Statuses]
      /\ hc.res.n = last[hc.key].n + 1
  BY <1>1, <1>4 DEF FieldsOK
<1>6. hc.res \in Results /\ hc.res \in [n : Nat, status : Statuses] /\ hc.res # NoResult
  BY <1>5, FanoutAssumption DEF Results, NoResult
<1> QED
  BY <1>4, <1>5, <1>6, CallFields

\* Run's calls are those of the application before the dispatch, Stop's are made with
\* running cleared.
LEMMA RunStopFields ==
  ASSUME CallInv, NEW t \in Callers, todo[t] # {}
  PROVE  /\ call[t].op = "Run" => t = app /\ pc[app] = "dispatch" /\ pc[proc] = "off"
         /\ call[t].op = "Stop" => pc[t] = "done" /\ ~running /\ pc[proc] # "off"
<1>1. CallOK(t) /\ PcOK /\ FieldsOK
  BY DEF CallInv
<1>2. \A p, b : SetCall(p, b).op = "Set"
  BY DEF SetCall, NoCall
<1>3. \A k, r : UpdateCall(k, r).op = "Update"
  BY DEF UpdateCall, NoCall
<1>4. RunCall.op = "Run" /\ StopCall.op = "Stop"
  BY CallFields
<1>5. call[t].op = "Run" => t = app /\ pc[t] = "dispatch"
  BY <1>1, <1>2, <1>3, <1>4 DEF CallOK
<1>6. call[t].op = "Stop" => pc[t] = "done"
  BY <1>1, <1>2, <1>3, <1>4 DEF CallOK
<1>7. pc[t] = "done" => ~running /\ pc[proc] # "off"
  <2>1. pc[t] = "done" => ~running
    BY <1>1 DEF PcOK, Stopping
  <2>2. pc[t] = "done" => pc[proc] # "off"
    BY <1>1, TwoCallers DEF PcOK
  <2> QED
    BY <2>1, <2>2
<1> QED
  BY <1>1, <1>5, <1>6, <1>7 DEF PcOK

\* The results that reporter r should hold: with the one being relayed, if it was.
Due(r) ==
  IF pc[proc] = "store" /\ r \notin todo[proc] THEN [last EXCEPT ![hc.key] = hc.res] ELSE last

\* Between the calls on it, what a reporter should hold does not change.
LEMMA ManagerDue ==
  ASSUME CallInv, ManagerInput \/ \E t \in Callers : ManagerStep(t)
  PROVE  /\ \A r \in reporters : Due(r)' = Due(r)
         /\ pc'[proc] = "off" => pc[proc] = "off" /\ last' = last
<1>0. CallingOK /\ PcOK /\ FieldsOK /\ app \in Callers /\ proc \in Callers /\ app # proc
  BY TwoCallers DEF CallInv
<1>f. pc \in [Callers -> AppLabels \cup ProcLabels]
  BY <1>0 DEF PcOK
<1>1. ASSUME NEW k \in Checks, NEW st \in Statuses, Receive(k, st)
      PROVE  (\A r \in reporters : Due(r)' = Due(r)) /\ pc'[proc] # "off"
  <2>1. pc[proc] = "select" /\ last' = last /\ Free(proc)
    BY <1>1 DEF Receive, At
  <2>2. CASE ctxDone
    BY <1>0, <1>f, <1>1, <2>1, <2>2 DEF Receive, Moves, Due
  <2>3. CASE ~ctxDone
    <3>1. pc'[proc] = "store" /\ todo'[proc] = reporters
      BY <1>0, <1>f, <1>1, <2>3 DEF Receive, Moves, Fan, CallingOK
    <3> QED
      BY <2>1, <3>1 DEF Due
  <2> QED
    BY <2>2, <2>3
<1>2. CASE Store
  <2>1. /\ pc[proc] = "store" /\ todo[proc] = {} /\ last' = [last EXCEPT ![hc.key] = hc.res]
        /\ pc'[proc] = "fitness"
    BY <1>0, <1>f, <1>2 DEF Store, At, Moves, Free
  <2> QED
    BY <2>1 DEF Due
<1>3. CASE Fitness \/ InitialReady \/ Liveness \/ Readiness
  <2>1. last' = last
    BY <1>3 DEF Fitness, InitialReady, Liveness, Readiness
  <2>2. pc[proc] \in {"fitness", "initial", "liveness", "readiness"}
    BY <1>3 DEF Fitness, InitialReady, Liveness, Readiness, At
  <2>3. pc'[proc] \in {"select", "initial", "liveness", "readiness"}
    BY <1>0, <1>f, <1>3 DEF Fitness, InitialReady, Liveness, Readiness, Moves
  <2> QED
    BY <2>1, <2>2, <2>3 DEF Due
<1>4. ASSUME NEW t \in Callers, StopCAS(t) \/ StopReady(t) \/ StopReporters(t)
      PROVE  (\A r \in reporters : Due(r)' = Due(r)) /\ (pc'[proc] = "off" => pc[proc] = "off" /\ last' = last)
  <2>1. last' = last /\ hc' = hc /\ Free(t)
    BY <1>4 DEF StopCAS, StopReady, StopReporters, At
  <2>2. pc[t] \in {"up", "select", "stopReady", "stopReporters"}
    BY <1>4 DEF StopCAS, StopReady, StopReporters, At
  <2>3. PICK l \in Stopping : pc' = [pc EXCEPT ![t] = l]
    BY <1>4 DEF StopCAS, StopReady, StopReporters, Moves, Stopping
  <2>4. CASE t = proc
    <3>1. pc'[proc] = l /\ pc'[proc] \notin {"store", "off"}
      BY <1>f, <2>3, <2>4 DEF Stopping
    <3> QED
      BY <2>1, <2>2, <2>4, <3>1 DEF Due
  <2>5. CASE t # proc
    <3>1. pc'[proc] = pc[proc]
      BY <1>0, <1>f, <2>3, <2>5
    <3>2. todo'[proc] = todo[proc]
      <4>1. UNCHANGED calling \/ SetReady(t, FALSE) \/ Fan(t, StopCall)
        BY <1>4 DEF StopCAS, StopReady, StopReporters
      <4>2. Began(t, SetCall("ready", FALSE)) \/ Began(t, StopCall)
        BY <1>0, <2>1, <4>1, NoFan, SetReadyBegins, FanBegins, CallFields DEF FieldsOK
      <4> QED
        BY <1>0, <2>5, <4>2 DEF Began
    <3> QED
      BY <2>1, <3>1, <3>2 DEF Due
  <2> QED
    BY <2>4, <2>5
<1>5. CASE Dispatch
  <2>1. last' = last /\ pc[app] = "dispatch" /\ pc'[proc] = "select"
    BY <1>0, <1>f, <1>5 DEF Dispatch, At
  <2> QED
    BY <1>0, <2>1 DEF Due, PcOK
<1>6. CASE Run \/ RunFails \/ InitStartupState \/ RunLive \/ Cancel
  <2>1. last' = last /\ hc' = hc
    BY <1>6 DEF Run, RunFails, InitStartupState, RunLive, Cancel
  <2>2. pc'[proc] = pc[proc]
    BY <1>0, <1>f, <1>6 DEF Run, RunFails, InitStartupState, RunLive, Cancel, Moves
  <2>3. todo'[proc] = todo[proc]
    <3>1. CASE Cancel
      BY <3>1 DEF Cancel, calling
    <3>2. CASE Run \/ RunFails \/ InitStartupState \/ RunLive
      <4>1. Free(app)
        BY <3>2 DEF Run, RunFails, InitStartupState, RunLive, At
      <4>2. \/ UNCHANGED calling \/ Fan(app, RunCall)
            \/ Swap(app, "startup", TRUE) \/ Swap(app, "live", TRUE)
        BY <3>2 DEF Run, RunFails, InitStartupState, RunLive
      <4>3. "live" \in Probes /\ "startup" \in Probes
        BY DEF Probes
      <4>4. \E c : Began(app, c)
        BY <1>0, <4>1, <4>2, <4>3, NoFan, SwapBegins, FanBegins, CallFields DEF FieldsOK
      <4> QED
        BY <1>0, <4>4 DEF Began
    <3> QED
      BY <1>6, <3>1, <3>2
  <2> QED
    BY <2>1, <2>2, <2>3 DEF Due
<1> QED
  BY <1>1, <1>2, <1>3, <1>4, <1>5, <1>6 DEF ManagerInput, ManagerStep

\* Metrics reporters run from the dispatch on until Stop.
RunningInv ==
  /\ mRunning \in [Metrics -> BOOLEAN]
  /\ pc[app] = "dispatch" /\ call[app].op = "Run" =>
       \A r \in Metrics \cap reporters : r \in todo[app] \/ mRunning[r]
  /\ running /\ pc[proc] # "off" => \A r \in Metrics \cap reporters : mRunning[r]

\* No step but Stop's call ends that.
LEMMA RunningStep == CallInv /\ RunningInv /\ [Next]_vars => RunningInv'
<1> SUFFICES ASSUME CallInv, RunningInv, [Next]_vars PROVE RunningInv'
  OBVIOUS
<1>0. CallingOK /\ PcOK /\ FieldsOK /\ app \in Callers /\ proc \in Callers /\ app # proc
      /\ \A t \in Callers : t = app \/ t = proc
  BY TwoCallers DEF CallInv
<1>f. pc \in [Callers -> AppLabels \cup ProcLabels]
  BY <1>0 DEF PcOK
<1>1. CASE UNCHANGED <<mRunning, calling, running, pc>>
  BY <1>1 DEF RunningInv, calling
<1>2. CASE ManagerInput \/ \E t \in Callers : ManagerStep(t)
  <2>1. mRunning' = mRunning /\ reporters' = reporters
    BY <1>2, ManagerFans DEF shown, metrics, calling, Fan
  <2>2. CASE Run
    <3>1. pc[app] = "idle" /\ pc'[app] = "dispatch" /\ pc'[proc] = pc[proc] /\ todo'[app] = reporters
      BY <1>0, <1>f, <2>2 DEF Run, At, Moves, Fan, CallingOK
    <3>2. pc'[proc] = "off"
      BY <1>0, <3>1 DEF PcOK
    <3> QED
      BY <2>1, <3>1, <3>2 DEF RunningInv
  <2>3. CASE Dispatch
    <3>1. /\ pc[app] = "dispatch" /\ pc'[app] = "startup" /\ running' = running
          /\ todo[app] = {} /\ call[app].op = "Run"
      BY <1>0, <1>f, <2>3, CallFields DEF Dispatch, At, Free
    <3> QED
      BY <2>1, <3>1 DEF RunningInv
  <2>4. CASE RunFails
    <3>1. running' = FALSE /\ pc'[app] = "idle"
      BY <1>0, <1>f, <2>4 DEF RunFails, Moves
    <3> QED
      BY <2>1, <3>1 DEF RunningInv
  <2>5. CASE Cancel
    BY <1>1, <2>1, <2>5 DEF Cancel
  <2>6. CASE InitStartupState \/ RunLive
    <3>1. running' = running /\ pc'[app] \in {"live", "up"} /\ pc'[proc] = pc[proc]
      BY <1>0, <1>f, <2>6 DEF InitStartupState, RunLive, Moves
    <3> QED
      BY <2>1, <3>1 DEF RunningInv
  <2>7. ASSUME NEW t \in Callers, StopCAS(t) \/ StopReady(t) \/ StopReporters(t) PROVE RunningInv'
    <3>1. pc[t] \in {"up", "select", "stopReady", "stopReporters"}
      BY <2>7 DEF StopCAS, StopReady, StopReporters, At
    <3>2. ~running'
      <4>1. pc[t] \in Stopping => ~running
        BY <1>0 DEF PcOK
      <4> QED
        BY <2>7, <3>1, <4>1 DEF StopCAS, StopReady, StopReporters, At, Stopping
    <3>3. pc'[app] # "dispatch"
      <4>1. PICK l \in Stopping : pc' = [pc EXCEPT ![t] = l]
        BY <2>7 DEF StopCAS, StopReady, StopReporters, Moves, Stopping
      <4>2. CASE t = app
        BY <1>f, <4>1, <4>2 DEF Stopping
      <4>3. CASE t = proc
        <5>1. pc[app] # "dispatch"
          BY <1>0, <3>1, <4>3 DEF PcOK
        <5> QED
          BY <1>0, <1>f, <4>1, <4>3, <5>1
      <4> QED
        BY <1>0, <4>2, <4>3
    <3> QED
      BY <2>1, <3>2, <3>3 DEF RunningInv
  <2>8. CASE \/ \E k \in Checks, st \in Statuses : Receive(k, st)
             \/ Store \/ Fitness \/ InitialReady \/ Liveness \/ Readiness
    <3>1. running' = running
      BY <2>8 DEF Receive, Store, Fitness, InitialReady, Liveness, Readiness
    <3>2. pc[proc] # "off"
      BY <2>8 DEF Receive, Store, Fitness, InitialReady, Liveness, Readiness, At
    <3>3. pc'[app] = pc[app]
      BY <1>0, <1>f, <2>8 DEF Receive, Store, Fitness, InitialReady, Liveness, Readiness, Moves
    <3>4. pc[app] # "dispatch"
      BY <1>0, <3>2 DEF PcOK
    <3> QED
      BY <2>1, <3>1, <3>2, <3>3, <3>4 DEF RunningInv
  <2> QED
    BY <1>2, <2>2, <2>3, <2>4, <2>5, <2>6, <2>7, <2>8 DEF ManagerInput, ManagerStep
<1>3. CASE ServerStep \/ UNCHANGED vars
  <2>1. UNCHANGED <<mRunning, calling, running, pc>>
    BY <1>3 DEF ServerStep, vars, metrics, manager
  <2> QED
    BY <1>1, <2>1
<1>4. ASSUME NEW t \in Callers, ReporterStep(t) PROVE RunningInv'
  <2>0. pc' = pc /\ running' = running
    BY <1>4 DEF ReporterStep, manager
  <2>1. ASSUME NEW r, Moved(t, r), mRunning' = mRunning, r \notin Metrics \/ call[t].op # "Run"
        PROVE  RunningInv'
    <3>1. reporters' = reporters
      BY <2>1 DEF Moved
    <3>2. call'[app].op = "Run" => call[app].op = "Run" /\ \A m \in Metrics : m \in todo[app] => m \in todo'[app]
      BY <1>0, <2>1, CallFields DEF Moved
    <3> QED
      BY <2>0, <2>1, <3>1, <3>2 DEF RunningInv
  <2>2. CASE GRPCStep(t) /\ UNCHANGED <<metrics, console, recorder>>
    BY <1>0, <2>1, <2>2, GRPCMoves, Names DEF metrics
  <2>3. CASE StdoutStep(t) /\ UNCHANGED <<service, metrics, recorder>>
    BY <1>0, <2>1, <2>3, StdoutMoves, Names DEF metrics
  <2>4. CASE TestStep(t) /\ UNCHANGED <<service, metrics, console>>
    BY <1>0, <2>1, <2>4, TestMoves, Names DEF metrics
  <2>5. ASSUME NEW r \in Metrics, MetricsRun(t, r) PROVE RunningInv'
    <3>1. /\ mRunning' = [mRunning EXCEPT ![r] = TRUE] /\ Returns(t, r)
          /\ reporters' = reporters /\ call' = call
      BY <2>5 DEF MetricsRun, Returns
    <3>2. \A m \in Metrics : mRunning'[m] = (m = r \/ mRunning[m])
      BY <3>1 DEF RunningInv
    <3>3. \A m \in Metrics \ {r} : m \in todo[app] => m \in todo'[app]
      BY <1>0, <3>1 DEF Returns, CallingOK
    <3>4. mRunning' \in [Metrics -> BOOLEAN]
      BY <3>1 DEF RunningInv
    <3> QED
      BY <2>0, <3>1, <3>2, <3>3, <3>4 DEF RunningInv
  <2>6. ASSUME NEW r \in Metrics, MetricsStop(t, r) PROVE RunningInv'
    <3>1. call[t].op = "Stop" /\ todo[t] # {} /\ mRunning' = [mRunning EXCEPT ![r] = FALSE]
      BY <2>6 DEF MetricsStop, Starts
    <3>2. ~running /\ pc[proc] # "off"
      BY <3>1, RunStopFields
    <3>3. pc[app] # "dispatch"
      BY <1>0, <3>2 DEF PcOK
    <3>4. mRunning' \in [Metrics -> BOOLEAN]
      BY <3>1 DEF RunningInv
    <3> QED
      BY <2>0, <3>2, <3>3, <3>4 DEF RunningInv
  <2>7. ASSUME NEW r \in Metrics, \/ MetricsStore(t, r) \/ MetricsGauge(t, r)
                                  \/ MetricsUpdate(t, r) \/ MetricsRecord(t, r)
        PROVE  RunningInv'
    <3>1. Moved(t, r) /\ mRunning' = mRunning
      BY <1>0, <2>7, MetricsMoves DEF MetricsStore, MetricsGauge, MetricsUpdate, MetricsRecord, metrics
    <3>2. \A l : In(t, r, l) /\ l # "none" => call[t].op # "Run"
      BY <1>0, <2>7, InWithin, Names DEF Within
    <3>3. call[t].op # "Run"
      BY <2>7, <3>2 DEF MetricsStore, MetricsGauge, MetricsUpdate, MetricsRecord, Starts
    <3> QED
      BY <2>1, <3>1, <3>3
  <2> QED
    BY <1>4, <2>2, <2>3, <2>4, <2>5, <2>6, <2>7 DEF ReporterStep, MetricsStep
<1> QED
  BY <1>2, <1>3, <1>4 DEF Next

\* At the start none of them runs.
LEMMA RunningInit == Init => RunningInv
<1> SUFFICES ASSUME Init PROVE RunningInv
  OBVIOUS
<1>1. pc[app] = "idle" /\ pc[proc] = "off" /\ mRunning \in [Metrics -> BOOLEAN]
  BY TwoCallers DEF Init, MetricsInit
<1> QED
  BY <1>1 DEF RunningInv

\* Metrics reporters run while the manager does.
LEMMA RunningInvariance == Spec => []RunningInv
BY RunningInit, RunningStep, CallInvariance, PTL DEF Spec

\* What reporters hold are results.
LEMMA HoldTypesStep == CallInv /\ HoldTypes /\ [Next]_vars => HoldTypes'
<1> SUFFICES ASSUME CallInv, HoldTypes, [Next]_vars PROVE HoldTypes'
  OBVIOUS
<1>0. CallingOK
  BY DEF CallInv
<1>1. CASE UNCHANGED <<gHcs, sHcs, tHc, mHcs>>
  BY <1>1 DEF HoldTypes
<1>2. ASSUME NEW t \in Callers, call[t].op = "Update", todo[t] # {}
      PROVE  call[t].key \in Checks /\ call[t].res \in Results
  BY <1>2, UpdateFields
<1>3. CASE ManagerInput \/ (\E t \in Callers : ManagerStep(t)) \/ ServerStep \/ UNCHANGED vars
  <2>1. gHcs' = gHcs
    BY <1>3 DEF ManagerInput, ManagerStep, ServerStep, ServeStarts, GRPCEnvironment, ServeFails, Ask,
                Handler, LoadLive, LoadReady, Lookup, List, Send, service, fields, vars
  <2> QED
    BY <1>1, <1>3, <2>1 DEF ManagerInput, ManagerStep, ServerStep, metrics, console, recorder, vars
<1>4. ASSUME NEW t \in Callers, ReporterStep(t) PROVE HoldTypes'
  <2>1. CASE GRPCStep(t) /\ UNCHANGED <<metrics, console, recorder>>
    <3>1. gHcs' = gHcs \/ GRPCUpdate(t)
      BY <2>1 DEF GRPCStep, GRPCRun, GRPCListen, GRPCListenFails, GRPCStop, GracefulStop, Drained,
                  GRPCSet, service, fields
    <3>2. gHcs' \in [Checks -> Results]
      BY <1>2, <3>1 DEF GRPCUpdate, Starts, HoldTypes
    <3> QED
      BY <2>1, <3>2 DEF HoldTypes, metrics, console, recorder
  <2>2. CASE StdoutStep(t) /\ UNCHANGED <<service, metrics, recorder>>
    <3>1. sHcs' \in [Checks -> Results]
      BY <1>2, <2>2 DEF StdoutStep, StdoutRunStop, StdoutSet, StdoutUpdate, Starts, console, HoldTypes
    <3> QED
      BY <2>2, <3>1 DEF HoldTypes, metrics, service, fields, recorder
  <2>3. CASE TestStep(t) /\ UNCHANGED <<service, metrics, console>>
    <3>1. tHc' \in [Checks -> Results]
      BY <1>2, <2>3 DEF TestStep, TestRunStop, TestStore, TestCount, TestUpdate, Starts, HoldTypes
    <3> QED
      BY <2>3, <3>1 DEF HoldTypes, metrics, service, fields, console
  <2>4. CASE MetricsStep(t) /\ UNCHANGED <<service, console, recorder>>
    <3>1. PICK r \in Metrics : \/ MetricsRun(t, r) \/ MetricsStop(t, r) \/ MetricsStore(t, r)
                               \/ MetricsGauge(t, r) \/ MetricsUpdate(t, r) \/ MetricsRecord(t, r)
      BY <2>4 DEF MetricsStep
    <3>2. CASE MetricsRecord(t, r)
      <4>1. In(t, r, "record") /\ mHcs' = [mHcs EXCEPT ![r][call[t].key] = call[t].res]
        BY <3>2 DEF MetricsRecord
      <4>2. call[t].op = "Update" /\ todo[t] # {}
        BY <1>0, <4>1, InWithin, Names DEF Within
      <4>3. mHcs' \in [Metrics -> [Checks -> Results]]
        BY <1>2, <4>1, <4>2 DEF HoldTypes
      <4> QED
        BY <2>4, <4>3 DEF HoldTypes, service, fields, console, recorder
    <3>3. CASE ~MetricsRecord(t, r)
      <4>1. mHcs' = mHcs
        BY <3>1, <3>3 DEF MetricsRun, MetricsStop, MetricsStore, MetricsGauge, MetricsUpdate, metrics
      <4> QED
        BY <2>4, <4>1 DEF HoldTypes, service, fields, console, recorder
    <3> QED
      BY <3>2, <3>3
  <2> QED
    BY <1>4, <2>1, <2>2, <2>3, <2>4 DEF ReporterStep
<1> QED
  BY <1>3, <1>4 DEF Next

\* At the start they hold nothing.
LEMMA HoldTypesInit == Init => HoldTypes
<1>1. NoResults \in [Checks -> Results]
  BY FanoutAssumption DEF NoResults, NoResult, Results
<1> QED
  BY <1>1 DEF Init, GRPCInit, StdoutInit, TestInit, MetricsInit, HoldTypes

\* Reporters hold what they are due; a metrics reporter only while it runs, and it gets
\* its first result after it was started.
HoldInv ==
  /\ pc[proc] = "off" => last = NoResults /\ mHcs = [r \in Metrics |-> NoResults]
  /\ grpc \in reporters => gHcs = Due(grpc)
  /\ stdout \in reporters => sHcs = Due(stdout)
  /\ tester \in reporters => tHc = Due(tester)
  /\ \A r \in reporters \cap Metrics :
       mRunning[r] \/ In(proc, r, "record") => mHcs[r] = Due(r)

\* A method of r changes what r is due if it was given a result.
LEMMA DueMoves ==
  ASSUME CallInv, NEW t \in Callers, NEW r, Moved(t, r), UNCHANGED manager
  PROVE  /\ \A q : q # r => Due(q)' = Due(q)
         /\ todo[t] # {} /\ call[t].op # "Update" => Due(r)' = Due(r)
         /\ \A q \in Metrics : q # r => (In(proc, q, "record")' => In(proc, q, "record"))
<1>0. pc' = pc /\ last' = last /\ hc' = hc
  BY DEF manager
<1>1. proc \in Callers /\ CallOK(proc)
  BY TwoCallers DEF CallInv
<1>2. CASE t # proc
  <2>1. todo'[proc] = todo[proc] /\ at'[proc] = at[proc]
    BY <1>1, <1>2 DEF Moved
  <2> QED
    BY <1>0, <2>1 DEF Due, In
<1>3. CASE t = proc
  <2>1. call[proc] = UpdateCall(hc.key, hc.res) => call[proc].op = "Update"
    BY DEF UpdateCall, NoCall
  <2>2. call[proc].op = "Run" /\ todo[proc] # {} => pc[proc] = "off"
    BY <1>1, RunStopFields
  <2>3. pc[proc] = "store" /\ todo[proc] # {} => call[proc].op = "Update"
    BY <1>1, <2>1, TwoCallers DEF CallOK
  <2>4. pc[proc] = "store" => todo'[proc] \in {todo[proc], todo[proc] \ {r}}
    <3>1. CASE todo[proc] = {}
      BY <1>3, <3>1 DEF Moved
    <3>2. CASE todo[proc] # {}
      BY <1>3, <2>2, <2>3, <3>2 DEF Moved
    <3> QED
      BY <3>1, <3>2
  <2>5. \A q : q # r => Due(q)' = Due(q)
    BY <1>0, <2>4 DEF Due
  <2>6. todo[t] # {} /\ call[t].op # "Update" => Due(r)' = Due(r)
    BY <1>0, <1>3, <2>3 DEF Due
  <2>7. \A q \in Metrics : q # r => ~In(proc, q, "record")'
    <3>1. \A l : <<r, l>>[1] = r /\ Nowhere[2] = "none"
      BY DEF Nowhere
    <3>2. \A q \in Metrics : In(proc, q, "record")' => at'[proc][1] = q /\ at'[proc][2] = "record"
      BY DEF In
    <3> QED
      BY <1>3, <3>1, <3>2 DEF Moved
  <2> QED
    BY <2>5, <2>6, <2>7
<1> QED
  BY <1>2, <1>3

\* A step of r that gives nobody a result.
LEMMA HoldMoves ==
  ASSUME CallInv, HoldInv, NEW t \in Callers, NEW r, Moved(t, r), UNCHANGED manager,
         todo[t] # {}, call[t].op # "Update", UNCHANGED <<gHcs, sHcs, tHc, mHcs>>,
         \A m \in Metrics : mRunning'[m] => mRunning[m]
  PROVE  HoldInv'
<1>0. pc' = pc /\ last' = last /\ reporters' = reporters
  BY DEF manager, Moved
<1>1. \A q : Due(q)' = Due(q)
  BY DueMoves
<1>2. ASSUME NEW m \in Metrics PROVE In(proc, m, "record")' => In(proc, m, "record")
  <2>1. CASE t # proc
    BY <2>1, TwoCallers DEF Moved, In
  <2>2. CASE t = proc
    <3>1. call'[proc].op # "Update"
      BY <2>2, CallFields DEF Moved
    <3>2. AtOK(proc)'
      BY TwoCallers DEF Moved, CallingOK
    <3>3. ~In(proc, m, "record")'
      BY <3>1, <3>2, Names DEF AtOK, In, Nowhere
    <3> QED
      BY <3>3
  <2> QED
    BY <2>1, <2>2
<1> QED
  BY <1>0, <1>1, <1>2 DEF HoldInv

\* A reporter that is given the result holds what it is due.
LEMMA DueUpdated ==
  ASSUME CallInv, NEW t \in Callers, NEW r \in reporters, call[t].op = "Update", r \in todo[t],
         Returns(t, r), UNCHANGED manager
  PROVE  /\ t = proc /\ pc[proc] = "store" /\ Due(r) = last
         /\ Due(r)' = [last EXCEPT ![call[t].key] = call[t].res]
         /\ \A q : ~In(proc, q, "record")'
<1>1. /\ t = proc /\ pc[proc] = "store" /\ call[t].key = hc.key /\ call[t].res = hc.res
  BY UpdateFields
<1>2. pc' = pc /\ last' = last /\ hc' = hc
  BY DEF manager
<1>3. CallingOK
  BY DEF CallInv
<1>4. todo'[t] = todo[t] \ {r} /\ at'[t] = Nowhere
  BY <1>3 DEF Returns, CallingOK
<1> QED
  BY <1>1, <1>2, <1>4 DEF Due, In, Nowhere

\* No step makes a reporter hold other results.
LEMMA HoldStep == CallInv /\ HoldTypes /\ HoldInv /\ RunningInv /\ [Next]_vars => HoldInv'
<1> SUFFICES ASSUME CallInv, HoldTypes, HoldInv, RunningInv, [Next]_vars PROVE HoldInv'
  OBVIOUS
<1>0. CallingOK /\ proc \in Callers
  BY TwoCallers DEF CallInv
<1>1. CASE ManagerInput \/ \E t \in Callers : ManagerStep(t)
  <2>1. UNCHANGED <<gHcs, sHcs, tHc, mHcs, mRunning>> /\ reporters' = reporters /\ at' = at
    BY <1>1, ManagerFans DEF shown, service, fields, metrics, console, recorder, calling, Fan
  <2>2. \A r \in reporters : Due(r)' = Due(r)
    BY <1>1, ManagerDue
  <2>3. pc'[proc] = "off" => pc[proc] = "off" /\ last' = last
    BY <1>1, ManagerDue
  <2> QED
    BY <2>1, <2>2, <2>3 DEF HoldInv, In
<1>2. CASE ServerStep \/ UNCHANGED vars
  <2>1. UNCHANGED <<calling, manager, sHcs, tHc, mHcs, mRunning>>
    BY <1>2 DEF ServerStep, vars, metrics, console, recorder
  <2>2. gHcs' = gHcs
    BY <1>2 DEF ServerStep, ServeStarts, GRPCEnvironment, ServeFails, Ask, Handler, LoadLive,
                LoadReady, Lookup, List, Send, service, fields, vars
  <2> QED
    BY <2>1, <2>2 DEF HoldInv, Due, In, calling, manager
<1>3. ASSUME NEW t \in Callers, ReporterStep(t) PROVE HoldInv'
  <2>0. UNCHANGED manager /\ pc' = pc /\ last' = last
    BY <1>3 DEF ReporterStep, manager
  <2>1. CASE GRPCStep(t) /\ UNCHANGED <<metrics, console, recorder>>
    <3>0. Moved(t, grpc) /\ UNCHANGED <<sHcs, tHc, mHcs, mRunning>>
      BY <1>0, <2>1, GRPCMoves DEF metrics, console, recorder
    <3>1. CASE GRPCUpdate(t)
      <4>1. /\ call[t].op = "Update" /\ grpc \in todo[t] /\ Returns(t, grpc)
            /\ gHcs' = [gHcs EXCEPT ![call[t].key] = call[t].res]
        BY <3>1 DEF GRPCUpdate, Starts
      <4>2. grpc \in reporters /\ reporters' = reporters
        BY <1>0, <4>1 DEF CallingOK, Returns
      <4>3. /\ pc[proc] = "store" /\ Due(grpc) = last
            /\ Due(grpc)' = [last EXCEPT ![call[t].key] = call[t].res]
        BY <2>0, <4>1, <4>2, DueUpdated
      <4>4. gHcs' = Due(grpc)'
        BY <4>1, <4>2, <4>3 DEF HoldInv
      <4>5. /\ \A q : q # grpc => Due(q)' = Due(q)
            /\ \A q \in Metrics : q # grpc => (In(proc, q, "record")' => In(proc, q, "record"))
        BY <2>0, <3>0, DueMoves
      <4> QED
        BY <2>0, <3>0, <4>2, <4>3, <4>4, <4>5, Names DEF HoldInv
    <3>2. CASE ~GRPCUpdate(t)
      <4>1. gHcs' = gHcs
        BY <2>1, <3>2 DEF GRPCStep, GRPCRun, GRPCListen, GRPCListenFails, GRPCStop, GracefulStop,
                          Drained, GRPCSet, service, fields
      <4>2. \A l : In(t, grpc, l) /\ l # "none" => todo[t] # {} /\ call[t].op # "Update"
        BY <1>0, InWithin, Names DEF Within
      <4>3. todo[t] # {} /\ call[t].op # "Update"
        BY <2>1, <3>2, <4>2 DEF GRPCStep, GRPCRun, GRPCListen, GRPCListenFails, GRPCStop,
                                GracefulStop, Drained, GRPCSet, Starts
      <4> QED
        BY <2>0, <3>0, <4>1, <4>3, HoldMoves
    <3> QED
      BY <3>1, <3>2
  <2>2. CASE StdoutStep(t) /\ UNCHANGED <<service, metrics, recorder>>
    <3>0. Moved(t, stdout) /\ UNCHANGED <<gHcs, tHc, mHcs, mRunning>>
      BY <1>0, <2>2, StdoutMoves DEF metrics, service, fields, recorder
    <3>1. CASE StdoutUpdate(t)
      <4>1. /\ call[t].op = "Update" /\ stdout \in todo[t] /\ Returns(t, stdout)
            /\ sHcs' = [sHcs EXCEPT ![call[t].key] = call[t].res]
        BY <3>1 DEF StdoutUpdate, Starts
      <4>2. stdout \in reporters /\ reporters' = reporters
        BY <1>0, <4>1 DEF CallingOK, Returns
      <4>3. /\ pc[proc] = "store" /\ Due(stdout) = last
            /\ Due(stdout)' = [last EXCEPT ![call[t].key] = call[t].res]
        BY <2>0, <4>1, <4>2, DueUpdated
      <4>4. sHcs' = Due(stdout)'
        BY <4>1, <4>2, <4>3 DEF HoldInv
      <4>5. /\ \A q : q # stdout => Due(q)' = Due(q)
            /\ \A q \in Metrics : q # stdout => (In(proc, q, "record")' => In(proc, q, "record"))
        BY <2>0, <3>0, DueMoves
      <4> QED
        BY <2>0, <3>0, <4>2, <4>3, <4>4, <4>5, Names DEF HoldInv
    <3>2. CASE ~StdoutUpdate(t)
      <4>1. sHcs' = sHcs /\ todo[t] # {} /\ call[t].op # "Update"
        BY <2>2, <3>2 DEF StdoutStep, StdoutRunStop, StdoutSet, console, Starts
      <4> QED
        BY <2>0, <3>0, <4>1, HoldMoves
    <3> QED
      BY <3>1, <3>2
  <2>3. CASE TestStep(t) /\ UNCHANGED <<service, metrics, console>>
    <3>0. Moved(t, tester) /\ UNCHANGED <<gHcs, sHcs, mHcs, mRunning>>
      BY <1>0, <2>3, TestMoves DEF metrics, service, fields, console
    <3>1. CASE TestUpdate(t)
      <4>1. /\ call[t].op = "Update" /\ tester \in todo[t] /\ Returns(t, tester)
            /\ tHc' = [tHc EXCEPT ![call[t].key] = call[t].res]
        BY <3>1 DEF TestUpdate, Starts
      <4>2. tester \in reporters /\ reporters' = reporters
        BY <1>0, <4>1 DEF CallingOK, Returns
      <4>3. /\ pc[proc] = "store" /\ Due(tester) = last
            /\ Due(tester)' = [last EXCEPT ![call[t].key] = call[t].res]
        BY <2>0, <4>1, <4>2, DueUpdated
      <4>4. tHc' = Due(tester)'
        BY <4>1, <4>2, <4>3 DEF HoldInv
      <4>5. /\ \A q : q # tester => Due(q)' = Due(q)
            /\ \A q \in Metrics : q # tester => (In(proc, q, "record")' => In(proc, q, "record"))
        BY <2>0, <3>0, DueMoves
      <4> QED
        BY <2>0, <3>0, <4>2, <4>3, <4>4, <4>5, Names DEF HoldInv
    <3>2. CASE ~TestUpdate(t)
      <4>1. tHc' = tHc
        BY <2>3, <3>2 DEF TestStep, TestRunStop, TestStore, TestCount
      <4>2. In(t, tester, "boop") => todo[t] # {} /\ call[t].op # "Update"
        BY <1>0, InWithin, Names DEF Within
      <4>3. todo[t] # {} /\ call[t].op # "Update"
        BY <2>3, <3>2, <4>2 DEF TestStep, TestRunStop, TestStore, TestCount, Starts
      <4> QED
        BY <2>0, <3>0, <4>1, <4>3, HoldMoves
    <3> QED
      BY <3>1, <3>2
  <2>4. CASE MetricsStep(t) /\ UNCHANGED <<service, console, recorder>>
    <3>0. PICK r \in Metrics : \/ MetricsRun(t, r) \/ MetricsStop(t, r) \/ MetricsStore(t, r)
                               \/ MetricsGauge(t, r) \/ MetricsUpdate(t, r) \/ MetricsRecord(t, r)
      BY <2>4 DEF MetricsStep
    <3>1. Moved(t, r) /\ UNCHANGED <<gHcs, sHcs, tHc>> /\ reporters' = reporters
      BY <1>0, <2>4, <3>0, MetricsMoves DEF service, fields, console, recorder, Moved
    <3>2. /\ \A q : q # r => Due(q)' = Due(q)
          /\ \A q \in Metrics : q # r => (In(proc, q, "record")' => In(proc, q, "record"))
      BY <2>0, <3>1, DueMoves
    <3>3. CASE MetricsRun(t, r)
      <4>1. call[t].op = "Run" /\ todo[t] # {} /\ mHcs' = mHcs
        BY <3>3 DEF MetricsRun, Starts
      <4>2. pc[proc] = "off"
        BY <4>1, RunStopFields
      <4>3. /\ \A q : Due(q)' = last /\ Due(q) = last
            /\ last = NoResults /\ mHcs = [m \in Metrics |-> NoResults]
        BY <2>0, <4>2 DEF Due, HoldInv
      <4>4. \A m \in Metrics : mHcs'[m] = Due(m)'
        BY <4>1, <4>3
      <4> QED
        BY <2>0, <3>1, <4>1, <4>3, <4>4 DEF HoldInv
    <3>4. CASE MetricsStop(t, r) \/ MetricsStore(t, r) \/ MetricsGauge(t, r)
      <4>1. mHcs' = mHcs
        BY <3>4 DEF MetricsStop, MetricsStore, MetricsGauge
      <4>2. In(t, r, "gauge") => todo[t] # {} /\ call[t].op # "Update"
        BY <1>0, InWithin, Names DEF Within
      <4>3. todo[t] # {} /\ call[t].op # "Update"
        BY <3>4, <4>2 DEF MetricsStop, MetricsStore, MetricsGauge, Starts
      <4>4. \A m \in Metrics : mRunning'[m] => mRunning[m]
        BY <3>4 DEF MetricsStop, MetricsStore, MetricsGauge, RunningInv
      <4> QED
        BY <2>0, <3>1, <4>1, <4>3, <4>4, HoldMoves
    <3>5. CASE MetricsUpdate(t, r)
      <4>1. /\ r \in todo[t] /\ call[t].op = "Update" /\ UNCHANGED <<mHcs, mRunning>>
            /\ IF mRunning[r] THEN Goto(t, r, "record") ELSE Returns(t, r)
        BY <3>5 DEF MetricsUpdate, Starts, metrics
      <4>2. r \in reporters
        BY <1>0, <4>1 DEF CallingOK
      <4>3. mRunning'[r] \/ In(proc, r, "record")' => mHcs'[r] = Due(r)'
        <5>1. CASE mRunning[r]
          <6>1. Due(r)' = Due(r)
            BY <2>0, <4>1, <5>1 DEF Goto, Due, manager
          <6> QED
            BY <4>1, <4>2, <5>1, <6>1 DEF HoldInv
        <5>2. CASE ~mRunning[r]
          <6>1. ~In(proc, r, "record")'
            BY <2>0, <4>1, <4>2, <5>2, DueUpdated
          <6> QED
            BY <4>1, <5>2, <6>1
        <5> QED
          BY <5>1, <5>2
      <4> QED
        BY <2>0, <3>1, <3>2, <4>1, <4>3, Names DEF HoldInv
    <3>6. CASE MetricsRecord(t, r)
      <4>1. /\ In(t, r, "record") /\ Returns(t, r) /\ mRunning' = mRunning
            /\ mHcs' = [mHcs EXCEPT ![r][call[t].key] = call[t].res]
        BY <3>6 DEF MetricsRecord
      <4>2. call[t].op = "Update" /\ r \in todo[t]
        BY <1>0, <4>1, InWithin, Names DEF Within
      <4>3. r \in reporters
        BY <1>0, <4>2 DEF CallingOK
      <4>4. /\ t = proc /\ pc[proc] = "store" /\ Due(r) = last
            /\ Due(r)' = [last EXCEPT ![call[t].key] = call[t].res]
        BY <2>0, <4>1, <4>2, <4>3, DueUpdated
      <4>5. mHcs'[r] = Due(r)'
        BY <4>1, <4>3, <4>4 DEF HoldInv, HoldTypes
      <4>6. \A m \in Metrics : m # r => mHcs'[m] = mHcs[m]
        BY <4>1 DEF HoldTypes
      <4> QED
        BY <2>0, <3>1, <3>2, <4>1, <4>4, <4>5, <4>6, Names DEF HoldInv
    <3> QED
      BY <3>0, <3>3, <3>4, <3>5, <3>6
  <2> QED
    BY <1>3, <2>1, <2>2, <2>3, <2>4 DEF ReporterStep
<1> QED
  BY <1>1, <1>2, <1>3 DEF Next

\* At the start nothing was stored.
LEMMA HoldInit == Init => HoldInv
<1> SUFFICES ASSUME Init PROVE HoldInv
  OBVIOUS
<1>1. pc[proc] = "off"
  BY TwoCallers DEF Init
<1>2. /\ gHcs = NoResults /\ sHcs = NoResults /\ tHc = NoResults /\ last = NoResults
      /\ mHcs = [r \in Metrics |-> NoResults]
  BY DEF Init, GRPCInit, StdoutInit, TestInit, MetricsInit
<1>3. \A r : Due(r) = NoResults
  BY <1>1, <1>2 DEF Due
<1> QED
  BY <1>2, <1>3 DEF HoldInv

\* Reporters always hold what they are due.
LEMMA HoldInvariance == Spec => [](HoldTypes /\ HoldInv)
BY HoldTypesInit, HoldTypesStep, HoldInit, HoldStep, RunningInvariance, CallInvariance, PTL DEF Spec

\* ReportersAgree: with no announcement under way every reporter shows the probes that
\* were not raced as the manager has them, and holds the results that it stored.
THEOREM ReportersDoAgree == Spec => []ReportersAgree
<1>1. CallInv /\ AgreeInv /\ ShowTypes /\ HoldInv /\ RunningInv => ReportersAgree
  <2> SUFFICES ASSUME CallInv, AgreeInv, HoldInv, RunningInv, Quiet, running, pc[proc] # "store",
                      NEW r \in reporters
               PROVE  /\ \A p \in Probes \ raced : Shows(r, p) = {flag[p]}
                      /\ pc[proc] # "off" => Holds(r) = last
    BY DEF ReportersAgree
  <2>1. ASSUME NEW p \in Probes \ raced PROVE Shows(r, p) = {flag[p]}
    <3>1. Clear(r, p)
      BY DEF Clear, Announces, Quiet
    <3> QED
      BY <3>1 DEF AgreeInv, AgreeOn
  <2>2. ASSUME pc[proc] # "off" PROVE Holds(r) = last
    <3>1. Due(r) = last
      BY DEF Due
    <3>2. r \in Metrics \/ r \in {grpc, stdout, tester}
      BY ReporterNames DEF CallInv
    <3>3. CASE r \in Metrics
      <4>1. mRunning[r]
        BY <2>2, <3>3 DEF RunningInv
      <4>2. mHcs[r] = last
        BY <3>1, <3>3, <4>1 DEF HoldInv
      <4> QED
        BY <3>3, <4>2, Names DEF Holds
    <3>4. CASE r \in {grpc, stdout, tester}
      BY <3>1, <3>4, Names DEF HoldInv, Holds
    <3> QED
      BY <3>2, <3>3, <3>4
  <2> QED
    BY <2>1, <2>2
<1> QED
  BY <1>1, CallInvariance, AgreeInvariance, HoldInvariance, RunningInvariance, PTL

-----------------------------------------------------------------------------
(* What the metrics reporters export.                                       *)

CountTypes ==
  /\ checkGauge \in [Metrics -> [Checks -> 0 .. 2]]
  /\ checkCount \in [Metrics -> [Checks -> [Statuses -> Nat]]]

\* The executions of check k that reporter r counted.
Counted(r, k) ==
  checkCount[r][k]["healthy"] + checkCount[r][k]["degraded"] + checkCount[r][k]["unhealthy"]

\* The instruments follow the results held: each was counted, the last one is shown.
CountInv ==
  \A r \in Metrics, k \in Checks :
    /\ mHcs[r][k] # NoResult => checkGauge[r][k] = Documented[mHcs[r][k].status]
    /\ Counted(r, k) = mHcs[r][k].n

\* The code's numbers for the statuses are the documented ones.
LEMMA StatusDocumented ==
  \A s \in Statuses : StatusValue(s) = Documented[s] /\ StatusValue(s) \in 0 .. 2
BY DEF Statuses, StatusValue, Documented

\* Only the export of a result changes what is held and exported, together.
LEMMA CountStep ==
  CallInv /\ HoldTypes /\ HoldInv /\ CountTypes /\ CountInv /\ [Next]_vars
    => CountTypes' /\ CountInv'
<1> SUFFICES ASSUME CallInv, HoldTypes, HoldInv, CountTypes, CountInv, [Next]_vars
             PROVE  CountTypes' /\ CountInv'
  OBVIOUS
<1>0. CallingOK
  BY DEF CallInv
<1>1. CASE UNCHANGED <<mHcs, checkGauge, checkCount>>
  BY <1>1 DEF CountTypes, CountInv, Counted
<1>2. ASSUME NEW t \in Callers, NEW r \in Metrics, MetricsRecord(t, r), UNCHANGED manager
      PROVE  CountTypes' /\ CountInv'
  <2>0. In(t, r, "record") /\ Returns(t, r)
    BY <1>2 DEF MetricsRecord
  <2>2. call[t].op = "Update" /\ r \in todo[t]
    BY <1>0, <2>0, InWithin, Names DEF Within
  <2>3. PICK k \in Checks, s \in Statuses, res \in Results :
          /\ k = call[t].key /\ res = call[t].res /\ s = res.status
          /\ t = proc /\ res.n = last[k].n + 1
    BY <2>2, UpdateFields
  <2>1. /\ mHcs' = [mHcs EXCEPT ![r][k] = res]
        /\ checkGauge' = [checkGauge EXCEPT ![r][k] = StatusValue(s)]
        /\ checkCount' = [checkCount EXCEPT ![r][k][s] = @ + 1]
    BY <1>2, <2>3 DEF MetricsRecord, Export
  <2>4. r \in reporters
    BY <1>0, <2>2 DEF CallingOK
  <2>5. mHcs[r] = last
    BY <1>2, <2>0, <2>2, <2>3, <2>4, DueUpdated DEF HoldInv
  <2>6. StatusValue(s) = Documented[s] /\ StatusValue(s) \in 0 .. 2
    BY <2>3, StatusDocumented
  <2>7. CountTypes'
    <3>1. checkGauge' \in [Metrics -> [Checks -> 0 .. 2]]
      BY <2>1, <2>3, <2>6 DEF CountTypes
    <3>2. checkCount[r][k][s] + 1 \in Nat
      BY <2>3 DEF CountTypes
    <3>3. checkCount' \in [Metrics -> [Checks -> [Statuses -> Nat]]]
      BY <2>1, <2>3, <3>2 DEF CountTypes
    <3> QED
      BY <3>1, <3>3 DEF CountTypes
  <2>8. ASSUME NEW m \in Metrics, NEW j \in Checks, m # r \/ j # k
        PROVE  /\ mHcs'[m][j] = mHcs[m][j] /\ checkGauge'[m][j] = checkGauge[m][j]
               /\ checkCount'[m][j] = checkCount[m][j]
    BY <2>1, <2>8 DEF CountTypes, HoldTypes
  <2>9. mHcs'[r][k] = res /\ checkGauge'[r][k] = Documented[s]
    BY <2>1, <2>3, <2>6 DEF CountTypes, HoldTypes
  <2>10. Counted(r, k)' = Counted(r, k) + 1
    <3>1. checkCount'[r][k] = [checkCount[r][k] EXCEPT ![s] = @ + 1]
      BY <2>1, <2>3 DEF CountTypes
    <3>2. checkCount[r][k] \in [Statuses -> Nat]
      BY <2>3 DEF CountTypes
    <3> QED
      BY <2>3, <3>1, <3>2 DEF Counted, Statuses
  <2>11. Counted(r, k)' = res.n
    BY <2>3, <2>5, <2>10 DEF CountInv
  <2>12. ASSUME NEW m \in Metrics, NEW j \in Checks
         PROVE  /\ mHcs'[m][j] # NoResult => checkGauge'[m][j] = Documented[mHcs'[m][j].status]
                /\ Counted(m, j)' = mHcs'[m][j].n
    <3>1. CASE m = r /\ j = k
      BY <2>3, <2>9, <2>11, <3>1
    <3>2. CASE m # r \/ j # k
      BY <2>8, <3>2 DEF CountInv, Counted
    <3> QED
      BY <3>1, <3>2
  <2> QED
    BY <2>7, <2>12 DEF CountInv
<1>3. CASE ManagerInput \/ (\E t \in Callers : ManagerStep(t)) \/ ServerStep \/ UNCHANGED vars
  BY <1>1, <1>3 DEF ManagerInput, ManagerStep, ServerStep, metrics, vars
<1>4. ASSUME NEW t \in Callers, ReporterStep(t) PROVE CountTypes' /\ CountInv'
  <2>1. CASE UNCHANGED metrics
    BY <1>1, <2>1 DEF metrics
  <2>2. ASSUME NEW r \in Metrics, \/ MetricsRun(t, r) \/ MetricsStop(t, r) \/ MetricsStore(t, r)
                                  \/ MetricsGauge(t, r) \/ MetricsUpdate(t, r)
        PROVE  CountTypes' /\ CountInv'
    BY <1>1, <2>2 DEF MetricsRun, MetricsStop, MetricsStore, MetricsGauge, MetricsUpdate, metrics
  <2>3. UNCHANGED manager
    BY <1>4 DEF ReporterStep
  <2> QED
    BY <1>2, <1>4, <2>1, <2>2, <2>3 DEF ReporterStep, MetricsStep
<1> QED
  BY <1>3, <1>4 DEF Next

\* At the start nothing was counted.
LEMMA CountInit == Init => CountTypes /\ CountInv
<1> SUFFICES ASSUME Init PROVE CountTypes /\ CountInv
  OBVIOUS
<1>1. /\ checkGauge = [r \in Metrics |-> [k \in Checks |-> 0]]
      /\ checkCount = [r \in Metrics |-> [k \in Checks |-> [s \in Statuses |-> 0]]]
      /\ mHcs = [r \in Metrics |-> NoResults]
  BY DEF Init, MetricsInit, InstrumentsInit
<1>2. CountTypes
  BY <1>1 DEF CountTypes
<1>3. ASSUME NEW r \in Metrics, NEW k \in Checks PROVE mHcs[r][k] = NoResult /\ Counted(r, k) = 0
  BY <1>1 DEF Counted, NoResults, Statuses
<1> QED
  BY <1>2, <1>3 DEF CountInv, NoResult

\* Instruments always follow the results held.
LEMMA CountInvariance == Spec => [](CountTypes /\ CountInv)
BY CountInit, CountStep, HoldInvariance, CallInvariance, PTL DEF Spec

\* MetricsFollow: until Stop every stored result was counted once by every metrics
\* reporter, and the status gauge has the documented value of the last one.
THEOREM MetricsDoFollow == Spec => []MetricsFollow
<1>1. CallInv /\ HoldInv /\ RunningInv /\ CountInv => MetricsFollow
  <2> SUFFICES ASSUME CallInv, HoldInv, RunningInv, CountInv, Quiet, running,
                      pc[proc] \notin {"off", "store"}, NEW r \in Metrics \cap reporters,
                      NEW k \in Checks
               PROVE  /\ last[k] # NoResult => checkGauge[r][k] = Documented[last[k].status]
                      /\ Counted(r, k) = last[k].n
    BY DEF MetricsFollow, Counted
  <2>1. mRunning[r] /\ Due(r) = last
    BY DEF RunningInv, Due
  <2>2. mHcs[r] = last
    BY <2>1 DEF HoldInv
  <2> QED
    BY <2>2 DEF CountInv
<1> QED
  BY <1>1, CallInvariance, HoldInvariance, RunningInvariance, CountInvariance, PTL

-----------------------------------------------------------------------------
(* Readiness and the results.                                               *)

\* The processor evaluates with both gates open, remembers readiness as it is, and
\* leaves it as the verdict on the stored results says.
ReadyInv ==
  /\ running /\ pc[proc] \in {"initial", "liveness", "readiness"} => AllChecksRan /\ startupDone
  /\ running /\ pc[proc] \in {"liveness", "readiness"} =>
       (est.ready <=> Verdict("ready")) /\ (est.shownReady <=> flag["ready"])
  /\ running /\ pc[proc] = "select" /\ AllChecksRan => (flag["ready"] <=> Verdict("ready"))

\* Only Stop, which ends the run, and the processor change readiness.
LEMMA ReadyStep == CallInv /\ HoldInv /\ ReadyInv /\ [Next]_vars => ReadyInv'
<1> SUFFICES ASSUME CallInv, HoldInv, ReadyInv, [Next]_vars PROVE ReadyInv'
  OBVIOUS
<1>0. PcOK /\ FieldsOK /\ app \in Callers /\ proc \in Callers /\ app # proc
  BY TwoCallers DEF CallInv
<1>f. /\ pc \in [Callers -> AppLabels \cup ProcLabels] /\ flag \in [Probes -> BOOLEAN]
      /\ "ready" \in Probes /\ "live" \in Probes /\ "startup" \in Probes
      /\ est \in [live : BOOLEAN, ready : BOOLEAN, shownReady : BOOLEAN]
  BY <1>0 DEF PcOK, FieldsOK, Probes
<1>1. ASSUME last' = last
      PROVE  (AllChecksRan' <=> AllChecksRan) /\ \A p : Verdict(p)' <=> Verdict(p)
  BY <1>1 DEF AllChecksRan, Verdict, Cancels
<1>2. CASE UNCHANGED <<last, pc, est>> /\ (running' => running) /\ (startupDone => startupDone')
           /\ flag'["ready"] = flag["ready"]
  BY <1>1, <1>2 DEF ReadyInv
<1>3. CASE ~running'
  BY <1>3 DEF ReadyInv
<1>4. CASE Run
  <2>1. pc[app] = "idle" /\ pc'[proc] = pc[proc]
    BY <1>0, <1>f, <1>4 DEF Run, At, Moves
  <2>2. pc'[proc] = "off"
    BY <1>0, <2>1 DEF PcOK
  <2> QED
    BY <2>2 DEF ReadyInv
<1>5. CASE RunFails \/ \E t \in Callers : StopCAS(t)
  BY <1>3, <1>5 DEF RunFails, StopCAS
<1>6. ASSUME NEW t \in Callers, StopReady(t) \/ StopReporters(t) PROVE ReadyInv'
  <2>1. pc[t] \in Stopping /\ running' = running
    BY <1>6 DEF StopReady, StopReporters, At, Stopping
  <2>2. ~running
    BY <1>0, <2>1 DEF PcOK
  <2> QED
    BY <1>3, <2>1, <2>2
<1>7. CASE Dispatch
  <2>1. pc[app] = "dispatch" /\ pc'[proc] = "select" /\ last' = last
    BY <1>0, <1>f, <1>7 DEF Dispatch, At
  <2>2. pc[proc] = "off"
    BY <1>0, <2>1 DEF PcOK
  <2>3. last = NoResults
    BY <2>2 DEF HoldInv
  <2>4. PICK k \in Checks : TRUE
    BY FanoutAssumption
  <2>5. last[k] = NoResult
    BY <2>3, <2>4 DEF NoResults
  <2>6. ~AllChecksRan'
    BY <2>1, <2>4, <2>5 DEF AllChecksRan
  <2> QED
    BY <2>1, <2>6 DEF ReadyInv
<1>8. CASE InitStartupState \/ RunLive
  <2>1. last' = last /\ est' = est /\ running' = running /\ pc'[proc] = pc[proc]
    BY <1>0, <1>f, <1>8 DEF InitStartupState, RunLive, Moves
  <2>3. startupDone => startupDone'
    BY <1>8 DEF InitStartupState, RunLive
  <2>2. flag'["ready"] = flag["ready"]
    BY <1>f, <1>8 DEF InitStartupState, RunLive, Swap
  <2> QED
    BY <1>1, <2>1, <2>2, <2>3 DEF ReadyInv
<1>9. CASE Cancel
  BY <1>2, <1>9 DEF Cancel
<1>10. CASE Store \/ \E k \in Checks, st \in Statuses : Receive(k, st)
  <2>1. pc'[proc] \in {"store", "fitness"}
    BY <1>0, <1>f, <1>10 DEF Store, Receive, Moves
  <2> QED
    BY <2>1 DEF ReadyInv
<1>11. CASE Fitness
  <2>1. CASE ~running \/ ~AllChecksRan
    <3>1. pc'[proc] = "select" /\ last' = last /\ running' = running
      BY <1>0, <1>f, <1>11, <2>1 DEF Fitness, Moves
    <3> QED
      BY <1>1, <2>1, <3>1 DEF ReadyInv
  <2>2. CASE running /\ AllChecksRan
    <3>1. pc'[proc] = "initial" /\ last' = last /\ startupDone' = TRUE
      BY <1>0, <1>f, <1>11, <2>2 DEF Fitness, Moves
    <3> QED
      BY <1>1, <2>2, <3>1 DEF ReadyInv
  <2> QED
    BY <2>1, <2>2
<1>12. CASE InitialReady
  <2> SUFFICES ASSUME running' PROVE ReadyInv'
    BY <1>3
  <2>1. /\ running /\ pc[proc] = "initial" /\ pc'[proc] = "liveness" /\ last' = last
        /\ startupDone' = startupDone
    BY <1>0, <1>f, <1>12 DEF InitialReady, At, Moves
  <2>2. AllChecksRan /\ startupDone
    BY <2>1 DEF ReadyInv
  <2>3. est'.ready <=> Verdict("ready")
    <3>1. est'.ready <=> Verdict("ready") /\ Verdict("live")
      BY <1>12 DEF InitialReady
    <3> QED
      BY <3>1, Verdicts
  <2>4. est'.shownReady <=> flag'["ready"]
    <3>1. CASE Verdict("ready") /\ ~initialReady
      <4>1. flag' = [flag EXCEPT !["ready"] = TRUE] /\ est'.shownReady = TRUE
        <5>1. SetReady(proc, TRUE) /\ est'.shownReady = (flag["ready"] \/ (Verdict("ready") /\ ~initialReady))
          BY <1>12, <3>1 DEF InitialReady
        <5>2. Swap(proc, "ready", TRUE)
          BY <2>2, <5>1 DEF SetReady
        <5> QED
          BY <3>1, <5>1, <5>2 DEF Swap
      <4> QED
        BY <1>f, <4>1
    <3>2. CASE ~(Verdict("ready") /\ ~initialReady)
      <4>1. flag' = flag /\ est'.shownReady = (flag["ready"] \/ (Verdict("ready") /\ ~initialReady))
        BY <1>12, <3>2 DEF InitialReady
      <4> QED
        BY <3>2, <4>1
    <3> QED
      BY <3>1, <3>2
  <2> QED
    BY <1>1, <2>1, <2>2, <2>3, <2>4 DEF ReadyInv
<1>13. CASE Liveness
  <2>1. /\ pc[proc] = "liveness" /\ pc'[proc] = "readiness" /\ last' = last /\ est' = est
        /\ startupDone' = startupDone /\ running' = running
    BY <1>0, <1>f, <1>13 DEF Liveness, At, Moves
  <2>2. flag'["ready"] = flag["ready"]
    BY <1>f, <1>13 DEF Liveness, Swap
  <2> QED
    BY <1>1, <2>1, <2>2 DEF ReadyInv
<1>14. CASE Readiness
  <2> SUFFICES ASSUME running' PROVE ReadyInv'
    BY <1>3
  <2>1. running /\ pc[proc] = "readiness" /\ pc'[proc] = "select" /\ last' = last
    BY <1>0, <1>f, <1>14 DEF Readiness, At, Moves
  <2>2. /\ AllChecksRan /\ startupDone /\ (est.ready <=> Verdict("ready"))
        /\ (est.shownReady <=> flag["ready"])
    BY <2>1 DEF ReadyInv
  <2>3. flag'["ready"] <=> est.ready
    <3>1. CASE est.shownReady # est.ready
      <4>1. Swap(proc, "ready", est.ready)
        BY <1>14, <2>2, <3>1 DEF Readiness, SetReady
      <4>2. flag' = [flag EXCEPT !["ready"] = est.ready]
        BY <4>1 DEF Swap
      <4> QED
        BY <1>f, <4>2
    <3>2. CASE est.shownReady = est.ready
      <4>1. flag' = flag
        BY <1>14, <3>2 DEF Readiness
      <4> QED
        BY <2>2, <3>2, <4>1
    <3> QED
      BY <3>1, <3>2
  <2> QED
    BY <1>1, <2>1, <2>2, <2>3 DEF ReadyInv
<1>15. CASE ServerStep \/ (\E t \in Callers : ReporterStep(t)) \/ UNCHANGED vars
  <2>1. UNCHANGED manager
    BY <1>15 DEF ServerStep, ReporterStep, vars
  <2> QED
    BY <1>2, <2>1 DEF manager
<1> QED
  BY <1>4, <1>5, <1>6, <1>7, <1>8, <1>9, <1>10, <1>11, <1>12, <1>13, <1>14, <1>15, StepCases

\* At the start nothing runs.
LEMMA ReadyInit == Init => ReadyInv
BY DEF Init, ReadyInv

\* While the manager runs, readiness is the verdict on the stored results.
LEMMA ReadyInvariance == Spec => []ReadyInv
BY ReadyInit, ReadyStep, HoldInvariance, CallInvariance, PTL DEF Spec

\* ReadyMatchesServices: when the processor has evaluated the last result, readiness
\* over gRPC is on exactly if no check that matters is reported as NOT_SERVING.
THEOREM ReadyDoesMatchServices == Spec => []ReadyMatchesServices
<1>1. CallInv /\ AgreeInv /\ HoldInv /\ ReadyInv => ReadyMatchesServices
  <2> SUFFICES ASSUME CallInv, AgreeInv, HoldInv, ReadyInv, Quiet, running, pc[proc] = "select",
                      AllChecksRan, grpc \in reporters, "ready" \notin raced
               PROVE  gProbe["ready"] <=> \A k \in AffectsLiveness \cup AffectsReadiness :
                                            Named(k) # "NOT_SERVING"
    BY DEF ReadyMatchesServices
  <2>0. "ready" \in Probes \ raced
    BY DEF Probes
  <2>1. gProbe["ready"] <=> flag["ready"]
    <3>1. Clear(grpc, "ready")
      BY DEF Clear, Announces, Quiet
    <3>2. Shows(grpc, "ready") = {flag["ready"]}
      BY <2>0, <3>1 DEF AgreeInv, AgreeOn
    <3>3. {gProbe["ready"]} = {flag["ready"]}
      BY <3>2, Names DEF Shows
    <3> QED
      BY <3>3
  <2>2. gHcs = last
    BY DEF HoldInv, Due
  <2>3. ASSUME NEW k \in Checks PROVE Named(k) # "NOT_SERVING" <=> last[k].status # "unhealthy"
    BY <2>2 DEF Named, Serving, AllChecksRan
  <2>4. Verdict("ready") <=> \A k \in AffectsLiveness \cup AffectsReadiness :
                               last[k].status # "unhealthy"
    BY FanoutAssumption DEF Verdict, Cancels
  <2>5. flag["ready"] <=> Verdict("ready")
    BY DEF ReadyInv
  <2> QED
    BY <2>1, <2>3, <2>4, <2>5, FanoutAssumption
<1> QED
  BY <1>1, CallInvariance, AgreeInvariance, HoldInvariance, ReadyInvariance, PTL

-----------------------------------------------------------------------------
(* Types.                                                                   *)

\* t still has to stop the test reporter.
StopDue(t) ==
  pc[t] \in {"stopReady", "stopReporters"} \/ (pc[t] = "done" /\ tester \in todo[t])

\* The test reporter is run at most once by a Run and stopped once, by the Stop that
\* found the manager running.
RunTogglesInv ==
  /\ runs \in 0 .. MaxRuns /\ runToggles \in 0 .. runs + 1
  /\ pc[proc] = "off" => runToggles <= runs /\ (tester \in todo[app] => runToggles < runs)
  /\ running \/ (\E t \in Callers : StopDue(t)) => runToggles <= runs
  /\ \A t, u \in Callers : StopDue(t) /\ StopDue(u) => t = u

\* No step stops it twice.
LEMMA RunTogglesStep == CallInv /\ RunTogglesInv /\ [Next]_vars => RunTogglesInv'
<1> SUFFICES ASSUME CallInv, RunTogglesInv, [Next]_vars PROVE RunTogglesInv'
  OBVIOUS
<1>0. CallingOK /\ PcOK /\ FieldsOK /\ app \in Callers /\ proc \in Callers /\ app # proc
      /\ \A t \in Callers : t = app \/ t = proc
  BY TwoCallers DEF CallInv
<1>f. pc \in [Callers -> AppLabels \cup ProcLabels] /\ todo \in [Callers -> SUBSET reporters]
  BY <1>0 DEF PcOK, CallingOK
<1>n. runs \in Nat /\ runToggles \in Nat /\ MaxRuns \in Nat
  BY FanoutAssumption DEF RunTogglesInv
<1>1. ASSUME runs' = runs, runToggles' = runToggles, running' => running,
             \A t \in Callers : StopDue(t)' => StopDue(t),
             pc'[proc] = "off" => pc[proc] = "off" /\ (tester \in todo'[app] => tester \in todo[app])
      PROVE  RunTogglesInv'
  BY <1>1 DEF RunTogglesInv
<1>2. runToggles' = runToggles \/ \E t \in Callers : ReporterStep(t)
  BY DEF Next, ManagerInput, ManagerStep, ServerStep, vars, recorder
<1>3. CASE Run /\ runToggles' = runToggles
  <2>1. /\ pc[app] = "idle" /\ pc'[app] = "dispatch" /\ pc'[proc] = pc[proc] /\ runs < MaxRuns
        /\ runs' = runs + 1 /\ runToggles' = runToggles
    BY <1>0, <1>3, <1>f DEF Run, At, Moves
  <2>2. pc[proc] = "off"
    BY <1>0, <2>1 DEF PcOK
  <2>3. \A t \in Callers : ~StopDue(t)'
    BY <1>0, <2>1, <2>2 DEF StopDue
  <2>4. runToggles <= runs
    BY <2>2 DEF RunTogglesInv
  <2> QED
    BY <1>n, <2>1, <2>3, <2>4 DEF RunTogglesInv
<1>4. CASE (RunFails \/ InitStartupState \/ RunLive \/ Cancel) /\ runToggles' = runToggles
  <2>0. running' => running
    BY <1>4 DEF RunFails, InitStartupState, RunLive, Cancel
  <2>1. runToggles' = runToggles /\ runs' = runs /\ (running' => running)
    BY <1>4, <2>0 DEF RunFails, InitStartupState, RunLive, Cancel
  <2>2. CASE Cancel
    BY <1>1, <2>1, <2>2 DEF Cancel, StopDue, calling
  <2>3. CASE RunFails \/ InitStartupState \/ RunLive
    <3>1. /\ pc[app] \in {"dispatch", "startup", "live"} /\ pc'[app] \in {"idle", "live", "up"}
          /\ pc'[proc] = pc[proc] /\ Free(app)
      BY <1>0, <1>f, <2>3 DEF RunFails, InitStartupState, RunLive, At, Moves
    <3>2. UNCHANGED calling \/ Swap(app, "startup", TRUE) \/ Swap(app, "live", TRUE)
      BY <2>3 DEF RunFails, InitStartupState, RunLive
    <3>3. "live" \in Probes /\ "startup" \in Probes
      BY DEF Probes
    <3>4. todo'[proc] = todo[proc]
      BY <1>0, <3>1, <3>2, <3>3, NoFan, SwapBegins DEF FieldsOK, Began
    <3>5. \A t \in Callers : StopDue(t)' => StopDue(t)
      BY <1>0, <3>1, <3>4 DEF StopDue
    <3>6. pc[proc] = "off" => UNCHANGED calling
      <4>1. pc[proc] = "off" => pc[app] = "dispatch"
        BY <1>0, <3>1 DEF PcOK
      <4> QED
        BY <2>3, <4>1 DEF RunFails, InitStartupState, RunLive, At
    <3> QED
      BY <1>1, <2>1, <3>1, <3>5, <3>6 DEF calling
  <2> QED
    BY <1>4, <2>2, <2>3
<1>5. CASE Dispatch /\ runToggles' = runToggles
  <2>1. /\ pc[app] = "dispatch" /\ pc'[app] = "startup" /\ pc'[proc] = "select"
        /\ runs' = runs /\ runToggles' = runToggles
    BY <1>0, <1>5, <1>f DEF Dispatch, At
  <2>2. pc[proc] = "off"
    BY <1>0, <2>1 DEF PcOK
  <2>3. \A t \in Callers : ~StopDue(t)'
    BY <1>0, <2>1 DEF StopDue
  <2> QED
    BY <2>1, <2>2, <2>3 DEF RunTogglesInv
<1>6. ASSUME NEW t \in Callers, StopCAS(t), runToggles' = runToggles PROVE RunTogglesInv'
  <2>1. /\ runs' = runs /\ runToggles' = runToggles /\ todo' = todo /\ todo[t] = {}
        /\ pc[t] \in {"up", "select"}
    BY <1>6 DEF StopCAS, calling, At, Free
  <2>2. pc'[t] = (IF running THEN "stopReady" ELSE "done") /\ running' = FALSE
        /\ \A u \in Callers \ {t} : pc'[u] = pc[u]
    BY <1>6, <1>f DEF StopCAS, Moves
  <2>3. \A u \in Callers : u # t => (StopDue(u)' <=> StopDue(u))
    BY <2>1, <2>2 DEF StopDue
  <2>4. pc'[proc] # "off" /\ pc[proc] # "off"
    <3>1. pc[proc] # "off"
      BY <1>0, <2>1 DEF PcOK
    <3> QED
      BY <1>0, <2>2, <3>1
  <2>5. CASE running
    <3>1. \A u \in Callers : ~StopDue(u)
      BY <1>0, <2>5 DEF PcOK, StopDue, Stopping
    <3> QED
      BY <2>1, <2>3, <2>4, <2>5, <3>1 DEF RunTogglesInv
  <2>6. CASE ~running
    <3>1. ~StopDue(t)'
      BY <2>1, <2>2, <2>6 DEF StopDue
    <3> QED
      BY <1>1, <2>1, <2>2, <2>3, <2>4, <3>1
  <2> QED
    BY <2>5, <2>6
<1>7. ASSUME NEW t \in Callers, StopReady(t) \/ StopReporters(t), runToggles' = runToggles
      PROVE  RunTogglesInv'
  <2>1. /\ runs' = runs /\ runToggles' = runToggles /\ running' = running
        /\ pc[t] \in {"stopReady", "stopReporters"} /\ Free(t)
        /\ pc' = [pc EXCEPT ![t] = "stopReporters"] \/ pc' = [pc EXCEPT ![t] = "done"]
    BY <1>7 DEF StopReady, StopReporters, At, Moves
  <2>2. SetReady(t, FALSE) \/ Fan(t, StopCall)
    BY <1>7 DEF StopReady, StopReporters
  <2>3. \E c : Began(t, c)
    BY <1>0, <2>1, <2>2, SetReadyBegins, FanBegins, CallFields DEF FieldsOK
  <2>4. \A u \in Callers \ {t} : todo'[u] = todo[u] /\ pc'[u] = pc[u]
    BY <1>f, <2>1, <2>3 DEF Began
  <2>5. \A u \in Callers : StopDue(u)' => StopDue(u)
    BY <2>1, <2>4 DEF StopDue
  <2>6. pc'[proc] # "off"
    <3>1. pc[proc] # "off"
      BY <1>0, <2>1 DEF PcOK
    <3> QED
      BY <1>0, <1>f, <2>1, <3>1
  <2> QED
    BY <1>1, <2>1, <2>5, <2>6
<1>8. CASE /\ \/ \E k \in Checks, st \in Statuses : Receive(k, st)
              \/ Store \/ Fitness \/ InitialReady \/ Liveness \/ Readiness
           /\ runToggles' = runToggles
  <2>1. runs' = runs /\ runToggles' = runToggles /\ running' = running
    BY <1>8 DEF Receive, Store, Fitness, InitialReady, Liveness, Readiness
  <2>2. /\ pc'[app] = pc[app]
        /\ pc'[proc] \in {"select", "store", "fitness", "initial", "liveness", "readiness"}
    BY <1>0, <1>f, <1>8 DEF Receive, Store, Fitness, InitialReady, Liveness, Readiness, Moves
  <2>3. todo'[app] = todo[app]
    <3>1. \/ UNCHANGED calling \/ \E c : Fan(proc, c)
      BY <1>8 DEF Receive, Store, Fitness, InitialReady, Liveness, Readiness, Swap, SetReady
    <3> QED
      BY <1>0, <1>f, <3>1 DEF calling, Fan
  <2>4. \A t \in Callers : StopDue(t)' => StopDue(t)
    BY <1>0, <2>2, <2>3 DEF StopDue
  <2> QED
    BY <1>1, <2>1, <2>2, <2>4
<1>9. CASE ServerStep \/ UNCHANGED vars
  <2>1. UNCHANGED <<calling, recorder, manager>>
    BY <1>9 DEF ServerStep, vars
  <2>2. UNCHANGED <<runs, runToggles, running, pc, todo>>
    BY <2>1 DEF calling, recorder, manager
  <2> QED
    BY <1>1, <2>2 DEF StopDue
<1>10. ASSUME NEW t \in Callers, ReporterStep(t) PROVE RunTogglesInv'
  <2>1. UNCHANGED <<runs, running, pc>>
    BY <1>10 DEF ReporterStep, manager
  <2>2. \A u \in Callers : todo'[u] \subseteq todo[u]
    BY <1>0, <1>10, ReporterMoves DEF Moved
  <2>3. \A u \in Callers : StopDue(u)' => StopDue(u)
    BY <2>1, <2>2 DEF StopDue
  <2>4. CASE runToggles' = runToggles
    BY <1>0, <1>1, <2>1, <2>2, <2>3, <2>4
  <2>5. CASE TestRunStop(t)
    <3>1. /\ runToggles' = runToggles + 1 /\ tester \in todo[t] /\ call[t].op \in {"Run", "Stop"}
          /\ Returns(t, tester)
      BY <2>5 DEF TestRunStop, Starts
    <3>2. tester \notin todo'[t]
      BY <1>f, <3>1 DEF Returns
    <3>3. CASE call[t].op = "Run"
      <4>1. t = app /\ pc[app] = "dispatch" /\ pc[proc] = "off"
        BY <3>1, <3>3, RunStopFields
      <4>2. \A u \in Callers : ~StopDue(u)
        BY <1>0, <4>1 DEF StopDue
      <4>3. runToggles < runs
        BY <3>1, <4>1 DEF RunTogglesInv
      <4> QED
        BY <1>n, <2>1, <2>3, <3>1, <3>2, <4>1, <4>2, <4>3 DEF RunTogglesInv
    <3>4. CASE call[t].op = "Stop"
      <4>1. pc[t] = "done" /\ ~running /\ pc[proc] # "off"
        BY <3>1, <3>4, RunStopFields
      <4>2. StopDue(t) /\ ~StopDue(t)'
        BY <2>1, <3>1, <3>2, <4>1 DEF StopDue
      <4>3. runToggles <= runs /\ \A u \in Callers : ~StopDue(u)'
        BY <2>3, <4>2 DEF RunTogglesInv
      <4> QED
        BY <1>n, <2>1, <3>1, <4>1, <4>3 DEF RunTogglesInv
    <3> QED
      BY <3>1, <3>3, <3>4
  <2> QED
    BY <1>10, <2>4, <2>5 DEF ReporterStep, TestStep, TestStore, TestCount, TestUpdate, recorder
<1> QED
  BY <1>2, <1>3, <1>4, <1>5, <1>6, <1>7, <1>8, <1>9, <1>10, StepCases

\* At the start it was not run.
LEMMA RunTogglesInit == Init => RunTogglesInv
<1> SUFFICES ASSUME Init PROVE RunTogglesInv
  OBVIOUS
<1>1. runs = 0 /\ runToggles = 0 /\ MaxRuns \in Nat /\ \A t \in Callers : todo[t] = {}
  BY FanoutAssumption DEF Init, TestInit, CallsInit
<1>2. \A t \in Callers : pc[t] \in {"idle", "off"}
  BY DEF Init
<1>3. \A t \in Callers : ~StopDue(t)
  BY <1>2 DEF StopDue
<1> QED
  BY <1>1, <1>3, TwoCallers DEF RunTogglesInv

\* The gRPC server and the test reporter's remaining fields.
ServerTypes ==
  /\ gRunning \in BOOLEAN /\ gStopped \in BOOLEAN /\ gLn \in BOOLEAN
  /\ gServe \in {"off", "starting", "serving", "ended"}
  /\ tRunning \in BOOLEAN /\ hcUpdates \in Nat

\* Their steps keep the types.
LEMMA ServerTypesStep == ServerTypes /\ [Next]_vars => ServerTypes'
<1> SUFFICES ASSUME ServerTypes, [Next]_vars PROVE ServerTypes'
  OBVIOUS
<1>1. CASE ManagerInput \/ (\E t \in Callers : ManagerStep(t)) \/ UNCHANGED vars
  BY <1>1 DEF ManagerInput, ManagerStep, vars, service, fields, server, recorder, ServerTypes
<1>2. CASE ServerStep
  <2>1. UNCHANGED <<gRunning, tRunning, hcUpdates>>
    BY <1>2 DEF ServerStep, ServeStarts, GRPCEnvironment, ServeFails, Ask, Handler, LoadLive,
                LoadReady, Lookup, List, Send, fields, recorder
  <2>2. /\ gStopped' = gStopped /\ gServe' \in {gServe, "ended", "serving"}
        /\ gLn' \in BOOLEAN
    BY <1>2 DEF ServerStep, ServeStarts, GRPCEnvironment, ServeFails, Ask, Handler, LoadLive,
                LoadReady, Lookup, List, Send, server, ServerTypes
  <2> QED
    BY <2>1, <2>2 DEF ServerTypes
<1>3. ASSUME NEW t \in Callers, ReporterStep(t) PROVE ServerTypes'
  <2>1. CASE GRPCStep(t) /\ UNCHANGED <<metrics, console, recorder>>
    <3>1. gRunning' \in BOOLEAN
      BY <2>1 DEF GRPCStep, GRPCRun, GRPCListen, GRPCListenFails, GRPCStop, GracefulStop, Drained,
                  GRPCSet, GRPCUpdate, service, fields, ServerTypes
    <3>2. gStopped' \in BOOLEAN /\ gLn' \in BOOLEAN
      BY <2>1 DEF GRPCStep, GRPCRun, GRPCListen, GRPCListenFails, GRPCStop, GracefulStop, Drained,
                  GRPCSet, GRPCUpdate, service, server, ServerTypes
    <3>3. gServe' \in {gServe, "starting", "ended"}
      BY <2>1 DEF GRPCStep, GRPCRun, GRPCListen, GRPCListenFails, GRPCStop, GracefulStop, Drained,
                  GRPCSet, GRPCUpdate, service, server
    <3> QED
      BY <2>1, <3>1, <3>2, <3>3 DEF ServerTypes, recorder
  <2>2. CASE UNCHANGED <<service, recorder>>
    BY <2>2 DEF service, fields, server, recorder, ServerTypes
  <2>3. CASE TestStep(t) /\ UNCHANGED service
    <3>1. tRunning' \in BOOLEAN
      BY <2>3 DEF TestStep, TestRunStop, TestStore, TestCount, TestUpdate, ServerTypes
    <3>2. hcUpdates' \in {hcUpdates, hcUpdates + 1}
      BY <2>3 DEF TestStep, TestRunStop, TestStore, TestCount, TestUpdate
    <3> QED
      BY <2>3, <3>1, <3>2 DEF service, fields, server, ServerTypes
  <2> QED
    BY <1>3, <2>1, <2>2, <2>3 DEF ReporterStep
<1> QED
  BY <1>1, <1>2, <1>3 DEF Next

\* A caller is in a reporter that it has to call, at a label of its method.
LEMMA CallerTypes ==
  ASSUME CallInv, NEW t \in Callers
  PROVE  /\ todo[t] \subseteq reporters
         /\ at[t][1] \in todo[t] \cup {"none"} /\ at[t][2] \in Labels
<1>1. AtOK(t) /\ todo[t] \subseteq reporters
  BY DEF CallInv, CallingOK
<1>2. CASE at[t] = Nowhere
  BY <1>1, <1>2 DEF Nowhere, Labels
<1>3. ASSUME NEW r \in todo[t], NEW l \in Labels, at[t] = <<r, l>>
      PROVE  at[t][1] \in todo[t] \cup {"none"} /\ at[t][2] \in Labels
  BY <1>3
<1>4. {"listen", "graceful", "drain", "boop", "gauge", "record"} \subseteq Labels
  BY DEF Labels
<1> QED
  BY <1>1, <1>2, <1>3, <1>4 DEF AtOK, In

\* A metrics reporter counts no status of a check more often than it has results.
LEMMA CountBound ==
  ASSUME HoldTypes, CountTypes, CountInv
  PROVE  checkCount \in [Metrics -> [Checks -> [Statuses -> 0 .. MaxResults]]]
<1>1. ASSUME NEW r \in Metrics, NEW k \in Checks, NEW s \in Statuses
      PROVE  checkCount[r][k][s] \in 0 .. MaxResults
  <2>1. mHcs[r][k].n \in 0 .. MaxResults
    BY DEF HoldTypes, Results
  <2>2. checkCount[r][k] \in [Statuses -> Nat]
    BY DEF CountTypes
  <2>3. /\ checkCount[r][k]["healthy"] \in Nat /\ checkCount[r][k]["degraded"] \in Nat
        /\ checkCount[r][k]["unhealthy"] \in Nat
    BY <2>2 DEF Statuses
  <2>4. checkCount[r][k]["healthy"] + checkCount[r][k]["degraded"] + checkCount[r][k]["unhealthy"]
          = mHcs[r][k].n
    BY DEF CountInv, Counted
  <2>5. MaxResults \in Nat
    BY FanoutAssumption
  <2>6. /\ checkCount[r][k]["healthy"] <= MaxResults /\ checkCount[r][k]["degraded"] <= MaxResults
        /\ checkCount[r][k]["unhealthy"] <= MaxResults
    BY <2>1, <2>3, <2>4, <2>5
  <2> QED
    BY <2>3, <2>5, <2>6 DEF Statuses
<1> QED
  BY <1>1 DEF CountTypes

\* TypeOK: the reporters' fields and instruments, the callers' fan-outs and the manager's
\* fields keep their types, and the counters of runs and results their bounds.
THEOREM TypeCorrect == Spec => []TypeOK
<1>1. Init => ServerTypes
  <2> SUFFICES ASSUME Init PROVE ServerTypes
    OBVIOUS
  <2>1. gRunning \in BOOLEAN /\ gStopped \in BOOLEAN /\ gLn \in BOOLEAN /\ tRunning \in BOOLEAN
    BY DEF Init, GRPCInit, TestInit
  <2>2. gServe = "off" /\ hcUpdates = 0
    BY DEF Init, GRPCInit, TestInit
  <2> QED
    BY <2>1, <2>2 DEF ServerTypes
<1>2. Spec => []ServerTypes
  BY <1>1, ServerTypesStep, PTL DEF Spec
<1>3. Spec => []RunTogglesInv
  BY RunTogglesInit, RunTogglesStep, CallInvariance, PTL DEF Spec
<1>4. Spec => []RpcOK
  BY RpcInit, RpcStep, PTL DEF Spec
<1>5. Spec => []ToggleInv
  BY ToggleInit, ToggleStep, CallInvariance, PTL DEF Spec
<1>6. /\ CallInv /\ ServerTypes /\ RunTogglesInv /\ RpcOK /\ ToggleInv /\ ShowTypes /\ HoldTypes
      /\ RunningInv /\ CountTypes /\ CountInv
      => TypeOK
  <2> SUFFICES ASSUME CallInv, ServerTypes, RunTogglesInv, RpcOK, ToggleInv, ShowTypes, HoldTypes,
                      RunningInv, CountTypes, CountInv
               PROVE  TypeOK
    OBVIOUS
  <2>1. \A t \in Callers : /\ todo[t] \subseteq reporters
                           /\ at[t][1] \in todo[t] \cup {"none"} /\ at[t][2] \in Labels
    BY CallerTypes
  <2>2. runToggles \in 0 .. MaxRuns + 1
    BY FanoutAssumption DEF RunTogglesInv
  <2>3. checkCount \in [Metrics -> [Checks -> [Statuses -> 0 .. MaxResults]]]
    BY CountBound
  <2>4. /\ rpc \in [Clients -> [pc : {"idle", "live", "ready", "lookup", "list", "send"},
                                method : {"none", "Check", "Watch", "List"},
                                svc : Services \cup {"none"}, ans : [Services -> Answers]]]
    BY DEF RpcOK, RpcType
  <2>5. /\ flag \in [Probes -> BOOLEAN] /\ last \in [Checks -> Results]
        /\ running \in BOOLEAN /\ startupDone \in BOOLEAN /\ initialReady \in BOOLEAN
    BY DEF CallInv, FieldsOK, PcOK
  <2> QED
    BY <2>1, <2>2, <2>3, <2>4, <2>5
       DEF TypeOK, ServerTypes, ToggleInv, ShowTypes, HoldTypes, RunningInv, CountTypes
<1> QED
  BY <1>2, <1>3, <1>4, <1>5, <1>6, CallInvariance, AgreeInvariance, HoldInvariance,
     RunningInvariance, CountInvariance, PTL
=============================================================================
