-------------------------- MODULE ManagerRunProofs --------------------------
(***************************************************************************)
(* Proofs about one Run of the manager: MaxRuns = 1, with any checks,      *)
(* reporters and application goroutines.  What a Run promises while it     *)
(* runs is broken by a second Run, so the bound is a hypothesis here and   *)
(* not in ManagerProofs.  The invariants build on one another:             *)
(*   RunInv     who calls Run, who calls Stop, and how far they got;       *)
(*   LoopInv    which goroutine may be telling the reporters what;         *)
(*   ResultInv  what the stored results and the latches say;               *)
(*   ShownInv   the stored results are the ones the reporters were given;  *)
(*   StartInv   what the reporters were told of startup;                   *)
(*   ToldInv    the readiness reporters were told is the manager's;        *)
(*   DecidedInv the manager's readiness follows from the results.          *)
(* The last four need registration to come before the dispatch.            *)
(***************************************************************************)
EXTENDS ManagerProofs

\* The labels of a call of Run.
RunLabels == {"init", "validate", "dispatch", "startup", "live", "fail", "reset"}

\* One goroutine at most is in Run, and before it dispatches there is no processor;
\* nobody can set running again, so Stop is won once; a processor stops only after
\* a cancellation.
RunInv ==
  /\ running => runs = 1
  /\ \A t \in App : pc[t] \in RunLabels => runs = 1 /\ gen[t] = 1
  /\ \A s, t \in App : pc[s] \in RunLabels /\ pc[t] \in RunLabels => s = t
  /\ \A t \in App : pc[t] \in {"init", "validate", "dispatch"} => pc[1] = "off"
  /\ \A t \in App : pc[t] = "startup" => pc[1] # "off"
  /\ \A t \in Thread : each[t].call = "Run" /\ each[t].todo # {} =>
                       t \in App /\ pc[t] = "dispatch"
  /\ pc[1] \in ProcLabels
  /\ pc[1] # "off" => runs = 1
  /\ pc[1] \in {"stopReady", "stopReporters", "done"} => ctxDone[1]
  /\ \A t \in Thread : InStop(t) => runs = 1
  /\ StopExclusive

\* With one Run there is one processor, and it is none of the application's.
LEMMA OneProcessor ==
  ASSUME MaxRuns = 1
  PROVE  Gen = {1} /\ 1 \in Thread /\ 1 \notin App /\ App \subseteq Thread
         /\ \A t \in Thread : t \in App \/ t = 1
BY ThreadAssumption DEF Gen, Thread

\* A visit takes one reporter off the loop, and touches no other loop.
LEMMA VisitedLoop ==
  ASSUME TypeInv, NEW t \in Thread, NEW r \in Reporters, Visited(t, r)
  PROVE  /\ \A u \in Thread : u # t => each'[u] = each[u]
         /\ each'[t].todo = each[t].todo \ {r}
         /\ each'[t].todo # {} => each'[t].call = each[t].call /\ each'[t].value = each[t].value
         /\ each'[t].call \in {each[t].call, "none"}
<1>1. each \in [Thread -> [todo : SUBSET Reporters, call : EachCalls, value : BOOLEAN]]
  BY DEF TypeInv, TypeOK
<1>2. CASE each[t].todo = {r}
  BY <1>1, <1>2 DEF Visited, NoEach
<1>3. CASE each[t].todo # {r}
  <2>1. each' = [each EXCEPT ![t] = [each[t] EXCEPT !.todo = @ \ {r}]]
    BY <1>3 DEF Visited
  <2>2. each'[t] = [each[t] EXCEPT !.todo = @ \ {r}]
    BY <1>1, <2>1
  <2>3. /\ each'[t].todo = each[t].todo \ {r}
        /\ each'[t].call = each[t].call /\ each'[t].value = each[t].value
    BY <1>1, <2>2
  <2> QED
    BY <1>1, <2>1, <2>3
<1> QED
  BY <1>2, <1>3

\* A loop that starts is over all reporters; other loops go on.
LEMMA StartLoop ==
  ASSUME TypeInv, NEW t \in Thread, NEW call, NEW v, StartEach(t, call, v)
  PROVE  /\ \A u \in Thread : u # t => each'[u] = each[u]
         /\ each'[t].todo = reporters /\ each'[t].call = call /\ each'[t].value = v
BY DEF TypeInv, TypeOK, StartEach

\* setLive and setStartup start a loop, or find that nothing changes.
LEMMA SwapLoop ==
  ASSUME TypeInv, NEW t \in Thread, NEW p \in Probes, NEW v \in BOOLEAN, Swap(t, p, v)
  PROVE  /\ flag'[p] = v /\ \A q \in Probes : q # p => flag'[q] = flag[q]
         /\ \A u \in Thread : u # t => each'[u] = each[u]
         /\ \/ flag[p] = v /\ each' = each
            \/ /\ flag[p] # v
               /\ each'[t].todo = reporters /\ each'[t].call = p /\ each'[t].value = v
<1>1. flag' = [flag EXCEPT ![p] = v] /\ flag \in [Probes -> BOOLEAN]
  BY DEF Swap, TypeInv, TypeOK
<1>2. CASE flag[p] # v
  <2>1. StartEach(t, p, v)
    BY <1>2 DEF Swap
  <2> QED
    BY <1>1, <1>2, <2>1, StartLoop
<1>3. CASE flag[p] = v
  BY <1>1, <1>3 DEF Swap
<1> QED
  BY <1>2, <1>3

\* So does setReady, unless a gate refuses to turn readiness on.
LEMMA SetReadyLoop ==
  ASSUME TypeInv, NEW t \in Thread, NEW v \in BOOLEAN, SetReady(t, v)
  PROVE  /\ \A q \in Probes : q # "ready" => flag'[q] = flag[q]
         /\ \A u \in Thread : u # t => each'[u] = each[u]
         /\ \/ v /\ ~GatesOpen /\ flag' = flag /\ each' = each
            \/ flag'["ready"] = v /\ flag["ready"] = v /\ each' = each
            \/ /\ flag'["ready"] = v /\ flag["ready"] # v
               /\ each'[t].todo = reporters /\ each'[t].call = "ready" /\ each'[t].value = v
<1>1. CASE v /\ ~GatesOpen
  BY <1>1 DEF SetReady
<1>2. CASE ~(v /\ ~GatesOpen)
  <2>1. Swap(t, "ready", v) /\ "ready" \in Probes
    BY <1>2 DEF SetReady, Probes
  <2> QED
    BY <2>1, SwapLoop
<1> QED
  BY <1>1, <1>2

\* A processor that takes a result relays it, unless its context is done.
LEMMA ProcessLoop ==
  ASSUME TypeInv, NEW g \in Gen, NEW m, Process(g, m)
  PROVE  /\ \A u \in Thread : u # g => each'[u] = each[u] /\ pc'[u] = pc[u]
         /\ \/ ctxDone[g] /\ pc'[g] = "fitness" /\ each' = each /\ hc' = hc
            \/ /\ pc'[g] = "store" /\ hc' = [hc EXCEPT ![g] = m] /\ each'[g].todo = reporters
               /\ each'[g].call = "UpdateHealthChecks" /\ each'[g].value = FALSE
<1>1. g \in Thread /\ pc \in [Thread -> AppLabels \cup ProcLabels]
  BY DEF Thread, TypeInv, TypeOK
<1>2. CASE ctxDone[g]
  BY <1>1, <1>2 DEF Process, Goto
<1>3. CASE ~ctxDone[g]
  <2>1. StartEach(g, "UpdateHealthChecks", FALSE)
    BY <1>3 DEF Process
  <2> QED
    BY <1>1, <1>3, <2>1, StartLoop DEF Process, Goto
<1> QED
  BY <1>2, <1>3

\* Completing startup starts a loop, or finds that it is complete.
LEMMA StartupLoop ==
  ASSUME TypeInv, NEW g \in Thread, CompleteStartup(g)
  PROVE  /\ startupDone'
         /\ \A q \in Probes : q # "startup" => flag'[q] = flag[q]
         /\ \A u \in Thread : u # g => each'[u] = each[u]
         /\ \/ flag' = flag /\ each' = each /\ (startupDone \/ flag["startup"])
            \/ /\ ~startupDone /\ each'[g].todo = reporters
               /\ each'[g].call = "startup" /\ each'[g].value
<1>0. "startup" \in Probes /\ flag \in [Probes -> BOOLEAN]
  BY DEF Probes, TypeInv, TypeOK
<1>1. CASE startupDone
  BY <1>1 DEF CompleteStartup
<1>2. CASE ~startupDone
  <2>1. startupDone' /\ Swap(g, "startup", TRUE)
    BY <1>2 DEF CompleteStartup
  <2>2. flag' = [flag EXCEPT !["startup"] = TRUE]
    BY <2>1 DEF Swap
  <2>3. CASE flag["startup"]
    <3>1. flag' = flag /\ each' = each
      BY <1>0, <2>1, <2>2, <2>3, SwapLoop
    <3> QED
      BY <1>0, <2>1, <2>3, <3>1
  <2>4. CASE ~flag["startup"]
    BY <1>0, <1>2, <2>1, <2>4, SwapLoop
  <2> QED
    BY <2>3, <2>4
<1> QED
  BY <1>1, <1>2

\* Every step of a single Run keeps RunInv.
LEMMA RunStep ==
  ASSUME MaxRuns = 1, TypeInv, RunInv, [Next]_vars
  PROVE  RunInv'
<1> /\ Gen = {1} /\ 1 \in Thread /\ 1 \notin App /\ App \subseteq Thread
    /\ \A t \in Thread : t \in App \/ t = 1
    /\ pc \in [Thread -> AppLabels \cup ProcLabels]
    /\ each \in [Thread -> [todo : SUBSET Reporters, call : EachCalls, value : BOOLEAN]]
    /\ runs \in 0 .. 1 /\ gen \in [App -> 0 .. 1] /\ ctxDone \in [Gen -> BOOLEAN]
    /\ running \in BOOLEAN
  BY OneProcessor DEF TypeInv, TypeOK
<1> USE DEF RunInv, RunLabels, StopExclusive, InStop, ProcLabels, registry, latches, results,
        channels, calls, checking, locals, shown, background, elsewhere
<1>1. ASSUME NEW t \in App, NEW c \in Checks, AddCheck(t, c) PROVE RunInv'
  BY <1>1 DEF AddCheck, BeginAdd, Goto, Idle
<1>2. ASSUME NEW t \in App, NEW r \in Reporters, AddReporter(t, r) PROVE RunInv'
  BY <1>2 DEF AddReporter, BeginAdd, Goto, Idle
<1>3. ASSUME NEW t \in App, RunCAS(t) PROVE RunInv'
  BY <1>3 DEF RunCAS, Goto, Idle
<1>4. ASSUME NEW t \in App, Stop(t) PROVE RunInv'
  BY <1>4 DEF Stop, StopCAS, AfterStop, Goto, Idle
<1>5. ASSUME NEW t \in App, AddCheckSet(t) PROVE RunInv'
  BY <1>5 DEF AddCheckSet, Goto, At
<1>6. ASSUME NEW t \in App, AddReporterSet(t) PROVE RunInv'
  BY <1>6 DEF AddReporterSet, Goto, At
<1>7. ASSUME NEW t \in App, InitInternals(t) PROVE RunInv'
  BY <1>7 DEF InitInternals, Goto, At
<1>8. ASSUME NEW t \in App, Validate(t) PROVE RunInv'
  <2>1. CASE checkers = {} \/ reporters = {}
    <3>1. pc' = [pc EXCEPT ![t] = "fail"] /\ each' = each
      BY <1>8, <2>1 DEF Validate, Goto
    <3> QED
      BY <1>8, <3>1 DEF Validate, At
  <2>2. CASE ~(checkers = {} \/ reporters = {})
    <3>1. each'[t].call = "Run" /\ \A u \in Thread : u # t => each'[u] = each[u]
      BY <1>8, <2>2, StartLoop DEF Validate
    <3> QED
      BY <1>8, <2>2, <3>1 DEF Validate, At, Goto
  <2> QED
    BY <2>1, <2>2
<1>9. ASSUME NEW t \in App, Dispatch(t) PROVE RunInv'
  BY <1>9 DEF Dispatch, At
<1>10. ASSUME NEW t \in App, DispatchCancelled(t) PROVE RunInv'
  BY <1>10 DEF DispatchCancelled, Goto, At
<1>11. ASSUME NEW t \in App, InitStartupState(t) PROVE RunInv'
  <2>1. CASE checkers \cap AffectsStartup = {}
    <3>0. "startup" \in Probes
      BY DEF Probes
    <3>1. Swap(t, "startup", TRUE)
      BY <1>11, <2>1 DEF InitStartupState
    <3>2. /\ \A u \in Thread : u # t => each'[u] = each[u]
          /\ each'[t] = each[t] \/ each'[t].call = "startup"
      BY <3>0, <3>1, SwapLoop
    <3> QED
      BY <1>11, <3>2 DEF InitStartupState, At, Goto
  <2>2. CASE checkers \cap AffectsStartup # {}
    <3>1. each' = each
      BY <1>11, <2>2 DEF InitStartupState
    <3> QED
      BY <1>11, <3>1 DEF InitStartupState, At, Goto
  <2> QED
    BY <2>1, <2>2
<1>12. ASSUME NEW t \in App, RunLive(t) PROVE RunInv'
  <2>1. /\ \A u \in Thread : u # t => each'[u] = each[u]
        /\ each'[t] = each[t] \/ each'[t].call \notin {"Run", "Stop"}
    BY <1>12, SwapLoop DEF RunLive, Probes
  <2> QED
    BY <1>12, <2>1 DEF RunLive, At, Goto
<1>13. ASSUME NEW t \in App, SendErr(t) PROVE RunInv'
  BY <1>13 DEF SendErr, Goto, At
<1>14. ASSUME NEW t \in App, Reset(t) PROVE RunInv'
  BY <1>14 DEF Reset, Goto, At
<1>15. ASSUME NEW t \in App, NEW r \in Reporters, RunReporter(t, r) PROVE RunInv'
  <2>1. /\ \A u \in Thread : u # t => each'[u] = each[u]
        /\ each'[t].todo \subseteq each[t].todo
        /\ each'[t].todo # {} => each'[t].call = each[t].call
        /\ each'[t].call \in {each[t].call, "none"}
    BY <1>15, VisitedLoop DEF RunReporter
  <2>2. UNCHANGED <<pc, running, runs, gen, ctxDone>>
    BY <1>15 DEF RunReporter
  <2>3. \A u \in Thread : InStop(u)' => InStop(u)
    BY <2>1, <2>2
  <2>4. \A u \in Thread : each'[u].call = "Run" /\ each'[u].todo # {} =>
                           each[u].call = "Run" /\ each[u].todo # {}
    BY <2>1
  <2> HIDE DEF InStop
  <2> QED
    BY <2>2, <2>3, <2>4
<1>16. ASSUME NEW t \in App, NEW r \in Reporters, RunReporterFails(t, r) PROVE RunInv'
  <2>1. each'[t].call = "none" /\ each'[t].todo = {} /\ \A u \in Thread : u # t => each'[u] = each[u]
    BY <1>16 DEF RunReporterFails, NoEach
  <2>2. pc[t] = "dispatch"
    BY <1>16 DEF RunReporterFails
  <2> QED
    BY <1>16, <2>1, <2>2 DEF RunReporterFails, Goto
<1>17. ASSUME NEW t \in Thread, StopReady(t) PROVE RunInv'
  <2>1. /\ \A u \in Thread : u # t => each'[u] = each[u]
        /\ each'[t] = each[t] \/ each'[t].call \notin {"Run", "Stop"}
    BY <1>17, SetReadyLoop DEF StopReady
  <2> QED
    BY <1>17, <2>1 DEF StopReady, At, Goto
<1>18. ASSUME NEW t \in Thread, StopReporters(t) PROVE RunInv'
  <2>1. each'[t].call = "Stop" /\ \A u \in Thread : u # t => each'[u] = each[u]
    BY <1>18, StartLoop DEF StopReporters
  <2> QED
    BY <1>18, <2>1 DEF StopReporters, At, Goto, AfterStop
<1>19. ASSUME NEW t \in Thread, NEW r \in Reporters, Tell(t, r) PROVE RunInv'
  <2>1. /\ \A u \in Thread : u # t => each'[u] = each[u]
        /\ each'[t].todo \subseteq each[t].todo
        /\ each'[t].todo # {} => each'[t].call = each[t].call
        /\ each'[t].call \in {each[t].call, "none"}
    BY <1>19, VisitedLoop DEF Tell
  <2>2. UNCHANGED <<pc, running, runs, gen, ctxDone>>
    BY <1>19 DEF Tell
  <2>3. \A u \in Thread : InStop(u)' => InStop(u)
    BY <2>1, <2>2
  <2>4. \A u \in Thread : each'[u].call = "Run" /\ each'[u].todo # {} =>
                           each[u].call = "Run" /\ each[u].todo # {}
    BY <2>1
  <2> HIDE DEF InStop
  <2> QED
    BY <2>2, <2>3, <2>4
<1>20. ASSUME NEW t \in Thread, NEW r \in Reporters, StopReporter(t, r) PROVE RunInv'
  <2>1. /\ \A u \in Thread : u # t => each'[u] = each[u]
        /\ each'[t].todo \subseteq each[t].todo
        /\ each'[t].todo # {} => each'[t].call = each[t].call
        /\ each'[t].call \in {each[t].call, "none"}
    BY <1>20, VisitedLoop DEF StopReporter
  <2>2. UNCHANGED <<pc, running, runs, gen, ctxDone>>
    BY <1>20 DEF StopReporter
  <2>3. \A u \in Thread : InStop(u)' => InStop(u)
    BY <2>1, <2>2
  <2>4. \A u \in Thread : each'[u].call = "Run" /\ each'[u].todo # {} =>
                           each[u].call = "Run" /\ each[u].todo # {}
    BY <2>1
  <2> HIDE DEF InStop
  <2> QED
    BY <2>2, <2>3, <2>4
<1>21. ASSUME NEW g \in Gen, ProcStop(g) PROVE RunInv'
  BY <1>21 DEF ProcStop, StopCAS, AfterStop, ProcEnds, Goto, At
<1>22. ASSUME NEW g \in Gen, Receive(g) PROVE RunInv'
  <2>1. /\ \A u \in Thread : u # g => each'[u] = each[u] /\ pc'[u] = pc[u]
        /\ each' = each \/ each'[g].call = "UpdateHealthChecks"
        /\ pc'[g] \in {"fitness", "store"}
    BY <1>22, ProcessLoop DEF Receive
  <2> QED
    BY <1>22, <2>1 DEF Receive, At
<1>23. ASSUME NEW g \in Gen, Store(g) PROVE RunInv'
  BY <1>23 DEF Store, Goto, At
<1>24. ASSUME NEW g \in Gen, NEW r \in Reporters, Relay(g, r) PROVE RunInv'
  <2>1. /\ \A u \in Thread : u # g => each'[u] = each[u]
        /\ each'[g].todo \subseteq each[g].todo
        /\ each'[g].todo # {} => each'[g].call = each[g].call
        /\ each'[g].call \in {each[g].call, "none"}
    BY <1>24, VisitedLoop DEF Relay
  <2>2. UNCHANGED <<pc, running, runs, gen, ctxDone>>
    BY <1>24 DEF Relay
  <2>3. \A u \in Thread : InStop(u)' => InStop(u)
    BY <2>1, <2>2
  <2>4. \A u \in Thread : each'[u].call = "Run" /\ each'[u].todo # {} =>
                           each[u].call = "Run" /\ each[u].todo # {}
    BY <2>1
  <2> HIDE DEF InStop
  <2> QED
    BY <2>2, <2>3, <2>4
<1>25. ASSUME NEW g \in Gen, FitnessBails(g) PROVE RunInv'
  BY <1>25 DEF FitnessBails, Goto, At
<1>26. ASSUME NEW g \in Gen, Fitness(g) PROVE RunInv'
  <2>1. /\ \A u \in Thread : u # g => each'[u] = each[u]
        /\ each'[g] = each[g] \/ each'[g].call \notin {"Run", "Stop"}
    BY <1>26, StartupLoop DEF Fitness
  <2> QED
    BY <1>26, <2>1 DEF Fitness, At, Goto
<1>27. ASSUME NEW g \in Gen, Aggregate(g) PROVE RunInv'
  BY <1>27 DEF Aggregate, Goto, At
<1>28. ASSUME NEW g \in Gen, InitialReady(g) PROVE RunInv'
  <2>1. /\ \A u \in Thread : u # g => each'[u] = each[u]
        /\ each'[g] = each[g] \/ each'[g].call \notin {"Run", "Stop"}
    BY <1>28, SetReadyLoop DEF InitialReady
  <2> QED
    BY <1>28, <2>1 DEF InitialReady, At, Goto
<1>29. ASSUME NEW g \in Gen, Liveness(g) PROVE RunInv'
  <2>0. est[g].live \in BOOLEAN
    BY DEF TypeInv, TypeOK
  <2>1. /\ \A u \in Thread : u # g => each'[u] = each[u]
        /\ each'[g] = each[g] \/ each'[g].call \notin {"Run", "Stop"}
    BY <1>29, <2>0, SwapLoop DEF Liveness, Probes
  <2> QED
    BY <1>29, <2>1 DEF Liveness, At, Goto
<1>30. ASSUME NEW g \in Gen, Readiness(g) PROVE RunInv'
  <2> DEFINE ready == est[g].ready /\ est[g].live
  <2>1. each' = each \/ SetReady(g, ready)
    BY <1>30 DEF Readiness, ApplyReadiness
  <2>2. ready \in BOOLEAN
    OBVIOUS
  <2> HIDE DEF ready
  <2>3. /\ \A u \in Thread : u # g => each'[u] = each[u]
        /\ each'[g] = each[g] \/ each'[g].call = "ready"
    BY <2>1, <2>2, SetReadyLoop
  <2> QED
    BY <1>30, <2>3 DEF Readiness, At, Goto
<1>31. ASSUME NEW j \in Jobs, Wake(j) PROVE RunInv'
  BY <1>31 DEF Wake, MoveFrom
<1>32. ASSUME NEW j \in Jobs, BeginOnce(j) PROVE RunInv'
  BY <1>32 DEF BeginOnce, MoveFrom
<1>33. ASSUME NEW j \in Jobs, BeginTicker(j) PROVE RunInv'
  BY <1>33 DEF BeginTicker
<1>34. ASSUME NEW j \in Jobs, Tick(j) PROVE RunInv'
  BY <1>34 DEF Tick, MoveFrom
<1>35. ASSUME NEW j \in Jobs, TickDone(j) PROVE RunInv'
  BY <1>35 DEF TickDone, MoveFrom
<1>36. ASSUME NEW j \in Jobs, NEW o \in Outcomes, CheckReturns(j, o) PROVE RunInv'
  BY <1>36 DEF CheckReturns
<1>37. ASSUME NEW j \in Jobs, Send(j) PROVE RunInv'
  BY <1>37 DEF Send
<1>38. ASSUME NEW j \in Jobs, NEW g \in Gen, Handoff(j, g) PROVE RunInv'
  <2>1. /\ \A u \in Thread : u # g => each'[u] = each[u] /\ pc'[u] = pc[u]
        /\ each' = each \/ each'[g].call = "UpdateHealthChecks"
        /\ pc'[g] \in {"fitness", "store"}
    BY <1>38, ProcessLoop DEF Handoff
  <2> QED
    BY <1>38, <2>1 DEF Handoff, At
<1>39. ASSUME NEW g \in Gen, Cancel(g) PROVE RunInv'
  BY <1>39 DEF Cancel
<1>40. CASE RecvErr
  BY <1>40 DEF RecvErr
<1>41. CASE UNCHANGED vars
  BY <1>41 DEF vars
<1> QED
  BY <1>1, <1>2, <1>3, <1>4, <1>5, <1>6, <1>7, <1>8, <1>9, <1>10, <1>11, <1>12, <1>13, <1>14,
     <1>15, <1>16, <1>17, <1>18, <1>19, <1>20, <1>21, <1>22, <1>23, <1>24, <1>25, <1>26,
     <1>27, <1>28, <1>29, <1>30, <1>31, <1>32, <1>33, <1>34, <1>35, <1>36, <1>37, <1>38,
     <1>39, <1>40, <1>41 DEF Next, Step, Call, ApiStep, RunVisit, StopStep, Visit, Proc,
     Checker

\* RunInv holds throughout a single Run.
LEMMA RunInvariance ==
  ASSUME MaxRuns = 1
  PROVE  Spec => []RunInv
<1>1. Init => RunInv
  BY OneProcessor DEF Init, RunInv, RunLabels, StopExclusive, InStop, NoEach, ProcLabels
<1>2. TypeInv /\ RunInv /\ [Next]_vars => RunInv'
  BY RunStep
<1> QED
  BY <1>1, <1>2, TypeInvariance, PTL DEF Spec

\* In the life of one Run the reporters are stopped once, by one goroutine, and
\* only after running was cleared, however many goroutines call Stop and whenever
\* the context is cancelled.
THEOREM StopIsExclusive ==
  ASSUME MaxRuns = 1
  PROVE  Spec => []StopExclusive
<1>1. RunInv => StopExclusive
  BY DEF RunInv
<1> QED
  BY <1>1, RunInvariance, PTL

-----------------------------------------------------------------------------
\* What goroutine t may be doing while it has reporters to visit: only a processor
\* relays results, tells ready or withdraws liveness, each from one place of
\* processHealthCheck and evaluateFitness; readiness is withdrawn there or in Stop.
LoopOK(t) ==
  each[t].todo # {} =>
    /\ pc[t] # "off"
    /\ each[t].call = "UpdateHealthChecks" => t = 1 /\ pc[t] = "store"
    /\ each[t].call = "ready" /\ each[t].value => t = 1 /\ pc[t] \in {"liveness", "select"}
    /\ each[t].call = "ready" /\ ~each[t].value =>
          pc[t] = "stopReporters" \/ (t = 1 /\ pc[t] = "select")
    /\ each[t].call = "live" /\ ~each[t].value => t = 1 /\ pc[t] = "readiness" /\ ~est[1].live
    /\ pc[t] = "store" => each[t].call = "UpdateHealthChecks"

\* Loops are over registered reporters and where LoopOK says.
LoopInv == \A t \in Thread : each[t].todo \subseteq reporters /\ LoopOK(t)

\* A step of goroutine t keeps LoopInv if it keeps LoopInv of t.
LEMMA LoopFrame ==
  ASSUME LoopInv, reporters \subseteq reporters', NEW t \in Thread, t = 1 \/ est' = est,
         \A u \in Thread : u # t => each'[u] = each[u] /\ pc'[u] = pc[u],
         each'[t].todo \subseteq reporters', LoopOK(t)'
  PROVE  LoopInv'
BY DEF LoopInv, LoopOK

\* Every step of a single Run keeps LoopInv.
LEMMA LoopStep ==
  ASSUME MaxRuns = 1, TypeInv, RunInv, LoopInv, [Next]_vars
  PROVE  LoopInv'
<1> /\ Gen = {1} /\ 1 \in Thread /\ 1 \notin App /\ App \subseteq Thread
    /\ pc \in [Thread -> AppLabels \cup ProcLabels]
    /\ each \in [Thread -> [todo : SUBSET Reporters, call : EachCalls, value : BOOLEAN]]
  BY OneProcessor DEF TypeInv, TypeOK
<1> USE DEF registry, latches, results, channels, calls, checking, locals, shown, background,
        elsewhere
<1>1. ASSUME NEW t \in App, NEW c \in Checks, AddCheck(t, c) PROVE LoopInv'
  BY <1>1 DEF AddCheck, LoopInv, LoopOK, BeginAdd, Goto, Idle
<1>2. ASSUME NEW t \in App, NEW r \in Reporters, AddReporter(t, r) PROVE LoopInv'
  BY <1>2 DEF AddReporter, LoopInv, LoopOK, BeginAdd, Goto, Idle
<1>3. ASSUME NEW t \in App, RunCAS(t) PROVE LoopInv'
  BY <1>3 DEF RunCAS, LoopInv, LoopOK, Goto, Idle
<1>4. ASSUME NEW t \in App, Stop(t) PROVE LoopInv'
  BY <1>4 DEF Stop, LoopInv, LoopOK, StopCAS, AfterStop, Goto, Idle
<1>5. ASSUME NEW t \in App, AddCheckSet(t) PROVE LoopInv'
  BY <1>5 DEF AddCheckSet, LoopInv, LoopOK, At, Goto
<1>6. ASSUME NEW t \in App, AddReporterSet(t) PROVE LoopInv'
  BY <1>6 DEF AddReporterSet, LoopInv, LoopOK, At, Goto
<1>7. ASSUME NEW t \in App, InitInternals(t) PROVE LoopInv'
  BY <1>7 DEF InitInternals, LoopInv, LoopOK, At, Goto
<1>8. ASSUME NEW t \in App, Validate(t) PROVE LoopInv'
  <2>0. /\ StartEach(t, "Run", FALSE) \/ each' = each
        /\ \A u \in Thread : u # t => pc'[u] = pc[u]
        /\ pc'[t] \in {"fail", "dispatch"} /\ each[t].todo = {}
    BY <1>8 DEF Validate, At, Goto
  <2>1. /\ \A u \in Thread : u # t => each'[u] = each[u] /\ pc'[u] = pc[u]
        /\ each' = each \/ (each'[t].todo = reporters /\ each'[t].call = "Run")
    BY <2>0, StartLoop
  <2>2. each'[t].todo \subseteq reporters' /\ LoopOK(t)'
    BY <1>8, <2>0, <2>1 DEF Validate, LoopOK
  <2> QED
    BY <1>8, <2>1, <2>2, LoopFrame DEF Validate
<1>9. ASSUME NEW t \in App, Dispatch(t) PROVE LoopInv'
  <2>1. gen[t] = 1 /\ pc[1] = "off" /\ each' = each /\ reporters' = reporters
    BY <1>9 DEF Dispatch, At, RunInv, RunLabels
  <2>2. each[1].todo = {} /\ each[t].todo = {}
    BY <1>9, <2>1 DEF Dispatch, At, LoopInv, LoopOK
  <2>3. \A u \in Thread : u # t /\ u # 1 => pc'[u] = pc[u]
    BY <1>9, <2>1 DEF Dispatch
  <2> QED
    BY <2>1, <2>2, <2>3 DEF LoopInv, LoopOK
<1>10. ASSUME NEW t \in App, DispatchCancelled(t) PROVE LoopInv'
  BY <1>10 DEF DispatchCancelled, LoopInv, LoopOK, At, Goto
<1>11. ASSUME NEW t \in App, InitStartupState(t) PROVE LoopInv'
  <2>1. /\ \A u \in Thread : u # t => each'[u] = each[u] /\ pc'[u] = pc[u]
        /\ each' = each \/ (each'[t].todo = reporters /\ each'[t].call = "startup")
    <3>1. Swap(t, "startup", TRUE) \/ each' = each
      BY <1>11 DEF InitStartupState
    <3>2. "startup" \in Probes
      BY DEF Probes
    <3> QED
      BY <1>11, <3>1, <3>2, SwapLoop DEF InitStartupState, Goto
  <2>2. each[t].todo = {} /\ pc'[t] = "live"
    BY <1>11 DEF InitStartupState, At, Goto
  <2>3. each'[t].todo \subseteq reporters' /\ LoopOK(t)'
    BY <1>11, <2>1, <2>2 DEF InitStartupState, LoopOK
  <2> QED
    BY <1>11, <2>1, <2>3, LoopFrame DEF InitStartupState
<1>12. ASSUME NEW t \in App, RunLive(t) PROVE LoopInv'
  <2>0. "live" \in Probes
    BY DEF Probes
  <2>1. /\ \A u \in Thread : u # t => each'[u] = each[u] /\ pc'[u] = pc[u]
        /\ each' = each \/ (each'[t].todo = reporters /\ each'[t].call = "live" /\ each'[t].value)
    BY <1>12, <2>0, SwapLoop DEF RunLive, Goto
  <2>2. each[t].todo = {}
    BY <1>12 DEF RunLive, At
  <2>3. each'[t].todo \subseteq reporters' /\ LoopOK(t)'
    BY <1>12, <2>1, <2>2 DEF RunLive, Goto, AfterStop, LoopOK
  <2> QED
    BY <1>12, <2>1, <2>3, LoopFrame DEF RunLive
<1>13. ASSUME NEW t \in App, SendErr(t) PROVE LoopInv'
  BY <1>13 DEF SendErr, LoopInv, LoopOK, At, Goto
<1>14. ASSUME NEW t \in App, Reset(t) PROVE LoopInv'
  BY <1>14 DEF Reset, LoopInv, LoopOK, At, Goto
<1>15. ASSUME NEW t \in App, NEW r \in Reporters, RunReporter(t, r) PROVE LoopInv'
  <2>1. /\ \A u \in Thread : u # t => each'[u] = each[u] /\ pc'[u] = pc[u]
        /\ each'[t].todo \subseteq each[t].todo
        /\ each'[t].todo # {} => each'[t].call = each[t].call /\ each'[t].value = each[t].value
    BY <1>15, VisitedLoop DEF RunReporter
  <2>2. each[t].todo \subseteq reporters /\ LoopOK(t)
    BY DEF LoopInv
  <2>3. each'[t].todo \subseteq reporters' /\ LoopOK(t)'
    BY <1>15, <2>1, <2>2 DEF RunReporter, LoopOK
  <2> QED
    BY <1>15, <2>1, <2>3, LoopFrame DEF RunReporter
<1>16. ASSUME NEW t \in App, NEW r \in Reporters, RunReporterFails(t, r) PROVE LoopInv'
  <2>1. /\ each'[t].todo = {}
        /\ \A u \in Thread : u # t => each'[u] = each[u] /\ pc'[u] = pc[u]
    BY <1>16 DEF RunReporterFails, NoEach, Goto
  <2> QED
    BY <1>16, <2>1, LoopFrame DEF RunReporterFails, LoopOK
<1>17. ASSUME NEW t \in Thread, StopReady(t) PROVE LoopInv'
  <2>1. /\ \A u \in Thread : u # t => each'[u] = each[u] /\ pc'[u] = pc[u]
        /\ each' = each \/ (each'[t].todo = reporters /\ each'[t].call = "ready" /\ ~each'[t].value)
    BY <1>17, SetReadyLoop DEF StopReady, Goto
  <2>2. each[t].todo = {}
    BY <1>17 DEF StopReady, At
  <2>3. each'[t].todo \subseteq reporters' /\ LoopOK(t)'
    BY <1>17, <2>1, <2>2 DEF StopReady, Goto, AfterStop, LoopOK
  <2> QED
    BY <1>17, <2>1, <2>3, LoopFrame DEF StopReady
<1>18. ASSUME NEW t \in Thread, StopReporters(t) PROVE LoopInv'
  <2>1. /\ \A u \in Thread : u # t => each'[u] = each[u] /\ pc'[u] = pc[u]
        /\ each' = each \/ (each'[t].todo = reporters /\ each'[t].call = "Stop")
    BY <1>18, StartLoop DEF StopReporters, Goto
  <2>2. each[t].todo = {}
    BY <1>18 DEF StopReporters, At
  <2>3. each'[t].todo \subseteq reporters' /\ LoopOK(t)'
    BY <1>18, <2>1, <2>2 DEF StopReporters, Goto, AfterStop, LoopOK
  <2> QED
    BY <1>18, <2>1, <2>3, LoopFrame DEF StopReporters
<1>19. ASSUME NEW t \in Thread, NEW r \in Reporters, Tell(t, r) PROVE LoopInv'
  <2>1. /\ \A u \in Thread : u # t => each'[u] = each[u] /\ pc'[u] = pc[u]
        /\ each'[t].todo \subseteq each[t].todo
        /\ each'[t].todo # {} => each'[t].call = each[t].call /\ each'[t].value = each[t].value
    BY <1>19, VisitedLoop DEF Tell
  <2>2. each[t].todo \subseteq reporters /\ LoopOK(t)
    BY DEF LoopInv
  <2>3. each'[t].todo \subseteq reporters' /\ LoopOK(t)'
    BY <1>19, <2>1, <2>2 DEF Tell, LoopOK
  <2> QED
    BY <1>19, <2>1, <2>3, LoopFrame DEF Tell
<1>20. ASSUME NEW t \in Thread, NEW r \in Reporters, StopReporter(t, r) PROVE LoopInv'
  <2>1. /\ \A u \in Thread : u # t => each'[u] = each[u] /\ pc'[u] = pc[u]
        /\ each'[t].todo \subseteq each[t].todo
        /\ each'[t].todo # {} => each'[t].call = each[t].call /\ each'[t].value = each[t].value
    BY <1>20, VisitedLoop DEF StopReporter
  <2>2. each[t].todo \subseteq reporters /\ LoopOK(t)
    BY DEF LoopInv
  <2>3. each'[t].todo \subseteq reporters' /\ LoopOK(t)'
    BY <1>20, <2>1, <2>2 DEF StopReporter, LoopOK
  <2> QED
    BY <1>20, <2>1, <2>3, LoopFrame DEF StopReporter
<1>21. ASSUME NEW g \in Gen, ProcStop(g) PROVE LoopInv'
  BY <1>21 DEF ProcStop, LoopInv, LoopOK, StopCAS, AfterStop, ProcEnds, Goto, At
<1>22. ASSUME NEW g \in Gen, Receive(g) PROVE LoopInv'
  <2>1. /\ \A u \in Thread : u # g => each'[u] = each[u] /\ pc'[u] = pc[u]
        /\ each' = each \/ (each'[g].todo = reporters /\ each'[g].call = "UpdateHealthChecks"
                             /\ pc'[g] = "store")
    BY <1>22, ProcessLoop DEF Receive
  <2>2. each[g].todo = {}
    BY <1>22 DEF Receive, At
  <2>3. each'[g].todo \subseteq reporters' /\ LoopOK(g)'
    BY <1>22, <2>1, <2>2 DEF Receive, LoopOK
  <2> QED
    BY <1>22, <2>1, <2>3, LoopFrame DEF Receive
<1>23. ASSUME NEW g \in Gen, Store(g) PROVE LoopInv'
  BY <1>23 DEF Store, LoopInv, LoopOK, At, Goto
<1>24. ASSUME NEW g \in Gen, NEW r \in Reporters, Relay(g, r) PROVE LoopInv'
  <2>1. /\ \A u \in Thread : u # g => each'[u] = each[u] /\ pc'[u] = pc[u]
        /\ each'[g].todo \subseteq each[g].todo
        /\ each'[g].todo # {} => each'[g].call = each[g].call /\ each'[g].value = each[g].value
    BY <1>24, VisitedLoop DEF Relay
  <2>2. each[g].todo \subseteq reporters /\ LoopOK(g)
    BY DEF LoopInv
  <2>3. each'[g].todo \subseteq reporters' /\ LoopOK(g)'
    BY <1>24, <2>1, <2>2 DEF Relay, LoopOK
  <2> QED
    BY <1>24, <2>1, <2>3, LoopFrame DEF Relay
<1>25. ASSUME NEW g \in Gen, FitnessBails(g) PROVE LoopInv'
  BY <1>25 DEF FitnessBails, LoopInv, LoopOK, At, Goto
<1>26. ASSUME NEW g \in Gen, Fitness(g) PROVE LoopInv'
  <2>1. /\ \A u \in Thread : u # g => each'[u] = each[u] /\ pc'[u] = pc[u]
        /\ each' = each \/ (each'[g].todo = reporters /\ each'[g].call = "startup")
    BY <1>26, StartupLoop DEF Fitness, Goto
  <2>2. each[g].todo = {}
    BY <1>26 DEF Fitness, At
  <2>3. each'[g].todo \subseteq reporters' /\ LoopOK(g)'
    BY <1>26, <2>1, <2>2 DEF Fitness, Goto, AfterStop, LoopOK
  <2> QED
    BY <1>26, <2>1, <2>3, LoopFrame DEF Fitness
<1>27. ASSUME NEW g \in Gen, Aggregate(g) PROVE LoopInv'
  BY <1>27 DEF Aggregate, LoopInv, LoopOK, At, Goto
<1>28. ASSUME NEW g \in Gen, InitialReady(g) PROVE LoopInv'
  <2>1. /\ \A u \in Thread : u # g => each'[u] = each[u] /\ pc'[u] = pc[u]
        /\ each' = each \/ (each'[g].todo = reporters /\ each'[g].call = "ready" /\ each'[g].value)
    BY <1>28, SetReadyLoop DEF InitialReady, Goto
  <2>2. each[g].todo = {}
    BY <1>28 DEF InitialReady, At
  <2>3. each'[g].todo \subseteq reporters' /\ LoopOK(g)'
    BY <1>28, <2>1, <2>2 DEF InitialReady, Goto, AfterStop, LoopOK
  <2> QED
    BY <1>28, <2>1, <2>3, LoopFrame DEF InitialReady
<1>29. ASSUME NEW g \in Gen, Liveness(g) PROVE LoopInv'
  <2>0. est[g].live \in BOOLEAN
    BY DEF TypeInv, TypeOK
  <2>1. /\ \A u \in Thread : u # g => each'[u] = each[u] /\ pc'[u] = pc[u]
        /\ each' = each \/ (each'[g].todo = reporters /\ each'[g].call = "live" /\ each'[g].value = est[g].live)
    BY <1>29, <2>0, SwapLoop DEF Liveness, Goto, Probes
  <2>2. each[g].todo = {}
    BY <1>29 DEF Liveness, At
  <2>3. each'[g].todo \subseteq reporters' /\ LoopOK(g)'
    BY <1>29, <2>1, <2>2 DEF Liveness, Goto, AfterStop, LoopOK
  <2> QED
    BY <1>29, <2>1, <2>3, LoopFrame DEF Liveness
<1>30. ASSUME NEW g \in Gen, Readiness(g) PROVE LoopInv'
  <2> DEFINE ready == est[g].ready /\ est[g].live
  <2>0. each' = each \/ SetReady(g, ready)
    BY <1>30 DEF Readiness, ApplyReadiness
  <2>b. ready \in BOOLEAN
    OBVIOUS
  <2> HIDE DEF ready
  <2>1. /\ \A u \in Thread : u # g => each'[u] = each[u] /\ pc'[u] = pc[u]
        /\ each' = each \/ (each'[g].todo = reporters /\ each'[g].call = "ready")
    BY <1>30, <2>0, <2>b, SetReadyLoop DEF Readiness, Goto
  <2>2. each[g].todo = {} /\ pc'[g] = "select"
    BY <1>30 DEF Readiness, At, Goto
  <2>3. each'[g].todo \subseteq reporters' /\ LoopOK(g)'
    BY <1>30, <2>1, <2>2 DEF Readiness, LoopOK
  <2> QED
    BY <1>30, <2>1, <2>3, LoopFrame DEF Readiness
<1>31. ASSUME NEW j \in Jobs, Wake(j) PROVE LoopInv'
  BY <1>31 DEF Wake, LoopInv, LoopOK, MoveFrom
<1>32. ASSUME NEW j \in Jobs, BeginOnce(j) PROVE LoopInv'
  BY <1>32 DEF BeginOnce, LoopInv, LoopOK, MoveFrom
<1>33. ASSUME NEW j \in Jobs, BeginTicker(j) PROVE LoopInv'
  BY <1>33 DEF BeginTicker, LoopInv, LoopOK
<1>34. ASSUME NEW j \in Jobs, Tick(j) PROVE LoopInv'
  BY <1>34 DEF Tick, LoopInv, LoopOK, MoveFrom
<1>35. ASSUME NEW j \in Jobs, TickDone(j) PROVE LoopInv'
  BY <1>35 DEF TickDone, LoopInv, LoopOK, MoveFrom
<1>36. ASSUME NEW j \in Jobs, NEW o \in Outcomes, CheckReturns(j, o) PROVE LoopInv'
  BY <1>36 DEF CheckReturns, LoopInv, LoopOK
<1>37. ASSUME NEW j \in Jobs, Send(j) PROVE LoopInv'
  BY <1>37 DEF Send, LoopInv, LoopOK
<1>38. ASSUME NEW j \in Jobs, NEW g \in Gen, Handoff(j, g) PROVE LoopInv'
  <2>1. /\ \A u \in Thread : u # g => each'[u] = each[u] /\ pc'[u] = pc[u]
        /\ each' = each \/ (each'[g].todo = reporters /\ each'[g].call = "UpdateHealthChecks"
                             /\ pc'[g] = "store")
    BY <1>38, ProcessLoop DEF Handoff
  <2>2. each[g].todo = {}
    BY <1>38 DEF Handoff, At
  <2>3. each'[g].todo \subseteq reporters' /\ LoopOK(g)'
    BY <1>38, <2>1, <2>2 DEF Handoff, LoopOK
  <2> QED
    BY <1>38, <2>1, <2>3, LoopFrame DEF Handoff
<1>39. ASSUME NEW g \in Gen, Cancel(g) PROVE LoopInv'
  BY <1>39 DEF Cancel, LoopInv, LoopOK
<1>40. CASE RecvErr
  BY <1>40 DEF RecvErr, LoopInv, LoopOK
<1>41. CASE UNCHANGED vars
  BY <1>41 DEF vars, LoopInv, LoopOK
<1> QED
  BY <1>1, <1>2, <1>3, <1>4, <1>5, <1>6, <1>7, <1>8, <1>9, <1>10, <1>11, <1>12, <1>13, <1>14,
     <1>15, <1>16, <1>17, <1>18, <1>19, <1>20, <1>21, <1>22, <1>23, <1>24, <1>25, <1>26,
     <1>27, <1>28, <1>29, <1>30, <1>31, <1>32, <1>33, <1>34, <1>35, <1>36, <1>37, <1>38,
     <1>39, <1>40, <1>41 DEF Next, Step, Call, ApiStep, RunVisit, StopStep, Visit, Proc,
     Checker
-----------------------------------------------------------------------------
\* Between Aggregate and the end of evaluateFitness.
Applying == {"initial", "liveness", "readiness"}

\* Before its processor starts a Run has no results; allChecksRan says that every
\* dispatched check has one; while a processor applies what it aggregated, nobody
\* else stores a result, so that its copy is not stale.
ResultInv ==
  /\ pc[1] = "off" => /\ ~allChecksRan
                      /\ reported = {} /\ cancelLive = {} /\ cancelReady = {}
                      /\ \A j \in Jobs : chk[j] = "off"
  /\ allChecksRan => Dispatched \subseteq reported
  /\ cancelLive \subseteq cancelReady
  /\ pc[1] \in Applying => /\ est[1].live <=> cancelLive = {}
                           /\ est[1].ready <=> cancelReady = {}

\* A step that leaves results, estimates and the set of dispatched checks alone.
Quiet ==
  /\ UNCHANGED <<results, allChecksRan, est>>
  /\ pc'[1] = pc[1] \/ (pc[1] # "off" /\ pc'[1] \notin Applying \cup {"off"})
  /\ \A j \in Jobs : chk'[j] = "off" <=> chk[j] = "off"

\* The steps that are not quiet.
LEMMA ResultFrame ==
  ASSUME MaxRuns = 1, TypeInv, RunInv, [Next]_vars
  PROVE  \/ Quiet
         \/ \E t \in App : Dispatch(t)
         \/ Store(1) \/ Aggregate(1) \/ InitialReady(1) \/ Liveness(1) \/ Readiness(1)
<1> /\ Gen = {1} /\ 1 \in Thread /\ 1 \notin App
    /\ pc \in [Thread -> AppLabels \cup ProcLabels] /\ chk \in [Jobs -> CheckerLabels]
  BY OneProcessor DEF TypeInv, TypeOK
<1> DEFINE Kind == \/ Quiet
                   \/ \E t \in App : Dispatch(t)
                   \/ Store(1) \/ Aggregate(1) \/ InitialReady(1) \/ Liveness(1) \/ Readiness(1)
<1> USE DEF registry, latches, results, channels, calls, checking, locals, shown, background,
        elsewhere
<1>1. ASSUME NEW t \in App, NEW c \in Checks, AddCheck(t, c) PROVE Kind
  BY <1>1 DEF AddCheck, Quiet, BeginAdd, Goto
<1>2. ASSUME NEW t \in App, NEW r \in Reporters, AddReporter(t, r) PROVE Kind
  BY <1>2 DEF AddReporter, Quiet, BeginAdd, Goto
<1>3. ASSUME NEW t \in App, RunCAS(t) PROVE Kind
  BY <1>3 DEF RunCAS, Quiet, Goto
<1>4. ASSUME NEW t \in App, Stop(t) PROVE Kind
  BY <1>4 DEF Stop, Quiet, StopCAS, Goto
<1>5. ASSUME NEW t \in App, AddCheckSet(t) PROVE Kind
  BY <1>5 DEF AddCheckSet, Quiet, Goto
<1>6. ASSUME NEW t \in App, AddReporterSet(t) PROVE Kind
  BY <1>6 DEF AddReporterSet, Quiet, Goto
<1>7. ASSUME NEW t \in App, InitInternals(t) PROVE Kind
  BY <1>7 DEF InitInternals, Quiet, Goto
<1>8. ASSUME NEW t \in App, Validate(t) PROVE Kind
  BY <1>8 DEF Validate, Quiet, Goto
<1>9. ASSUME NEW t \in App, Dispatch(t) PROVE Kind
  BY <1>9
<1>10. ASSUME NEW t \in App, DispatchCancelled(t) PROVE Kind
  BY <1>10 DEF DispatchCancelled, Quiet, Goto
<1>11. ASSUME NEW t \in App, InitStartupState(t) PROVE Kind
  BY <1>11 DEF InitStartupState, Quiet, Goto
<1>12. ASSUME NEW t \in App, RunLive(t) PROVE Kind
  BY <1>12 DEF RunLive, Quiet, Goto
<1>13. ASSUME NEW t \in App, SendErr(t) PROVE Kind
  BY <1>13 DEF SendErr, Quiet, Goto
<1>14. ASSUME NEW t \in App, Reset(t) PROVE Kind
  BY <1>14 DEF Reset, Quiet, Goto
<1>15. ASSUME NEW t \in App, NEW r \in Reporters, RunReporter(t, r) PROVE Kind
  BY <1>15 DEF RunReporter, Quiet
<1>16. ASSUME NEW t \in App, NEW r \in Reporters, RunReporterFails(t, r) PROVE Kind
  BY <1>16 DEF RunReporterFails, Quiet, Goto
<1>17. ASSUME NEW t \in Thread, StopReady(t) PROVE Kind
  BY <1>17 DEF StopReady, Quiet, Goto, At, Applying
<1>18. ASSUME NEW t \in Thread, StopReporters(t) PROVE Kind
  BY <1>18 DEF StopReporters, Quiet, Goto, At, AfterStop, Applying
<1>19. ASSUME NEW t \in Thread, NEW r \in Reporters, Tell(t, r) PROVE Kind
  BY <1>19 DEF Tell, Quiet
<1>20. ASSUME NEW t \in Thread, NEW r \in Reporters, StopReporter(t, r) PROVE Kind
  BY <1>20 DEF StopReporter, Quiet
<1>21. ASSUME NEW g \in Gen, ProcStop(g) PROVE Kind
  BY <1>21 DEF ProcStop, Quiet, StopCAS, AfterStop, Goto, At, Applying
<1>22. ASSUME NEW g \in Gen, Receive(g) PROVE Kind
  BY <1>22 DEF Receive, Quiet, Process, Goto, At, Applying
<1>23. ASSUME NEW g \in Gen, Store(g) PROVE Kind
  BY <1>23
<1>24. ASSUME NEW g \in Gen, NEW r \in Reporters, Relay(g, r) PROVE Kind
  BY <1>24 DEF Relay, Quiet
<1>25. ASSUME NEW g \in Gen, FitnessBails(g) PROVE Kind
  BY <1>25 DEF FitnessBails, Quiet, Goto, At, Applying
<1>26. ASSUME NEW g \in Gen, Fitness(g) PROVE Kind
  BY <1>26 DEF Fitness, Quiet, Goto, At, Applying
<1>27. ASSUME NEW g \in Gen, Aggregate(g) PROVE Kind
  BY <1>27
<1>28. ASSUME NEW g \in Gen, InitialReady(g) PROVE Kind
  BY <1>28
<1>29. ASSUME NEW g \in Gen, Liveness(g) PROVE Kind
  BY <1>29
<1>30. ASSUME NEW g \in Gen, Readiness(g) PROVE Kind
  BY <1>30
<1>31. ASSUME NEW j \in Jobs, Wake(j) PROVE Kind
  BY <1>31 DEF Wake, Quiet, MoveFrom, Move
<1>32. ASSUME NEW j \in Jobs, BeginOnce(j) PROVE Kind
  BY <1>32 DEF BeginOnce, Quiet, MoveFrom, Move
<1>33. ASSUME NEW j \in Jobs, BeginTicker(j) PROVE Kind
  BY <1>33 DEF BeginTicker, Quiet, Move
<1>34. ASSUME NEW j \in Jobs, Tick(j) PROVE Kind
  BY <1>34 DEF Tick, Quiet, MoveFrom, Move
<1>35. ASSUME NEW j \in Jobs, TickDone(j) PROVE Kind
  BY <1>35 DEF TickDone, Quiet, MoveFrom, Move
<1>36. ASSUME NEW j \in Jobs, NEW o \in Outcomes, CheckReturns(j, o) PROVE Kind
  BY <1>36 DEF CheckReturns, Quiet, Move, AfterCheck
<1>37. ASSUME NEW j \in Jobs, Send(j) PROVE Kind
  BY <1>37 DEF Send, Quiet, Move, AfterCheck
<1>38. ASSUME NEW j \in Jobs, NEW g \in Gen, Handoff(j, g) PROVE Kind
  BY <1>38 DEF Handoff, Quiet, Process, Goto, At, Applying, Move, AfterCheck
<1>39. ASSUME NEW g \in Gen, Cancel(g) PROVE Kind
  BY <1>39 DEF Cancel, Quiet
<1>40. CASE RecvErr
  BY <1>40 DEF RecvErr, Quiet
<1>41. CASE UNCHANGED vars
  BY <1>41 DEF vars, Quiet
<1> QED
  BY <1>1, <1>2, <1>3, <1>4, <1>5, <1>6, <1>7, <1>8, <1>9, <1>10, <1>11, <1>12, <1>13, <1>14,
     <1>15, <1>16, <1>17, <1>18, <1>19, <1>20, <1>21, <1>22, <1>23, <1>24, <1>25, <1>26,
     <1>27, <1>28, <1>29, <1>30, <1>31, <1>32, <1>33, <1>34, <1>35, <1>36, <1>37, <1>38,
     <1>39, <1>40, <1>41 DEF Next, Step, Call, ApiStep, RunVisit, StopStep, Visit, Proc,
     Checker

\* Every step of a single Run keeps ResultInv.
LEMMA ResultStep ==
  ASSUME MaxRuns = 1, TypeInv, RunInv, NamesKnown, NamesKnown', ResultInv, [Next]_vars
  PROVE  ResultInv'
<1> /\ Gen = {1} /\ 1 \in Thread /\ 1 \notin App /\ App \subseteq Thread
    /\ pc \in [Thread -> AppLabels \cup ProcLabels]
    /\ est \in [Gen -> [live : BOOLEAN, ready : BOOLEAN, shownReady : BOOLEAN]]
  BY OneProcessor DEF TypeInv, TypeOK
<1> USE DEF registry, latches, results, channels, calls, checking, locals, shown, background
<1>1. CASE Quiet
  <2>1. Dispatched' = Dispatched
    BY <1>1 DEF Quiet, Dispatched
  <2> QED
    BY <1>1, <2>1 DEF Quiet, ResultInv
<1>2. ASSUME NEW t \in App, Dispatch(t) PROVE ResultInv'
  <2>1. gen[t] = 1 /\ pc[1] = "off"
    BY <1>2 DEF Dispatch, At, RunInv, RunLabels
  <2>2. pc'[1] = "select" /\ UNCHANGED <<results, allChecksRan>>
    BY <1>2, <2>1 DEF Dispatch
  <2> QED
    BY <2>1, <2>2 DEF ResultInv, Applying
<1>3. CASE Store(1)
  <2>1. pc[1] = "store" /\ pc'[1] = "fitness" /\ chk' = chk /\ checkers' = checkers
    BY <1>3 DEF Store, At, Goto
  <2>2. Dispatched' = Dispatched /\ Dispatched \subseteq checkers
    BY <2>1 DEF Dispatched, NamesKnown
  <2>3. allChecksRan' => Dispatched \subseteq reported'
    <3>1. CASE allChecksRan
      BY <1>3, <3>1 DEF Store, ResultInv
    <3>2. CASE Cardinality(reported') = Cardinality(checkers)
      <4>1. reported' \subseteq checkers /\ IsFiniteSet(checkers)
        BY <2>1, SetsAssumption, FS_Subset DEF NamesKnown, TypeInv, TypeOK
      <4> QED
        BY <2>2, <3>2, <4>1, SameSize
    <3> QED
      BY <1>3, <3>1, <3>2 DEF Store, AllReported
  <2>4. cancelLive' \subseteq cancelReady'
    BY <1>3 DEF Store, Put, CancelsLive, CancelsReady, ResultInv
  <2> QED
    BY <2>1, <2>2, <2>3, <2>4 DEF ResultInv, Applying
<1>4. CASE Aggregate(1)
  <2>1. /\ pc[1] = "aggregate" /\ pc'[1] = "initial" /\ chk' = chk
        /\ UNCHANGED <<results, allChecksRan>>
    BY <1>4 DEF Aggregate, At, Goto
  <2> DEFINE l == cancelLive = {}
             r == cancelReady = {}
  <2>2. est'[1] = [live |-> l, ready |-> r, shownReady |-> flag["ready"]]
    BY <1>4 DEF Aggregate
  <2>b. l \in BOOLEAN /\ r \in BOOLEAN
    OBVIOUS
  <2>3. Dispatched' = Dispatched
    BY <2>1 DEF Dispatched
  <2> HIDE DEF l, r
  <2>4. (est'[1].live <=> l) /\ (est'[1].ready <=> r)
    BY <2>2, <2>b
  <2> QED
    BY <2>1, <2>3, <2>4 DEF ResultInv, Applying, l, r
<1>5. CASE InitialReady(1)
  <2>1. /\ pc[1] = "initial" /\ pc'[1] = "liveness" /\ chk' = chk
        /\ UNCHANGED <<results, allChecksRan>>
    BY <1>5 DEF InitialReady, At, Goto
  <2>2. (est'[1].live <=> est[1].live) /\ (est'[1].ready <=> est[1].ready)
    <3>1. CASE est[1].ready /\ ~initialReady
      <4>1. est'[1] = [live |-> est[1].live, ready |-> TRUE, shownReady |-> TRUE]
        BY <1>5, <3>1 DEF InitialReady
      <4> QED
        BY <3>1, <4>1
    <3>2. CASE ~(est[1].ready /\ ~initialReady)
      BY <1>5, <3>2 DEF InitialReady
    <3> QED
      BY <3>1, <3>2
  <2>3. Dispatched' = Dispatched
    BY <2>1 DEF Dispatched
  <2> QED
    BY <2>1, <2>2, <2>3 DEF ResultInv, Applying
<1>6. CASE Liveness(1)
  <2>1. /\ pc[1] = "liveness" /\ pc'[1] = "readiness" /\ chk' = chk
        /\ UNCHANGED <<results, allChecksRan, est>>
    BY <1>6 DEF Liveness, At, Goto
  <2>2. Dispatched' = Dispatched
    BY <2>1 DEF Dispatched
  <2> QED
    BY <2>1, <2>2 DEF ResultInv, Applying
<1>7. CASE Readiness(1)
  <2>1. /\ pc[1] = "readiness" /\ pc'[1] = "select" /\ chk' = chk
        /\ UNCHANGED <<results, allChecksRan>>
    BY <1>7 DEF Readiness, At, Goto
  <2>2. Dispatched' = Dispatched
    BY <2>1 DEF Dispatched
  <2> QED
    BY <2>1, <2>2 DEF ResultInv, Applying
<1> QED
  BY <1>1, <1>2, <1>3, <1>4, <1>5, <1>6, <1>7, ResultFrame

\* NamesKnown, on which LatchIsSound rests, holds in every reachable state.
LEMMA NamesInvariance == Spec => []NamesKnown
<1>1. Init => NamesKnown
  BY DEF Init, NamesKnown, Thread, Gen
<1> QED
  BY <1>1, NamesStep, TypeInvariance, PTL DEF Spec

\* ResultInv holds throughout a single Run.
LEMMA ResultInvariance ==
  ASSUME MaxRuns = 1
  PROVE  Spec => []ResultInv
<1>1. Init => ResultInv
  BY OneProcessor DEF Init, ResultInv, Applying, Dispatched
<1>2. TypeInv /\ RunInv /\ NamesKnown /\ NamesKnown' /\ ResultInv /\ [Next]_vars => ResultInv'
  BY ResultStep
<1> QED
  BY <1>1, <1>2, TypeInvariance, RunInvariance, NamesInvariance, PTL DEF Spec

\* Only evaluateFitness turns readiness on.
LEMMA FlipFrame ==
  ASSUME MaxRuns = 1, TypeInv, [Next]_vars, ~flag["ready"], flag'["ready"]
  PROVE  InitialReady(1) \/ Readiness(1)
<1> Gen = {1} /\ 1 \in Thread /\ App \subseteq Thread /\ flag \in [Probes -> BOOLEAN]
  BY OneProcessor DEF TypeInv, TypeOK
<1> USE DEF latches, background, elsewhere
<1>1. ASSUME NEW t \in App, Call(t) PROVE FALSE
  BY <1>1 DEF Call, AddCheck, AddReporter, BeginAdd, RunCAS, Stop
<1>2. ASSUME NEW t \in App, ApiStep(t) PROVE FALSE
  BY <1>2 DEF ApiStep, AddCheckSet, AddReporterSet, InitInternals, Validate, Dispatch,
              DispatchCancelled, InitStartupState, RunLive, SendErr, Reset, Swap, Probes
<1>3. ASSUME NEW t \in App, RunVisit(t) PROVE FALSE
  BY <1>3 DEF RunVisit, RunReporter, RunReporterFails
<1>4. ASSUME NEW t \in Thread, StopStep(t) PROVE FALSE
  BY <1>4 DEF StopStep, StopReady, StopReporters, SetReady, Swap
<1>5. ASSUME NEW t \in Thread, Visit(t) PROVE FALSE
  BY <1>5 DEF Visit, Tell, StopReporter
<1>6. CASE Proc(1)
  BY <1>6 DEF Proc, ProcStop, Receive, Store, Relay, FitnessBails, Fitness, CompleteStartup,
              Swap, Aggregate, Liveness, Probes
<1>7. ASSUME NEW j \in Jobs, Checker(j) \/ TickDone(j) \/ Send(j) PROVE FALSE
  BY <1>7 DEF Checker, Wake, BeginOnce, BeginTicker, Tick, TickDone, MoveFrom, CheckReturns, Send
<1>8. ASSUME NEW j \in Jobs, NEW g \in Gen, Handoff(j, g) PROVE FALSE
  BY <1>8 DEF Handoff
<1>9. ASSUME NEW g \in Gen, Cancel(g) PROVE FALSE
  BY <1>9 DEF Cancel
<1>10. CASE RecvErr
  BY <1>10 DEF RecvErr
<1>11. CASE UNCHANGED vars
  BY <1>11 DEF vars
<1> QED
  BY <1>1, <1>2, <1>3, <1>4, <1>5, <1>6, <1>7, <1>8, <1>9, <1>10, <1>11 DEF Next, Step

\* In one Run, readiness is turned on only while every dispatched check has a
\* result and none of them denies readiness or liveness: what evaluateFitness
\* aggregated is still true when it acts on it, two fan-outs later.
THEOREM ReadyFlipIsJustified ==
  ASSUME MaxRuns = 1
  PROVE  Spec => ReadyFlipJustified
<1>1. ASSUME TypeInv, GateInv, ResultInv, [Next]_vars, ~flag["ready"], flag'["ready"]
      PROVE  cancelReady = {} /\ cancelLive = {} /\ Dispatched \subseteq reported
  <2>1. InitialReady(1) \/ Readiness(1)
    BY <1>1, FlipFrame
  <2>2. pc[1] \in Applying /\ pc[1] \in Evaluating
    BY <2>1 DEF InitialReady, Readiness, At, Applying, Evaluating
  <2>3. Dispatched \subseteq reported
    BY <1>1, <2>2, OneProcessor DEF GateInv, GatesOpen, ResultInv
  <2>4. CASE InitialReady(1)
    BY <1>1, <2>2, <2>3, <2>4 DEF InitialReady, ResultInv
  <2>5. CASE Readiness(1)
    <3>1. est[1].ready /\ est[1].live
      BY <1>1, <2>5, OneProcessor DEF Readiness, ApplyReadiness, SetReady, Swap, TypeInv, TypeOK
    <3> QED
      BY <1>1, <2>2, <2>3, <3>1 DEF ResultInv
  <2> QED
    BY <2>1, <2>4, <2>5
<1>2. TypeInv /\ GateInv /\ ResultInv /\ [Next]_vars =>
        [~flag["ready"] /\ flag'["ready"] =>
           cancelReady = {} /\ cancelLive = {} /\ Dispatched \subseteq reported]_vars
  BY <1>1
<1> QED
  BY <1>2, TypeInvariance, GateInvariance, ResultInvariance, PTL DEF Spec, ReadyFlipJustified

\* LoopInv holds throughout a single Run.
LEMMA LoopInvariance ==
  ASSUME MaxRuns = 1
  PROVE  Spec => []LoopInv
<1>1. Init => LoopInv
  BY DEF Init, LoopInv, LoopOK, NoEach
<1>2. TypeInv /\ RunInv /\ LoopInv /\ [Next]_vars => LoopInv'
  BY LoopStep
<1> QED
  BY <1>1, <1>2, TypeInvariance, RunInvariance, PTL DEF Spec

-----------------------------------------------------------------------------
\* No check and no reporter is added after a Run has dispatched.  AddCheck and
\* AddReporter refuse while running is set, but a call that loaded running before
\* Run, or one made after Stop while the processor is still evaluating, gets by:
\* a reporter that is added then hears of probes and not of the results before.
Fixed == (\E g \in Gen : pc[g] # "off") => UNCHANGED registry
RegistersFirst == [][Fixed]_vars

\* Reporter r was given the result of check c that the manager holds.
Shows(r, c) ==
  /\ c \in reported <=> seen[r][c] # "none"
  /\ c \in cancelLive <=> seen[r][c] = "unhealthy" /\ c \in AffectsLiveness
  /\ c \in cancelReady <=> seen[r][c] = "unhealthy" /\ ImpactsReady(c)

\* The reporters were given what the manager holds, except for the result that the
\* processor is just relaying, which the ones already visited have.
ShownInv ==
  /\ pc[1] = "off" => \A r \in Reporters, c \in Checks : seen[r][c] = "none"
  /\ \A r \in reporters, c \in Checks : (pc[1] = "store" /\ hc[1].name = c) \/ Shows(r, c)
  /\ \A r \in reporters, c \in reported : seen[r][c] # "none"
  /\ pc[1] = "store" => \A r \in reporters \ each[1].todo : seen[r][hc[1].name] = hc[1].status

\* A step that leaves the stored and the relayed results alone.
Unseen ==
  /\ UNCHANGED <<results, seen>>
  /\ pc[1] # "off" => reporters' = reporters
  /\ pc'[1] = "off" <=> pc[1] = "off"
  /\ pc'[1] = "store" <=> pc[1] = "store"
  /\ pc[1] = "store" => hc'[1] = hc[1] /\ each'[1].todo = each[1].todo

\* The other steps.
LEMMA SeenFrame ==
  ASSUME MaxRuns = 1, TypeInv, RunInv, LoopInv, [Next]_vars, Fixed
  PROVE  \/ Unseen
         \/ \E t \in App : Dispatch(t)
         \/ Store(1) \/ Receive(1) \/ (\E j \in Jobs : Handoff(j, 1))
         \/ \E r \in Reporters : Relay(1, r)
<1> /\ Gen = {1} /\ 1 \in Thread /\ 1 \notin App /\ App \subseteq Thread
    /\ pc \in [Thread -> AppLabels \cup ProcLabels]
    /\ each \in [Thread -> [todo : SUBSET Reporters, call : EachCalls, value : BOOLEAN]]
    /\ pc[1] # "off" => reporters' = reporters
  BY OneProcessor DEF TypeInv, TypeOK, Fixed, registry
<1> DEFINE Kind == \/ Unseen
                   \/ \E t \in App : Dispatch(t)
                   \/ Store(1) \/ Receive(1) \/ (\E j \in Jobs : Handoff(j, 1))
                   \/ \E r \in Reporters : Relay(1, r)
<1> USE DEF registry, latches, results, channels, calls, checking, locals, shown, background,
        elsewhere
<1>1. ASSUME NEW t \in App, NEW c \in Checks, AddCheck(t, c) PROVE Kind
  BY <1>1 DEF AddCheck, Unseen, BeginAdd, Goto
<1>2. ASSUME NEW t \in App, NEW r \in Reporters, AddReporter(t, r) PROVE Kind
  BY <1>2 DEF AddReporter, Unseen, BeginAdd, Goto
<1>3. ASSUME NEW t \in App, RunCAS(t) PROVE Kind
  BY <1>3 DEF RunCAS, Unseen, Goto
<1>4. ASSUME NEW t \in App, Stop(t) PROVE Kind
  BY <1>4 DEF Stop, Unseen, StopCAS, Goto
<1>5. ASSUME NEW t \in App, AddCheckSet(t) PROVE Kind
  BY <1>5 DEF AddCheckSet, Unseen, Goto
<1>6. ASSUME NEW t \in App, AddReporterSet(t) PROVE Kind
  BY <1>6 DEF AddReporterSet, Unseen, Goto
<1>7. ASSUME NEW t \in App, InitInternals(t) PROVE Kind
  BY <1>7 DEF InitInternals, Unseen, Goto
<1>8. ASSUME NEW t \in App, Validate(t) PROVE Kind
  BY <1>8 DEF Validate, Unseen, Goto, StartEach
<1>9. ASSUME NEW t \in App, Dispatch(t) PROVE Kind
  BY <1>9
<1>10. ASSUME NEW t \in App, DispatchCancelled(t) PROVE Kind
  BY <1>10 DEF DispatchCancelled, Unseen, Goto
<1>11. ASSUME NEW t \in App, InitStartupState(t) PROVE Kind
  BY <1>11 DEF InitStartupState, Unseen, Goto, Swap, StartEach
<1>12. ASSUME NEW t \in App, RunLive(t) PROVE Kind
  BY <1>12 DEF RunLive, Unseen, Goto, Swap, StartEach
<1>13. ASSUME NEW t \in App, SendErr(t) PROVE Kind
  BY <1>13 DEF SendErr, Unseen, Goto
<1>14. ASSUME NEW t \in App, Reset(t) PROVE Kind
  BY <1>14 DEF Reset, Unseen, Goto
<1>15. ASSUME NEW t \in App, NEW r \in Reporters, RunReporter(t, r) PROVE Kind
  BY <1>15 DEF RunReporter, Visited, Unseen
<1>16. ASSUME NEW t \in App, NEW r \in Reporters, RunReporterFails(t, r) PROVE Kind
  BY <1>16 DEF RunReporterFails, Unseen, Goto
<1>17. ASSUME NEW t \in Thread, StopReady(t) PROVE Kind
  <2>1. t # 1 => each'[1] = each[1]
    BY <1>17, SetReadyLoop DEF StopReady
  <2> QED
    BY <1>17, <2>1 DEF StopReady, Unseen, At, Goto
<1>18. ASSUME NEW t \in Thread, StopReporters(t) PROVE Kind
  BY <1>18 DEF StopReporters, Unseen, Goto, At, AfterStop, StartEach
<1>19. ASSUME NEW t \in Thread, NEW r \in Reporters, Tell(t, r) PROVE Kind
  <2>1. t = 1 => pc[1] # "store"
    BY <1>19 DEF Tell, LoopInv, LoopOK, Probes
  <2>2. t # 1 => each'[1] = each[1]
    BY <1>19 DEF Tell, Visited
  <2> QED
    BY <1>19, <2>1, <2>2 DEF Tell, Unseen
<1>20. ASSUME NEW t \in Thread, NEW r \in Reporters, StopReporter(t, r) PROVE Kind
  <2>1. t = 1 => pc[1] # "store"
    BY <1>20 DEF StopReporter, LoopInv, LoopOK, Probes
  <2>2. t # 1 => each'[1] = each[1]
    BY <1>20 DEF StopReporter, Visited
  <2> QED
    BY <1>20, <2>1, <2>2 DEF StopReporter, Unseen
<1>21. ASSUME NEW g \in Gen, ProcStop(g) PROVE Kind
  BY <1>21 DEF ProcStop, Unseen, StopCAS, AfterStop, Goto, At
<1>22. ASSUME NEW g \in Gen, Receive(g) PROVE Kind
  BY <1>22
<1>23. ASSUME NEW g \in Gen, Store(g) PROVE Kind
  BY <1>23
<1>24. ASSUME NEW g \in Gen, NEW r \in Reporters, Relay(g, r) PROVE Kind
  BY <1>24
<1>25. ASSUME NEW g \in Gen, FitnessBails(g) PROVE Kind
  BY <1>25 DEF FitnessBails, Unseen, Goto, At
<1>26. ASSUME NEW g \in Gen, Fitness(g) PROVE Kind
  BY <1>26 DEF Fitness, Unseen, Goto, At
<1>27. ASSUME NEW g \in Gen, Aggregate(g) PROVE Kind
  BY <1>27 DEF Aggregate, Unseen, Goto, At
<1>28. ASSUME NEW g \in Gen, InitialReady(g) PROVE Kind
  BY <1>28 DEF InitialReady, Unseen, Goto, At
<1>29. ASSUME NEW g \in Gen, Liveness(g) PROVE Kind
  BY <1>29 DEF Liveness, Unseen, Goto, At
<1>30. ASSUME NEW g \in Gen, Readiness(g) PROVE Kind
  BY <1>30 DEF Readiness, Unseen, Goto, At
<1>31. ASSUME NEW j \in Jobs, Wake(j) PROVE Kind
  BY <1>31 DEF Wake, Unseen, MoveFrom
<1>32. ASSUME NEW j \in Jobs, BeginOnce(j) PROVE Kind
  BY <1>32 DEF BeginOnce, Unseen, MoveFrom
<1>33. ASSUME NEW j \in Jobs, BeginTicker(j) PROVE Kind
  BY <1>33 DEF BeginTicker, Unseen
<1>34. ASSUME NEW j \in Jobs, Tick(j) PROVE Kind
  BY <1>34 DEF Tick, Unseen, MoveFrom
<1>35. ASSUME NEW j \in Jobs, TickDone(j) PROVE Kind
  BY <1>35 DEF TickDone, Unseen, MoveFrom
<1>36. ASSUME NEW j \in Jobs, NEW o \in Outcomes, CheckReturns(j, o) PROVE Kind
  BY <1>36 DEF CheckReturns, Unseen
<1>37. ASSUME NEW j \in Jobs, Send(j) PROVE Kind
  BY <1>37 DEF Send, Unseen
<1>38. ASSUME NEW j \in Jobs, NEW g \in Gen, Handoff(j, g) PROVE Kind
  BY <1>38
<1>39. ASSUME NEW g \in Gen, Cancel(g) PROVE Kind
  BY <1>39 DEF Cancel, Unseen
<1>40. CASE RecvErr
  BY <1>40 DEF RecvErr, Unseen
<1>41. CASE UNCHANGED vars
  BY <1>41 DEF vars, Unseen
<1> QED
  BY <1>1, <1>2, <1>3, <1>4, <1>5, <1>6, <1>7, <1>8, <1>9, <1>10, <1>11, <1>12, <1>13, <1>14,
     <1>15, <1>16, <1>17, <1>18, <1>19, <1>20, <1>21, <1>22, <1>23, <1>24, <1>25, <1>26,
     <1>27, <1>28, <1>29, <1>30, <1>31, <1>32, <1>33, <1>34, <1>35, <1>36, <1>37, <1>38,
     <1>39, <1>40, <1>41 DEF Next, Step, Call, ApiStep, RunVisit, StopStep, Visit, Proc,
     Checker

\* The start of a relay keeps ShownInv.
LEMMA ProcessShown ==
  ASSUME MaxRuns = 1, TypeInv, ShownInv, NEW m, At(1, "select"), Process(1, m),
         UNCHANGED <<results, seen, reporters>>
  PROVE  ShownInv'
<1>1. 1 \in Gen /\ hc \in [Gen -> Names \cup {NoResult}]
  BY OneProcessor DEF TypeInv, TypeOK
<1>2. \/ pc'[1] = "fitness"
      \/ pc'[1] = "store" /\ each'[1].todo = reporters
  BY <1>1, ProcessLoop
<1>3. \A r \in reporters, c \in Checks : Shows(r, c)'
  BY DEF ShownInv, At, Shows, results, ImpactsReady
<1> QED
  BY <1>2, <1>3 DEF ShownInv, At, results

\* Every step of a single Run keeps ShownInv, if registration came first.
LEMMA ShownStep ==
  ASSUME MaxRuns = 1, TypeInv, RunInv, LoopInv, ResultInv, ShownInv, [Next]_vars, Fixed
  PROVE  ShownInv'
<1> /\ Gen = {1} /\ 1 \in Gen /\ 1 \in Thread /\ 1 \notin App /\ App \subseteq Thread
    /\ pc \in [Thread -> AppLabels \cup ProcLabels]
    /\ each \in [Thread -> [todo : SUBSET Reporters, call : EachCalls, value : BOOLEAN]]
    /\ seen \in [Reporters -> [Checks -> Statuses \cup {"none"}]]
    /\ reporters \subseteq Reporters /\ reported \subseteq Checks
    /\ pc[1] = "store" => hc[1].name \in Checks /\ hc[1].status \in Statuses
  BY OneProcessor DEF TypeInv, TypeOK, LocalsOK, Names
<1> USE DEF registry, latches, results, channels, calls, checking, locals, shown, background
<1>1. CASE Unseen
  <2>1. CASE pc[1] = "off"
    <3>1. \A r \in Reporters, c \in Checks : Shows(r, c)'
      BY <1>1, <2>1 DEF Unseen, ShownInv, ResultInv, Shows
    <3>2. reporters' \subseteq Reporters
      BY TypeStep DEF TypeInv, TypeOK
    <3> QED
      BY <1>1, <2>1, <3>1, <3>2 DEF Unseen, ShownInv, ResultInv
  <2>2. CASE pc[1] # "off"
    <3>1. \A r \in reporters, c \in Checks : Shows(r, c)' <=> Shows(r, c)
      BY <1>1 DEF Unseen, Shows, ImpactsReady
    <3> QED
      BY <1>1, <2>2, <3>1 DEF Unseen, ShownInv
  <2> QED
    BY <2>1, <2>2
<1>2. ASSUME NEW t \in App, Dispatch(t) PROVE ShownInv'
  <2>1. gen[t] = 1 /\ pc[1] = "off"
    BY <1>2 DEF Dispatch, At, RunInv, RunLabels
  <2>2. pc'[1] = "select" /\ UNCHANGED <<results, seen, reporters>>
    BY <1>2, <2>1 DEF Dispatch
  <2> QED
    BY <2>1, <2>2 DEF ShownInv, Shows, ImpactsReady
<1>3. CASE Store(1)
  <2> DEFINE n == hc[1].name
  <2>1. pc[1] = "store" /\ pc'[1] = "fitness" /\ each[1].todo = {}
        /\ UNCHANGED <<seen, reporters>>
    BY <1>3 DEF Store, At, Goto
  <2>2. \A r \in reporters : seen[r][n] = hc[1].status
    BY <2>1 DEF ShownInv
  <2>3. /\ reported' = reported \cup {n}
        /\ cancelLive' = Put(cancelLive, n, CancelsLive(hc[1]))
        /\ cancelReady' = Put(cancelReady, n, CancelsReady(hc[1]))
    BY <1>3 DEF Store
  <2>4. \A r \in reporters : seen[r][n] # "none"
    BY <2>1, <2>2 DEF Statuses
  <2>5. \A r \in reporters, c \in Checks : Shows(r, c)'
    <3> TAKE r \in reporters, c \in Checks
    <3>1. CASE c = n
      BY <2>1, <2>2, <2>3, <2>4, <3>1
         DEF Shows, Put, CancelsLive, CancelsReady, Failing, ImpactsReady
    <3>2. CASE c # n
      <4>1. Shows(r, c)
        BY <2>1, <3>2 DEF ShownInv
      <4> QED
        BY <2>1, <2>3, <3>2, <4>1 DEF Shows, Put, ImpactsReady
    <3> QED
      BY <3>1, <3>2
  <2>6. \A r \in reporters, c \in reported' : seen[r][c] # "none"
    BY <2>3, <2>4 DEF ShownInv
  <2> QED
    BY <2>1, <2>5, <2>6 DEF ShownInv
<1>4. CASE Receive(1)
  <2>1. At(1, "select") /\ Process(1, Head(funnel)) /\ UNCHANGED <<results, seen, reporters>>
    BY <1>4 DEF Receive
  <2> QED
    BY <2>1, ProcessShown
<1>5. ASSUME NEW j \in Jobs, Handoff(j, 1) PROVE ShownInv'
  <2>1. At(1, "select") /\ Process(1, Result(j)) /\ UNCHANGED <<results, seen, reporters>>
    BY <1>5 DEF Handoff
  <2> QED
    BY <2>1, ProcessShown
<1>6. ASSUME NEW r \in Reporters, Relay(1, r) PROVE ShownInv'
  <2> DEFINE n == hc[1].name
  <2>1. pc[1] = "store" /\ pc' = pc /\ hc' = hc /\ UNCHANGED <<results, reporters>>
    BY <1>6 DEF Relay, LoopInv, LoopOK
  <2>2. each'[1].todo = each[1].todo \ {r}
    BY <1>6, VisitedLoop DEF Relay
  <2>3. /\ \A s \in Reporters, c \in Checks : s # r \/ c # n => seen'[s][c] = seen[s][c]
        /\ seen'[r][n] = hc[1].status
    BY <1>6, <2>1 DEF Relay
  <2>4. \A s \in reporters, c \in Checks : c = n \/ Shows(s, c)'
    <3> TAKE s \in reporters, c \in Checks
    <3>1. CASE c # n
      <4>1. Shows(s, c) /\ seen'[s][c] = seen[s][c]
        BY <2>1, <2>3, <3>1 DEF ShownInv
      <4> QED
        BY <2>1, <4>1 DEF Shows, ImpactsReady
    <3> QED
      BY <3>1
  <2>5. \A s \in reporters, c \in reported : seen'[s][c] # "none"
    <3> TAKE s \in reporters, c \in reported
    <3>1. CASE s # r \/ c # n
      BY <2>3, <3>1 DEF ShownInv
    <3>2. CASE s = r /\ c = n
      BY <2>1, <2>3, <3>2 DEF Statuses
    <3> QED
      BY <3>1, <3>2
  <2>6. \A s \in reporters \ each'[1].todo : seen'[s][n] = hc[1].status
    <3> TAKE s \in reporters \ each'[1].todo
    <3>1. CASE s = r
      BY <2>3, <3>1
    <3>2. CASE s # r
      <4>1. s \in reporters \ each[1].todo /\ seen'[s][n] = seen[s][n]
        BY <2>1, <2>2, <2>3, <3>2
      <4> QED
        BY <2>1, <4>1 DEF ShownInv
    <3> QED
      BY <3>1, <3>2
  <2> QED
    BY <2>1, <2>4, <2>5, <2>6 DEF ShownInv
<1> QED
  BY <1>1, <1>2, <1>3, <1>4, <1>5, <1>6, SeenFrame

\* ShownInv holds throughout a single Run with registration first.
LEMMA ShownInvariance ==
  ASSUME MaxRuns = 1
  PROVE  Spec /\ RegistersFirst => []ShownInv
<1>1. Init => ShownInv
  BY OneProcessor DEF Init, ShownInv
<1>2. TypeInv /\ RunInv /\ LoopInv /\ ResultInv /\ ShownInv /\ [Next]_vars /\ [Fixed]_vars
        => ShownInv'
  <2>1. [Fixed]_vars => Fixed
    BY DEF vars, Fixed
  <2> QED
    BY <2>1, ShownStep
<1> QED
  BY <1>1, <1>2, TypeInvariance, RunInvariance, LoopInvariance, ResultInvariance, PTL
     DEF Spec, RegistersFirst

\* What a reporter was told changes when it is told so.
LEMMA ToldFrame ==
  ASSUME TypeInv, [Next]_vars, NEW r \in Reporters, NEW p \in Probes, told'[r][p] # told[r][p]
  PROVE  \E t \in Thread : /\ Tell(t, r) /\ each[t].call = p
                           /\ told'[r][p] = each[t].value /\ r \in each[t].todo
<1> told \in [Reporters -> [Probes -> BOOLEAN]]
  BY DEF TypeInv, TypeOK
<1>1. ASSUME NEW t \in Thread, NEW s \in Reporters, Tell(t, s)
      PROVE  s = r /\ each[t].call = p /\ told'[r][p] = each[t].value /\ r \in each[t].todo
  <2>1. told' = [told EXCEPT ![s][each[t].call] = each[t].value] /\ s \in each[t].todo
        /\ each[t].call \in Probes
    BY <1>1 DEF Tell
  <2>2. s = r
    BY <2>1
  <2>3. each[t].call = p
    BY <2>1, <2>2
  <2> QED
    BY <2>1, <2>2, <2>3
<1>2. ASSUME NEW g \in Gen, Store(g) \/ Fitness(g) PROVE told' = told
  BY <1>2 DEF Store, Fitness, shown
<1>3. ASSUME NEW t \in App, InitStartupState(t) PROVE told' = told
  BY <1>3 DEF InitStartupState, shown
<1> QED
  BY <1>1, <1>2, <1>3, Frame

\* In one Run, a reporter is told ready only after it was relayed a result of
\* every check that was dispatched, if it was registered before the dispatch.
THEOREM FirstRunGateHolds ==
  ASSUME MaxRuns = 1
  PROVE  Spec /\ RegistersFirst => FirstRunGate
<1>1. ASSUME TypeInv, GateInv, LoopInv, ResultInv, ShownInv, [Next]_vars,
             NEW r \in Reporters, ~told[r]["ready"], told'[r]["ready"]
      PROVE  \A c \in Dispatched : seen[r][c] # "none"
  <2>1. "ready" \in Probes
    BY DEF Probes
  <2>0. told'[r]["ready"] # told[r]["ready"]
    BY <1>1
  <2>2. PICK t \in Thread : /\ each[t].call = "ready" /\ told'[r]["ready"] = each[t].value
                            /\ r \in each[t].todo
    BY <1>1, <2>0, <2>1, ToldFrame
  <2>3. GatesOpen /\ r \in reporters
    BY <1>1, <2>2 DEF GateInv, EachGated, LoopInv
  <2>4. Dispatched \subseteq reported
    BY <1>1, <2>3 DEF GatesOpen, ResultInv
  <2> QED
    BY <1>1, <2>3, <2>4 DEF ShownInv
<1>2. TypeInv /\ GateInv /\ LoopInv /\ ResultInv /\ ShownInv /\ [Next]_vars =>
        [\A r \in Reporters : ~told[r]["ready"] /\ told'[r]["ready"] =>
           \A c \in Dispatched : seen[r][c] # "none"]_vars
  BY <1>1
<1> QED
  BY <1>2, TypeInvariance, GateInvariance, LoopInvariance, ResultInvariance, ShownInvariance, PTL
     DEF Spec, FirstRunGate

\* In one Run, a reporter is told to give up liveness only after it was relayed an
\* unhealthy result of a check with liveness impact.
THEOREM LiveLossIsJustified ==
  ASSUME MaxRuns = 1
  PROVE  Spec /\ RegistersFirst => LiveLossJustified
<1>1. ASSUME TypeInv, LoopInv, ResultInv, ShownInv, [Next]_vars,
             NEW r \in Reporters, told[r]["live"], ~told'[r]["live"]
      PROVE  \E c \in AffectsLiveness : seen[r][c] = "unhealthy"
  <2>1. "live" \in Probes
    BY DEF Probes
  <2>2. PICK t \in Thread : /\ each[t].call = "live" /\ told'[r]["live"] = each[t].value
                            /\ r \in each[t].todo
    BY <1>1, <2>1, ToldFrame
  <2>3. pc[1] = "readiness" /\ ~est[1].live /\ r \in reporters
    BY <1>1, <2>2 DEF LoopInv, LoopOK
  <2>4. PICK c \in Checks : c \in cancelLive
    BY <1>1, <2>3 DEF ResultInv, Applying, TypeInv, TypeOK
  <2>5. Shows(r, c)
    BY <1>1, <2>3 DEF ShownInv
  <2> QED
    BY <2>4, <2>5 DEF Shows
<1>2. TypeInv /\ LoopInv /\ ResultInv /\ ShownInv /\ [Next]_vars =>
        [\A r \in Reporters : told[r]["live"] /\ ~told'[r]["live"] =>
           \E c \in AffectsLiveness : seen[r][c] = "unhealthy"]_vars
  BY <1>1
<1> QED
  BY <1>2, TypeInvariance, LoopInvariance, ResultInvariance, ShownInvariance, PTL
     DEF Spec, LiveLossJustified

-----------------------------------------------------------------------------
\* The startup checks that the application registered.
StartupChecks == checkers \cap AffectsStartup

\* Startup is complete, and readiness is told, only after the dispatch; with startup
\* checks the processor tells every reporter of startup before it tells any ready.
StartInv ==
  /\ ~startupDone => ~flag["startup"]
  /\ pc[1] = "off" => ~startupDone /\ \A r \in Reporters : ~told[r]["ready"]
  /\ StartupChecks # {} /\ startupDone =>
       \A r \in reporters : told[r]["startup"] \/ (each[1].call = "startup" /\ r \in each[1].todo)
  /\ StartupChecks # {} => \A r \in Reporters : told[r]["ready"] => told[r]["startup"]

\* A step that neither completes startup nor tells a reporter.
StartQuiet ==
  /\ UNCHANGED <<startupDone, told>> /\ flag'["startup"] = flag["startup"]
  /\ pc'[1] = "off" <=> pc[1] = "off"
  /\ pc[1] # "off" => UNCHANGED <<checkers, reporters>>
  /\ each'[1] = each[1] \/ each[1].todo = {} \/ each[1].call # "startup"

\* The other steps.
LEMMA StartFrame ==
  ASSUME MaxRuns = 1, TypeInv, RunInv, LoopInv, [Next]_vars, Fixed
  PROVE  \/ StartQuiet
         \/ \E t \in App : Dispatch(t) \/ InitStartupState(t)
         \/ Fitness(1)
         \/ \E t \in Thread, r \in Reporters : Tell(t, r)
<1> /\ Gen = {1} /\ 1 \in Thread /\ 1 \notin App /\ App \subseteq Thread
    /\ pc \in [Thread -> AppLabels \cup ProcLabels] /\ flag \in [Probes -> BOOLEAN]
    /\ each \in [Thread -> [todo : SUBSET Reporters, call : EachCalls, value : BOOLEAN]]
    /\ pc[1] # "off" => UNCHANGED <<checkers, reporters>>
    /\ "startup" \in Probes /\ "live" \in Probes /\ "ready" \in Probes
  BY OneProcessor DEF TypeInv, TypeOK, Fixed, registry, Probes
<1> DEFINE Kind == \/ StartQuiet
                   \/ \E t \in App : Dispatch(t) \/ InitStartupState(t)
                   \/ Fitness(1)
                   \/ \E t \in Thread, r \in Reporters : Tell(t, r)
<1> USE DEF registry, latches, results, channels, calls, checking, locals, shown, background,
        elsewhere
<1>1. ASSUME NEW t \in App, NEW c \in Checks, AddCheck(t, c) PROVE Kind
  BY <1>1 DEF AddCheck, StartQuiet, BeginAdd, Goto
<1>2. ASSUME NEW t \in App, NEW r \in Reporters, AddReporter(t, r) PROVE Kind
  BY <1>2 DEF AddReporter, StartQuiet, BeginAdd, Goto
<1>3. ASSUME NEW t \in App, RunCAS(t) PROVE Kind
  BY <1>3 DEF RunCAS, StartQuiet, Goto
<1>4. ASSUME NEW t \in App, Stop(t) PROVE Kind
  BY <1>4 DEF Stop, StartQuiet, StopCAS, Goto
<1>5. ASSUME NEW t \in App, AddCheckSet(t) PROVE Kind
  BY <1>5 DEF AddCheckSet, StartQuiet, Goto
<1>6. ASSUME NEW t \in App, AddReporterSet(t) PROVE Kind
  BY <1>6 DEF AddReporterSet, StartQuiet, Goto
<1>7. ASSUME NEW t \in App, InitInternals(t) PROVE Kind
  BY <1>7 DEF InitInternals, StartQuiet, Goto
<1>8. ASSUME NEW t \in App, Validate(t) PROVE Kind
  BY <1>8 DEF Validate, StartQuiet, Goto, StartEach
<1>9. ASSUME NEW t \in App, Dispatch(t) PROVE Kind
  BY <1>9
<1>10. ASSUME NEW t \in App, DispatchCancelled(t) PROVE Kind
  BY <1>10 DEF DispatchCancelled, StartQuiet, Goto
<1>11. ASSUME NEW t \in App, InitStartupState(t) PROVE Kind
  BY <1>11
<1>12. ASSUME NEW t \in App, RunLive(t) PROVE Kind
  <2>0. Swap(t, "live", TRUE) /\ t # 1 /\ t \in Thread
    BY <1>12 DEF RunLive
  <2>1. each'[1] = each[1]
    BY <2>0 DEF Swap, StartEach
  <2>2. flag'["startup"] = flag["startup"]
    BY <2>0 DEF Swap
  <2> QED
    BY <1>12, <2>1, <2>2 DEF RunLive, StartQuiet, Goto
<1>13. ASSUME NEW t \in App, SendErr(t) PROVE Kind
  BY <1>13 DEF SendErr, StartQuiet, Goto
<1>14. ASSUME NEW t \in App, Reset(t) PROVE Kind
  BY <1>14 DEF Reset, StartQuiet, Goto
<1>15. ASSUME NEW t \in App, NEW r \in Reporters, RunReporter(t, r) PROVE Kind
  BY <1>15 DEF RunReporter, StartQuiet, Visited
<1>16. ASSUME NEW t \in App, NEW r \in Reporters, RunReporterFails(t, r) PROVE Kind
  BY <1>16 DEF RunReporterFails, StartQuiet, Goto
<1>17. ASSUME NEW t \in Thread, StopReady(t) PROVE Kind
  <2>1. (t # 1 => each'[1] = each[1]) /\ flag'["startup"] = flag["startup"]
    BY <1>17, SetReadyLoop DEF StopReady
  <2> QED
    BY <1>17, <2>1 DEF StopReady, StartQuiet, At, Goto
<1>18. ASSUME NEW t \in Thread, StopReporters(t) PROVE Kind
  BY <1>18 DEF StopReporters, StartQuiet, Goto, At, AfterStop, StartEach
<1>19. ASSUME NEW t \in Thread, NEW r \in Reporters, Tell(t, r) PROVE Kind
  BY <1>19
<1>20. ASSUME NEW t \in Thread, NEW r \in Reporters, StopReporter(t, r) PROVE Kind
  BY <1>20 DEF StopReporter, StartQuiet, Visited
<1>21. ASSUME NEW g \in Gen, ProcStop(g) PROVE Kind
  BY <1>21 DEF ProcStop, StartQuiet, StopCAS, AfterStop, Goto, At
<1>22. ASSUME NEW g \in Gen, Receive(g) PROVE Kind
  BY <1>22 DEF Receive, StartQuiet, Process, Goto, At
<1>23. ASSUME NEW g \in Gen, Store(g) PROVE Kind
  BY <1>23 DEF Store, StartQuiet, Goto, At
<1>24. ASSUME NEW g \in Gen, NEW r \in Reporters, Relay(g, r) PROVE Kind
  BY <1>24 DEF Relay, StartQuiet, Visited
<1>25. ASSUME NEW g \in Gen, FitnessBails(g) PROVE Kind
  BY <1>25 DEF FitnessBails, StartQuiet, Goto, At
<1>26. ASSUME NEW g \in Gen, Fitness(g) PROVE Kind
  BY <1>26
<1>27. ASSUME NEW g \in Gen, Aggregate(g) PROVE Kind
  BY <1>27 DEF Aggregate, StartQuiet, Goto, At
<1>28. ASSUME NEW g \in Gen, InitialReady(g) PROVE Kind
  <2>1. flag'["startup"] = flag["startup"]
    BY <1>28, SetReadyLoop DEF InitialReady
  <2> QED
    BY <1>28, <2>1 DEF InitialReady, StartQuiet, At, Goto
<1>29. ASSUME NEW g \in Gen, Liveness(g) PROVE Kind
  <2>1. est[g].live \in BOOLEAN
    BY DEF TypeInv, TypeOK
  <2>2. flag'["startup"] = flag["startup"]
    BY <1>29, <2>1, SwapLoop DEF Liveness
  <2> QED
    BY <1>29, <2>2 DEF Liveness, StartQuiet, At, Goto
<1>30. ASSUME NEW g \in Gen, Readiness(g) PROVE Kind
  <2>1. flag'["startup"] = flag["startup"]
    BY <1>30 DEF Readiness, ApplyReadiness, SetReady, Swap
  <2> QED
    BY <1>30, <2>1 DEF Readiness, StartQuiet, At, Goto
<1>31. ASSUME NEW j \in Jobs, Wake(j) PROVE Kind
  BY <1>31 DEF Wake, StartQuiet, MoveFrom
<1>32. ASSUME NEW j \in Jobs, BeginOnce(j) PROVE Kind
  BY <1>32 DEF BeginOnce, StartQuiet, MoveFrom
<1>33. ASSUME NEW j \in Jobs, BeginTicker(j) PROVE Kind
  BY <1>33 DEF BeginTicker, StartQuiet
<1>34. ASSUME NEW j \in Jobs, Tick(j) PROVE Kind
  BY <1>34 DEF Tick, StartQuiet, MoveFrom
<1>35. ASSUME NEW j \in Jobs, TickDone(j) PROVE Kind
  BY <1>35 DEF TickDone, StartQuiet, MoveFrom
<1>36. ASSUME NEW j \in Jobs, NEW o \in Outcomes, CheckReturns(j, o) PROVE Kind
  BY <1>36 DEF CheckReturns, StartQuiet
<1>37. ASSUME NEW j \in Jobs, Send(j) PROVE Kind
  BY <1>37 DEF Send, StartQuiet
<1>38. ASSUME NEW j \in Jobs, NEW g \in Gen, Handoff(j, g) PROVE Kind
  BY <1>38 DEF Handoff, StartQuiet, Process, Goto, At
<1>39. ASSUME NEW g \in Gen, Cancel(g) PROVE Kind
  BY <1>39 DEF Cancel, StartQuiet
<1>40. CASE RecvErr
  BY <1>40 DEF RecvErr, StartQuiet
<1>41. CASE UNCHANGED vars
  BY <1>41 DEF vars, StartQuiet
<1> QED
  BY <1>1, <1>2, <1>3, <1>4, <1>5, <1>6, <1>7, <1>8, <1>9, <1>10, <1>11, <1>12, <1>13, <1>14,
     <1>15, <1>16, <1>17, <1>18, <1>19, <1>20, <1>21, <1>22, <1>23, <1>24, <1>25, <1>26,
     <1>27, <1>28, <1>29, <1>30, <1>31, <1>32, <1>33, <1>34, <1>35, <1>36, <1>37, <1>38,
     <1>39, <1>40, <1>41 DEF Next, Step, Call, ApiStep, RunVisit, StopStep, Visit, Proc,
     Checker

\* Every step of a single Run keeps StartInv, if registration came first.
LEMMA StartStep ==
  ASSUME MaxRuns = 1, TypeInv, RunInv, LoopInv, GateInv, StartInv, [Next]_vars, Fixed
  PROVE  StartInv'
<1> /\ Gen = {1} /\ 1 \in Thread /\ 1 \notin App /\ App \subseteq Thread
    /\ pc \in [Thread -> AppLabels \cup ProcLabels] /\ flag \in [Probes -> BOOLEAN]
    /\ told \in [Reporters -> [Probes -> BOOLEAN]] /\ reporters \subseteq Reporters
    /\ "startup" \in Probes /\ "ready" \in Probes
  BY OneProcessor DEF TypeInv, TypeOK, Probes
<1> USE DEF registry, latches, results, channels, calls, checking, locals, shown, background,
        StartupChecks
<1>1. CASE StartQuiet
  <2>1. CASE pc[1] = "off"
    BY <1>1, <2>1 DEF StartQuiet, StartInv
  <2>2. CASE pc[1] # "off"
    <3>1. startupDone' = startupDone /\ told' = told /\ checkers' = checkers /\ reporters' = reporters
          /\ pc'[1] # "off" /\ flag'["startup"] = flag["startup"]
      BY <1>1, <2>2 DEF StartQuiet
    <3>2. each'[1] = each[1] \/ ~(\E r \in reporters : each[1].call = "startup" /\ r \in each[1].todo)
      BY <1>1 DEF StartQuiet
    <3> QED
      BY <3>1, <3>2 DEF StartInv
  <2> QED
    BY <2>1, <2>2
<1>2. ASSUME NEW t \in App, Dispatch(t) PROVE StartInv'
  <2>1. gen[t] = 1 /\ pc[1] = "off"
    BY <1>2 DEF Dispatch, At, RunInv, RunLabels
  <2>2. pc'[1] = "select" /\ UNCHANGED <<startupDone, told, flag, checkers>>
    BY <1>2, <2>1 DEF Dispatch
  <2> QED
    BY <2>1, <2>2 DEF StartInv
<1>3. ASSUME NEW t \in App, InitStartupState(t) PROVE StartInv'
  <2>1. pc[1] # "off" /\ pc'[1] # "off"
    BY <1>3 DEF InitStartupState, At, Goto, RunInv
  <2>2. told' = told /\ checkers' = checkers /\ reporters' = reporters
    BY <1>3 DEF InitStartupState
  <2>3. CASE StartupChecks = {}
    <3>1. startupDone'
      BY <1>3, <2>3 DEF InitStartupState
    <3> QED
      BY <2>1, <2>2, <2>3, <3>1 DEF StartInv
  <2>4. CASE StartupChecks # {}
    <3>1. UNCHANGED <<startupDone, flag, each>>
      BY <1>3, <2>4 DEF InitStartupState
    <3> QED
      BY <2>1, <2>2, <3>1 DEF StartInv
  <2> QED
    BY <2>3, <2>4
<1>4. CASE Fitness(1)
  <2>1. /\ pc[1] # "off" /\ pc'[1] # "off" /\ each[1].todo = {}
        /\ told' = told /\ checkers' = checkers /\ reporters' = reporters
    BY <1>4 DEF Fitness, At, Goto
  <2>2. /\ startupDone'
        /\ \/ each' = each /\ (startupDone \/ flag["startup"])
           \/ each'[1].todo = reporters /\ each'[1].call = "startup"
    BY <1>4, StartupLoop DEF Fitness
  <2> QED
    BY <2>1, <2>2 DEF StartInv
<1>5. ASSUME NEW t \in Thread, NEW r \in Reporters, Tell(t, r) PROVE StartInv'
  <2> DEFINE p == each[t].call
  <2>1. /\ pc' = pc /\ startupDone' = startupDone /\ flag' = flag
        /\ checkers' = checkers /\ reporters' = reporters
        /\ told' = [told EXCEPT ![r][p] = each[t].value] /\ p \in Probes /\ r \in each[t].todo
    BY <1>5 DEF Tell
  <2>2. p = "startup" => each[t].value /\ startupDone
    BY DEF GateInv, EachGated
  <2>3. p = "ready" /\ each[t].value => t = 1 /\ startupDone /\ r \in reporters
    BY <2>1 DEF GateInv, EachGated, GatesOpen, LoopInv, LoopOK
  <2>4. \A s \in Reporters : told[s]["startup"] => told'[s]["startup"]
    BY <2>1, <2>2
  <2>5. \A s \in Reporters : told'[s]["ready"] =>
           told[s]["ready"] \/ (s = r /\ p = "ready" /\ each[t].value)
    BY <2>1
  <2>6. pc'[1] = "off" => ~startupDone' /\ \A s \in Reporters : ~told'[s]["ready"]
    BY <2>1, <2>3, <2>5 DEF StartInv
  <2>7. ASSUME StartupChecks # {} PROVE \A s \in Reporters : told'[s]["ready"] => told'[s]["startup"]
    BY <2>1, <2>3, <2>4, <2>5, <2>7 DEF StartInv
  <2>8. ASSUME StartupChecks # {}, startupDone, NEW s \in reporters
        PROVE  told'[s]["startup"] \/ (each'[1].call = "startup" /\ s \in each'[1].todo)
    <3>1. CASE told[s]["startup"]
      BY <2>4, <3>1
    <3>2. CASE each[1].call = "startup" /\ s \in each[1].todo
      <4>1. CASE t # 1
        <5>1. each'[1] = each[1]
          BY <1>5, <4>1, VisitedLoop DEF Tell
        <5> QED
          BY <3>2, <5>1
      <4>2. CASE t = 1 /\ s = r
        BY <2>1, <2>2, <3>2, <4>2
      <4>3. CASE t = 1 /\ s # r
        <5>1. /\ each'[1].todo = each[1].todo \ {r}
              /\ each'[1].todo # {} => each'[1].call = each[1].call
          BY <1>5, <4>3, VisitedLoop DEF Tell
        <5> QED
          BY <3>2, <4>3, <5>1
      <4> QED
        BY <4>1, <4>2, <4>3
    <3> QED
      BY <2>8, <3>1, <3>2 DEF StartInv
  <2>9. ~startupDone' => ~flag'["startup"]
    BY <2>1 DEF StartInv
  <2>10. StartupChecks' = StartupChecks
    BY <2>1
  <2> HIDE DEF StartupChecks
  <2> QED
    BY <2>1, <2>6, <2>7, <2>8, <2>9, <2>10 DEF StartInv
<1> QED
  BY <1>1, <1>2, <1>3, <1>4, <1>5, StartFrame

\* StartInv holds throughout a single Run with registration first.
LEMMA StartInvariance ==
  ASSUME MaxRuns = 1
  PROVE  Spec /\ RegistersFirst => []StartInv
<1>1. Init => StartInv
  BY OneProcessor DEF Init, StartInv, StartupChecks, Probes
<1>2. TypeInv /\ RunInv /\ LoopInv /\ GateInv /\ StartInv /\ [Next]_vars /\ [Fixed]_vars
        => StartInv'
  <2>1. [Fixed]_vars => Fixed
    BY DEF vars, Fixed
  <2> QED
    BY <2>1, StartStep
<1> QED
  BY <1>1, <1>2, TypeInvariance, RunInvariance, LoopInvariance, GateInvariance, PTL
     DEF Spec, RegistersFirst

\* In one Run that has startup checks, a reporter that shows ready was told before
\* that startup is complete, if it was registered before the dispatch.
THEOREM StartupComesFirst ==
  ASSUME MaxRuns = 1
  PROVE  Spec /\ RegistersFirst => []StartupBeforeReady
<1>1. NamesKnown /\ StartInv => StartupBeforeReady
  <2>1. NamesKnown => Dispatched \subseteq checkers
    BY DEF NamesKnown, Dispatched
  <2> QED
    BY <2>1 DEF StartInv, StartupChecks, StartupBeforeReady
<1> QED
  BY <1>1, NamesInvariance, StartInvariance, PTL

-----------------------------------------------------------------------------
\* While the manager runs, the reporters were told the readiness that it holds,
\* except the ones the processor is still about to tell.
ToldInv ==
  /\ pc[1] = "off" => ~flag["ready"] /\ \A r \in Reporters : ~told[r]["ready"]
  /\ running =>
       /\ \A r \in reporters : \/ told[r]["ready"] <=> flag["ready"]
                               \/ each[1].call = "ready" /\ r \in each[1].todo
       /\ each[1].call = "ready" /\ each[1].todo # {} => (each[1].value <=> flag["ready"])

\* A step that changes no readiness.
ToldQuiet ==
  /\ flag'["ready"] = flag["ready"] /\ \A r \in Reporters : told'[r]["ready"] = told[r]["ready"]
  /\ running' => running
  /\ pc'[1] = "off" <=> pc[1] = "off"
  /\ pc[1] # "off" => UNCHANGED <<checkers, reporters>>
  /\ \/ each'[1] = each[1]
     \/ /\ each[1].todo = {} \/ each[1].call # "ready"
        /\ each'[1].todo = {} \/ each'[1].call # "ready"

\* The other steps.
LEMMA ToldReadyFrame ==
  ASSUME MaxRuns = 1, TypeInv, RunInv, LoopInv, [Next]_vars, Fixed
  PROVE  \/ ToldQuiet
         \/ \E t \in App : RunCAS(t) \/ Dispatch(t)
         \/ \E t \in Thread : StopReady(t) \/ \E r \in Reporters : Tell(t, r)
         \/ InitialReady(1) \/ Readiness(1)
<1> /\ Gen = {1} /\ 1 \in Thread /\ 1 \notin App /\ App \subseteq Thread
    /\ pc \in [Thread -> AppLabels \cup ProcLabels] /\ flag \in [Probes -> BOOLEAN]
    /\ each \in [Thread -> [todo : SUBSET Reporters, call : EachCalls, value : BOOLEAN]]
    /\ told \in [Reporters -> [Probes -> BOOLEAN]] /\ running \in BOOLEAN
    /\ pc[1] # "off" => UNCHANGED <<checkers, reporters>>
    /\ "startup" \in Probes /\ "live" \in Probes /\ "ready" \in Probes
  BY OneProcessor DEF TypeInv, TypeOK, Fixed, registry, Probes
<1> DEFINE Kind == \/ ToldQuiet
                   \/ \E t \in App : RunCAS(t) \/ Dispatch(t)
                   \/ \E t \in Thread : StopReady(t) \/ \E r \in Reporters : Tell(t, r)
                   \/ InitialReady(1) \/ Readiness(1)
<1> USE DEF registry, latches, results, channels, calls, checking, locals, shown, background,
        elsewhere
<1>1. ASSUME NEW t \in App, NEW c \in Checks, AddCheck(t, c) PROVE Kind
  BY <1>1 DEF AddCheck, ToldQuiet, BeginAdd, Goto
<1>2. ASSUME NEW t \in App, NEW r \in Reporters, AddReporter(t, r) PROVE Kind
  BY <1>2 DEF AddReporter, ToldQuiet, BeginAdd, Goto
<1>3. ASSUME NEW t \in App, RunCAS(t) PROVE Kind
  BY <1>3
<1>4. ASSUME NEW t \in App, Stop(t) PROVE Kind
  BY <1>4 DEF Stop, ToldQuiet, StopCAS, Goto
<1>5. ASSUME NEW t \in App, AddCheckSet(t) PROVE Kind
  BY <1>5 DEF AddCheckSet, ToldQuiet, Goto
<1>6. ASSUME NEW t \in App, AddReporterSet(t) PROVE Kind
  BY <1>6 DEF AddReporterSet, ToldQuiet, Goto
<1>7. ASSUME NEW t \in App, InitInternals(t) PROVE Kind
  BY <1>7 DEF InitInternals, ToldQuiet, Goto
<1>8. ASSUME NEW t \in App, Validate(t) PROVE Kind
  BY <1>8 DEF Validate, ToldQuiet, Goto, StartEach
<1>9. ASSUME NEW t \in App, Dispatch(t) PROVE Kind
  BY <1>9
<1>10. ASSUME NEW t \in App, DispatchCancelled(t) PROVE Kind
  BY <1>10 DEF DispatchCancelled, ToldQuiet, Goto
<1>11. ASSUME NEW t \in App, InitStartupState(t) PROVE Kind
  <2>1. each'[1] = each[1]
    BY <1>11 DEF InitStartupState, Swap, StartEach
  <2>2. flag'["ready"] = flag["ready"]
    BY <1>11 DEF InitStartupState, Swap
  <2> QED
    BY <1>11, <2>1, <2>2 DEF InitStartupState, ToldQuiet, Goto
<1>12. ASSUME NEW t \in App, RunLive(t) PROVE Kind
  <2>1. each'[1] = each[1]
    BY <1>12 DEF RunLive, Swap, StartEach
  <2>2. flag'["ready"] = flag["ready"]
    BY <1>12 DEF RunLive, Swap
  <2> QED
    BY <1>12, <2>1, <2>2 DEF RunLive, ToldQuiet, Goto
<1>13. ASSUME NEW t \in App, SendErr(t) PROVE Kind
  BY <1>13 DEF SendErr, ToldQuiet, Goto
<1>14. ASSUME NEW t \in App, Reset(t) PROVE Kind
  BY <1>14 DEF Reset, ToldQuiet, Goto
<1>15. ASSUME NEW t \in App, NEW r \in Reporters, RunReporter(t, r) PROVE Kind
  BY <1>15 DEF RunReporter, ToldQuiet, Visited
<1>16. ASSUME NEW t \in App, NEW r \in Reporters, RunReporterFails(t, r) PROVE Kind
  BY <1>16 DEF RunReporterFails, ToldQuiet, Goto
<1>17. ASSUME NEW t \in Thread, StopReady(t) PROVE Kind
  BY <1>17
<1>18. ASSUME NEW t \in Thread, StopReporters(t) PROVE Kind
  <2>1. each'[t].call = "Stop" /\ (t # 1 => each'[1] = each[1])
    BY <1>18, StartLoop DEF StopReporters
  <2>2. each[t].todo = {} /\ (pc'[1] = "off" <=> pc[1] = "off")
    BY <1>18 DEF StopReporters, At, Goto, AfterStop
  <2> QED
    BY <1>18, <2>1, <2>2 DEF StopReporters, ToldQuiet
<1>19. ASSUME NEW t \in Thread, NEW r \in Reporters, Tell(t, r) PROVE Kind
  BY <1>19
<1>20. ASSUME NEW t \in Thread, NEW r \in Reporters, StopReporter(t, r) PROVE Kind
  <2>1. each'[1] = each[1] \/ (t = 1 /\ (each'[1].todo = {} \/ each'[1].call = each[1].call))
    BY <1>20, VisitedLoop DEF StopReporter
  <2> QED
    BY <1>20, <2>1 DEF StopReporter, ToldQuiet
<1>21. ASSUME NEW g \in Gen, ProcStop(g) PROVE Kind
  BY <1>21 DEF ProcStop, ToldQuiet, StopCAS, AfterStop, Goto, At
<1>22. ASSUME NEW g \in Gen, Receive(g) PROVE Kind
  <2>1. /\ each[1].todo = {} /\ (each' = each \/ each'[1].call # "ready")
        /\ pc[1] # "off" /\ pc'[1] # "off"
    BY <1>22, ProcessLoop DEF Receive, At
  <2> QED
    BY <1>22, <2>1 DEF Receive, ToldQuiet
<1>23. ASSUME NEW g \in Gen, Store(g) PROVE Kind
  BY <1>23 DEF Store, ToldQuiet, Goto, At
<1>24. ASSUME NEW g \in Gen, NEW r \in Reporters, Relay(g, r) PROVE Kind
  <2>1. each'[1] = each[1] \/ (g = 1 /\ (each'[1].todo = {} \/ each'[1].call = each[1].call))
    BY <1>24, VisitedLoop DEF Relay
  <2> QED
    BY <1>24, <2>1 DEF Relay, ToldQuiet
<1>25. ASSUME NEW g \in Gen, FitnessBails(g) PROVE Kind
  BY <1>25 DEF FitnessBails, ToldQuiet, Goto, At
<1>26. ASSUME NEW g \in Gen, Fitness(g) PROVE Kind
  <2>1. /\ flag'["ready"] = flag["ready"] /\ each[1].todo = {}
        /\ each' = each \/ each'[1].call = "startup"
    BY <1>26, StartupLoop DEF Fitness, At
  <2> QED
    BY <1>26, <2>1 DEF Fitness, ToldQuiet, At, Goto
<1>27. ASSUME NEW g \in Gen, Aggregate(g) PROVE Kind
  BY <1>27 DEF Aggregate, ToldQuiet, Goto, At
<1>28. ASSUME NEW g \in Gen, InitialReady(g) PROVE Kind
  BY <1>28
<1>29. ASSUME NEW g \in Gen, Liveness(g) PROVE Kind
  <2>1. est[g].live \in BOOLEAN
    BY DEF TypeInv, TypeOK
  <2>2. /\ flag'["ready"] = flag["ready"] /\ each[1].todo = {}
        /\ each' = each \/ each'[1].call = "live"
    BY <1>29, <2>1, SwapLoop DEF Liveness, At
  <2> QED
    BY <1>29, <2>2 DEF Liveness, ToldQuiet, At, Goto
<1>30. ASSUME NEW g \in Gen, Readiness(g) PROVE Kind
  BY <1>30
<1>31. ASSUME NEW j \in Jobs, Wake(j) PROVE Kind
  BY <1>31 DEF Wake, ToldQuiet, MoveFrom
<1>32. ASSUME NEW j \in Jobs, BeginOnce(j) PROVE Kind
  BY <1>32 DEF BeginOnce, ToldQuiet, MoveFrom
<1>33. ASSUME NEW j \in Jobs, BeginTicker(j) PROVE Kind
  BY <1>33 DEF BeginTicker, ToldQuiet
<1>34. ASSUME NEW j \in Jobs, Tick(j) PROVE Kind
  BY <1>34 DEF Tick, ToldQuiet, MoveFrom
<1>35. ASSUME NEW j \in Jobs, TickDone(j) PROVE Kind
  BY <1>35 DEF TickDone, ToldQuiet, MoveFrom
<1>36. ASSUME NEW j \in Jobs, NEW o \in Outcomes, CheckReturns(j, o) PROVE Kind
  BY <1>36 DEF CheckReturns, ToldQuiet
<1>37. ASSUME NEW j \in Jobs, Send(j) PROVE Kind
  BY <1>37 DEF Send, ToldQuiet
<1>38. ASSUME NEW j \in Jobs, NEW g \in Gen, Handoff(j, g) PROVE Kind
  <2>1. /\ each[1].todo = {} /\ (each' = each \/ each'[1].call # "ready")
        /\ pc[1] # "off" /\ pc'[1] # "off"
    BY <1>38, ProcessLoop DEF Handoff, At
  <2> QED
    BY <1>38, <2>1 DEF Handoff, ToldQuiet
<1>39. ASSUME NEW g \in Gen, Cancel(g) PROVE Kind
  BY <1>39 DEF Cancel, ToldQuiet
<1>40. CASE RecvErr
  BY <1>40 DEF RecvErr, ToldQuiet
<1>41. CASE UNCHANGED vars
  BY <1>41 DEF vars, ToldQuiet
<1> QED
  BY <1>1, <1>2, <1>3, <1>4, <1>5, <1>6, <1>7, <1>8, <1>9, <1>10, <1>11, <1>12, <1>13, <1>14,
     <1>15, <1>16, <1>17, <1>18, <1>19, <1>20, <1>21, <1>22, <1>23, <1>24, <1>25, <1>26,
     <1>27, <1>28, <1>29, <1>30, <1>31, <1>32, <1>33, <1>34, <1>35, <1>36, <1>37, <1>38,
     <1>39, <1>40, <1>41 DEF Next, Step, Call, ApiStep, RunVisit, StopStep, Visit, Proc,
     Checker

\* The start of a fan-out of readiness by the processor keeps ToldInv.
LEMMA SetReadyTold ==
  ASSUME MaxRuns = 1, TypeInv, ToldInv, NEW v \in BOOLEAN, SetReady(1, v) \/ UNCHANGED <<flag, each>>,
         each[1].todo = {}, pc[1] # "off", pc'[1] # "off", UNCHANGED <<running, told, reporters>>
  PROVE  ToldInv'
<1> 1 \in Thread
  BY OneProcessor
<1>1. CASE UNCHANGED <<flag, each>>
  BY <1>1 DEF ToldInv
<1>2. CASE SetReady(1, v)
  <2>1. \/ flag' = flag /\ each' = each
        \/ flag'["ready"] = v /\ flag["ready"] = v /\ each' = each
        \/ /\ flag'["ready"] = v /\ each'[1].todo = reporters
           /\ each'[1].call = "ready" /\ each'[1].value = v
    BY <1>2, SetReadyLoop
  <2> QED
    BY <2>1 DEF ToldInv
<1> QED
  BY <1>1, <1>2

\* Every step of a single Run keeps ToldInv, if registration came first.
LEMMA ToldStep ==
  ASSUME MaxRuns = 1, TypeInv, RunInv, LoopInv, ToldInv, [Next]_vars, Fixed
  PROVE  ToldInv'
<1> /\ Gen = {1} /\ 1 \in Thread /\ 1 \notin App /\ App \subseteq Thread
    /\ pc \in [Thread -> AppLabels \cup ProcLabels] /\ flag \in [Probes -> BOOLEAN]
    /\ each \in [Thread -> [todo : SUBSET Reporters, call : EachCalls, value : BOOLEAN]]
    /\ told \in [Reporters -> [Probes -> BOOLEAN]] /\ running \in BOOLEAN
    /\ pc[1] # "off" => UNCHANGED <<checkers, reporters>>
    /\ "startup" \in Probes /\ "live" \in Probes /\ "ready" \in Probes
  BY OneProcessor DEF TypeInv, TypeOK, Fixed, registry, Probes
<1> USE DEF registry, latches, results, channels, calls, checking, locals, shown, background
<1>0. reporters' \subseteq Reporters /\ reporters \subseteq Reporters
  BY TypeStep DEF TypeInv, TypeOK
<1>1. CASE ToldQuiet
  <2>1. CASE pc[1] = "off"
    <3>1. each[1].todo = {}
      BY <2>1 DEF LoopInv, LoopOK
    <3>2. ~flag'["ready"] /\ \A r \in Reporters : ~told'[r]["ready"]
      BY <1>1, <2>1 DEF ToldQuiet, ToldInv
    <3>3. each'[1].todo = {} \/ each'[1].call # "ready"
      BY <1>1, <3>1 DEF ToldQuiet
    <3> QED
      BY <1>0, <3>2, <3>3 DEF ToldInv
  <2>2. CASE pc[1] # "off"
    <3>1. /\ flag'["ready"] = flag["ready"] /\ \A r \in Reporters : told'[r]["ready"] = told[r]["ready"]
          /\ running' => running
          /\ pc'[1] # "off" /\ reporters' = reporters
      BY <1>1, <2>2 DEF ToldQuiet
    <3>2. CASE each'[1] = each[1]
      BY <1>0, <3>1, <3>2 DEF ToldInv
    <3>3. CASE /\ each[1].todo = {} \/ each[1].call # "ready"
               /\ each'[1].todo = {} \/ each'[1].call # "ready"
      BY <1>0, <3>1, <3>3 DEF ToldInv
    <3> QED
      BY <1>1, <3>2, <3>3 DEF ToldQuiet
  <2> QED
    BY <2>1, <2>2
<1>2. ASSUME NEW t \in App, RunCAS(t) PROVE ToldInv'
  <2>1. runs # 1 /\ UNCHANGED <<flag, told, each, reporters>> /\ runs \in 0 .. 1 /\ pc'[1] = pc[1]
    BY <1>2 DEF RunCAS, Goto, TypeInv, TypeOK
  <2>2. pc[1] = "off"
    BY <2>1 DEF RunInv
  <2>3. each[1].todo = {}
    BY <2>2 DEF LoopInv, LoopOK
  <2> QED
    BY <1>0, <2>1, <2>2, <2>3 DEF ToldInv
<1>3. ASSUME NEW t \in App, Dispatch(t) PROVE ToldInv'
  <2>1. gen[t] = 1 /\ pc[1] = "off"
    BY <1>3 DEF Dispatch, At, RunInv, RunLabels
  <2>2. pc'[1] = "select" /\ UNCHANGED <<flag, told, each, reporters, running>>
    BY <1>3, <2>1 DEF Dispatch
  <2> QED
    BY <2>1, <2>2 DEF ToldInv
<1>4. ASSUME NEW t \in Thread, StopReady(t) PROVE ToldInv'
  <2>1. ~running
    BY <1>4 DEF StopReady, At, RunInv, StopExclusive, InStop
  <2>2. UNCHANGED <<running, told>> /\ (pc'[1] = "off" => pc[1] = "off")
    BY <1>4 DEF StopReady, Goto
  <2>3. flag'["ready"] = FALSE
    BY <1>4, SetReadyLoop DEF StopReady
  <2> QED
    BY <2>1, <2>2, <2>3 DEF ToldInv
<1>5. ASSUME NEW t \in Thread, NEW r \in Reporters, Tell(t, r) PROVE ToldInv'
  <2> DEFINE p == each[t].call
  <2>1. /\ pc' = pc /\ running' = running /\ flag' = flag /\ reporters' = reporters
        /\ told' = [told EXCEPT ![r][p] = each[t].value] /\ p \in Probes /\ r \in each[t].todo
    BY <1>5 DEF Tell
  <2>2. \A s \in Reporters : s # r \/ p # "ready" => told'[s]["ready"] = told[s]["ready"]
    BY <2>1
  <2>3. p = "ready" => told'[r]["ready"] = each[t].value
    BY <2>1
  <2>4. p = "ready" /\ each[t].value => t = 1 /\ pc[1] # "off"
    BY <2>1 DEF LoopInv, LoopOK
  <2>5. p = "ready" /\ running => t = 1
    BY <2>1 DEF LoopInv, LoopOK, RunInv, StopExclusive, InStop
  <2>6. pc'[1] = "off" => ~flag'["ready"] /\ \A s \in Reporters : ~told'[s]["ready"]
    BY <2>1, <2>2, <2>3, <2>4 DEF ToldInv
  <2>7. CASE t # 1
    <3>1. each'[1] = each[1]
      BY <1>5, <2>7, VisitedLoop DEF Tell
    <3> QED
      BY <1>0, <2>1, <2>2, <2>5, <2>6, <2>7, <3>1 DEF ToldInv
  <2>8. CASE t = 1
    <3>1. /\ each'[1].todo = each[1].todo \ {r}
          /\ each'[1].todo # {} => each'[1].call = each[1].call /\ each'[1].value = each[1].value
          /\ each'[1].call \in {each[1].call, "none"}
      BY <1>5, <2>8, VisitedLoop DEF Tell
    <3>2. CASE p = "ready"
      <4>1. running => (told'[r]["ready"] <=> flag["ready"])
        BY <2>1, <2>3, <2>8, <3>2 DEF ToldInv
      <4>2. ASSUME running, NEW s \in reporters
            PROVE  (told'[s]["ready"] <=> flag["ready"]) \/ (each'[1].call = "ready" /\ s \in each'[1].todo)
        <5>1. CASE s = r
          BY <4>1, <4>2, <5>1
        <5>2. CASE s # r
          BY <1>0, <2>2, <2>8, <3>1, <3>2, <4>2, <5>2 DEF ToldInv
        <5> QED
          BY <5>1, <5>2
      <4>3. running /\ each'[1].call = "ready" /\ each'[1].todo # {} => (each'[1].value <=> flag["ready"])
        BY <2>8, <3>1, <3>2 DEF ToldInv
      <4> QED
        BY <2>1, <2>6, <4>2, <4>3 DEF ToldInv
    <3>3. CASE p # "ready"
      <4>1. each'[1].call # "ready" /\ each[1].call # "ready"
        BY <2>8, <3>1, <3>3
      <4> QED
        BY <1>0, <2>1, <2>2, <2>6, <3>3, <4>1 DEF ToldInv
    <3> QED
      BY <3>2, <3>3
  <2> QED
    BY <2>7, <2>8
<1>6. CASE InitialReady(1)
  <2>1. /\ each[1].todo = {} /\ pc[1] # "off" /\ pc'[1] # "off" /\ UNCHANGED <<running, told, reporters>>
        /\ SetReady(1, TRUE) \/ UNCHANGED <<flag, each>>
    BY <1>6 DEF InitialReady, At, Goto
  <2> QED
    BY <2>1, SetReadyTold
<1>7. CASE Readiness(1)
  <2> DEFINE ready == est[1].ready /\ est[1].live
  <2>1. /\ each[1].todo = {} /\ pc[1] # "off" /\ pc'[1] # "off" /\ UNCHANGED <<running, told, reporters>>
        /\ SetReady(1, ready) \/ UNCHANGED <<flag, each>>
    BY <1>7 DEF Readiness, ApplyReadiness, At, Goto
  <2>2. ready \in BOOLEAN
    OBVIOUS
  <2> HIDE DEF ready
  <2> QED
    BY <2>1, <2>2, SetReadyTold
<1> QED
  BY <1>1, <1>2, <1>3, <1>4, <1>5, <1>6, <1>7, ToldReadyFrame

-----------------------------------------------------------------------------
\* While the manager runs: an evaluation works with the readiness that the manager
\* holds; between two evaluations readiness says whether a result denies it, once
\* the gates are open; and without startup checks both gates open at once.
DecidedInv ==
  running =>
    /\ pc[1] \in Applying => (est[1].shownReady <=> flag["ready"])
    /\ GatesOpen /\ pc[1] = "select" => (flag["ready"] <=> cancelReady = {})
    /\ allChecksRan /\ pc[1] = "select" /\ StartupChecks = {} => startupDone

\* A step that leaves the processor out of evaluation and select, or in its place.
DecidedQuiet ==
  \/ pc'[1] \notin Applying \cup {"select"}
  \/ /\ pc'[1] = pc[1] /\ (running' => running) /\ flag'["ready"] = flag["ready"]
     /\ UNCHANGED <<allChecksRan, startupDone, results, est, checkers>>

\* The other steps.
LEMMA DecidedFrame ==
  ASSUME MaxRuns = 1, TypeInv, RunInv, [Next]_vars, Fixed
  PROVE  \/ DecidedQuiet
         \/ \E t \in App : Dispatch(t) \/ InitStartupState(t)
         \/ \E t \in Thread : StopReady(t)
         \/ FitnessBails(1) \/ Aggregate(1) \/ InitialReady(1) \/ Liveness(1) \/ Readiness(1)
<1> /\ Gen = {1} /\ 1 \in Thread /\ 1 \notin App /\ App \subseteq Thread
    /\ pc \in [Thread -> AppLabels \cup ProcLabels] /\ flag \in [Probes -> BOOLEAN]
    /\ each \in [Thread -> [todo : SUBSET Reporters, call : EachCalls, value : BOOLEAN]]
    /\ told \in [Reporters -> [Probes -> BOOLEAN]] /\ running \in BOOLEAN
    /\ pc[1] # "off" => UNCHANGED <<checkers, reporters>>
    /\ "startup" \in Probes /\ "live" \in Probes /\ "ready" \in Probes
  BY OneProcessor DEF TypeInv, TypeOK, Fixed, registry, Probes
<1> DEFINE Kind == \/ DecidedQuiet
                   \/ \E t \in App : Dispatch(t) \/ InitStartupState(t)
                   \/ \E t \in Thread : StopReady(t)
                   \/ FitnessBails(1) \/ Aggregate(1) \/ InitialReady(1) \/ Liveness(1) \/ Readiness(1)
<1> USE DEF Applying, registry, latches, results, channels, calls, checking, locals, shown,
        background, elsewhere
<1>1. ASSUME NEW t \in App, NEW c \in Checks, AddCheck(t, c) PROVE Kind
  BY <1>1 DEF AddCheck, DecidedQuiet, BeginAdd, Goto
<1>2. ASSUME NEW t \in App, NEW r \in Reporters, AddReporter(t, r) PROVE Kind
  BY <1>2 DEF AddReporter, DecidedQuiet, BeginAdd, Goto
<1>3. ASSUME NEW t \in App, RunCAS(t) PROVE Kind
  <2>1. pc[1] = "off" /\ pc'[1] = pc[1]
    BY <1>3 DEF RunCAS, Goto, RunInv, TypeInv, TypeOK
  <2> QED
    BY <2>1 DEF DecidedQuiet
<1>4. ASSUME NEW t \in App, Stop(t) PROVE Kind
  BY <1>4 DEF Stop, DecidedQuiet, StopCAS, Goto
<1>5. ASSUME NEW t \in App, AddCheckSet(t) PROVE Kind
  BY <1>5 DEF AddCheckSet, DecidedQuiet, Goto
<1>6. ASSUME NEW t \in App, AddReporterSet(t) PROVE Kind
  BY <1>6 DEF AddReporterSet, DecidedQuiet, Goto
<1>7. ASSUME NEW t \in App, InitInternals(t) PROVE Kind
  BY <1>7 DEF InitInternals, DecidedQuiet, Goto
<1>8. ASSUME NEW t \in App, Validate(t) PROVE Kind
  BY <1>8 DEF Validate, DecidedQuiet, Goto, StartEach
<1>9. ASSUME NEW t \in App, Dispatch(t) PROVE Kind
  BY <1>9
<1>10. ASSUME NEW t \in App, DispatchCancelled(t) PROVE Kind
  BY <1>10 DEF DispatchCancelled, DecidedQuiet, Goto
<1>11. ASSUME NEW t \in App, InitStartupState(t) PROVE Kind
  BY <1>11
<1>12. ASSUME NEW t \in App, RunLive(t) PROVE Kind
  <2>1. flag'["ready"] = flag["ready"]
    BY <1>12 DEF RunLive, Swap
  <2> QED
    BY <1>12, <2>1 DEF RunLive, DecidedQuiet, Goto
<1>13. ASSUME NEW t \in App, SendErr(t) PROVE Kind
  BY <1>13 DEF SendErr, DecidedQuiet, Goto
<1>14. ASSUME NEW t \in App, Reset(t) PROVE Kind
  BY <1>14 DEF Reset, DecidedQuiet, Goto
<1>15. ASSUME NEW t \in App, NEW r \in Reporters, RunReporter(t, r) PROVE Kind
  BY <1>15 DEF RunReporter, DecidedQuiet, Visited
<1>16. ASSUME NEW t \in App, NEW r \in Reporters, RunReporterFails(t, r) PROVE Kind
  BY <1>16 DEF RunReporterFails, DecidedQuiet, Goto
<1>17. ASSUME NEW t \in Thread, StopReady(t) PROVE Kind
  BY <1>17
<1>18. ASSUME NEW t \in Thread, StopReporters(t) PROVE Kind
  BY <1>18 DEF StopReporters, DecidedQuiet, Goto, At, AfterStop
<1>19. ASSUME NEW t \in Thread, NEW r \in Reporters, Tell(t, r) PROVE Kind
  BY <1>19 DEF Tell, DecidedQuiet
<1>20. ASSUME NEW t \in Thread, NEW r \in Reporters, StopReporter(t, r) PROVE Kind
  BY <1>20 DEF StopReporter, DecidedQuiet
<1>21. ASSUME NEW g \in Gen, ProcStop(g) PROVE Kind
  BY <1>21 DEF ProcStop, DecidedQuiet, StopCAS, AfterStop, Goto, At
<1>22. ASSUME NEW g \in Gen, Receive(g) PROVE Kind
  BY <1>22 DEF Receive, DecidedQuiet, Process, Goto
<1>23. ASSUME NEW g \in Gen, Store(g) PROVE Kind
  BY <1>23 DEF Store, DecidedQuiet, Goto, At
<1>24. ASSUME NEW g \in Gen, NEW r \in Reporters, Relay(g, r) PROVE Kind
  BY <1>24 DEF Relay, DecidedQuiet
<1>25. ASSUME NEW g \in Gen, FitnessBails(g) PROVE Kind
  BY <1>25
<1>26. ASSUME NEW g \in Gen, Fitness(g) PROVE Kind
  BY <1>26 DEF Fitness, DecidedQuiet, Goto, At
<1>27. ASSUME NEW g \in Gen, Aggregate(g) PROVE Kind
  BY <1>27
<1>28. ASSUME NEW g \in Gen, InitialReady(g) PROVE Kind
  BY <1>28
<1>29. ASSUME NEW g \in Gen, Liveness(g) PROVE Kind
  BY <1>29
<1>30. ASSUME NEW g \in Gen, Readiness(g) PROVE Kind
  BY <1>30
<1>31. ASSUME NEW j \in Jobs, Wake(j) PROVE Kind
  BY <1>31 DEF Wake, DecidedQuiet, MoveFrom
<1>32. ASSUME NEW j \in Jobs, BeginOnce(j) PROVE Kind
  BY <1>32 DEF BeginOnce, DecidedQuiet, MoveFrom
<1>33. ASSUME NEW j \in Jobs, BeginTicker(j) PROVE Kind
  BY <1>33 DEF BeginTicker, DecidedQuiet
<1>34. ASSUME NEW j \in Jobs, Tick(j) PROVE Kind
  BY <1>34 DEF Tick, DecidedQuiet, MoveFrom
<1>35. ASSUME NEW j \in Jobs, TickDone(j) PROVE Kind
  BY <1>35 DEF TickDone, DecidedQuiet, MoveFrom
<1>36. ASSUME NEW j \in Jobs, NEW o \in Outcomes, CheckReturns(j, o) PROVE Kind
  BY <1>36 DEF CheckReturns, DecidedQuiet
<1>37. ASSUME NEW j \in Jobs, Send(j) PROVE Kind
  BY <1>37 DEF Send, DecidedQuiet
<1>38. ASSUME NEW j \in Jobs, NEW g \in Gen, Handoff(j, g) PROVE Kind
  BY <1>38 DEF Handoff, DecidedQuiet, Process, Goto
<1>39. ASSUME NEW g \in Gen, Cancel(g) PROVE Kind
  BY <1>39 DEF Cancel, DecidedQuiet
<1>40. CASE RecvErr
  BY <1>40 DEF RecvErr, DecidedQuiet
<1>41. CASE UNCHANGED vars
  BY <1>41 DEF vars, DecidedQuiet
<1> QED
  BY <1>1, <1>2, <1>3, <1>4, <1>5, <1>6, <1>7, <1>8, <1>9, <1>10, <1>11, <1>12, <1>13, <1>14,
     <1>15, <1>16, <1>17, <1>18, <1>19, <1>20, <1>21, <1>22, <1>23, <1>24, <1>25, <1>26,
     <1>27, <1>28, <1>29, <1>30, <1>31, <1>32, <1>33, <1>34, <1>35, <1>36, <1>37, <1>38,
     <1>39, <1>40, <1>41 DEF Next, Step, Call, ApiStep, RunVisit, StopStep, Visit, Proc,
     Checker

\* Every step of a single Run keeps DecidedInv, if registration came first.
LEMMA DecidedStep ==
  ASSUME MaxRuns = 1, TypeInv, RunInv, GateInv, ResultInv, DecidedInv, [Next]_vars, Fixed
  PROVE  DecidedInv'
<1> /\ Gen = {1} /\ 1 \in Thread /\ 1 \notin App /\ App \subseteq Thread
    /\ pc \in [Thread -> AppLabels \cup ProcLabels] /\ flag \in [Probes -> BOOLEAN]
    /\ each \in [Thread -> [todo : SUBSET Reporters, call : EachCalls, value : BOOLEAN]]
    /\ told \in [Reporters -> [Probes -> BOOLEAN]] /\ running \in BOOLEAN
    /\ pc[1] # "off" => UNCHANGED <<checkers, reporters>>
    /\ "startup" \in Probes /\ "live" \in Probes /\ "ready" \in Probes
  BY OneProcessor DEF TypeInv, TypeOK, Fixed, registry, Probes
<1> /\ est \in [Gen -> [live : BOOLEAN, ready : BOOLEAN, shownReady : BOOLEAN]]
    /\ allChecksRan \in BOOLEAN /\ startupDone \in BOOLEAN
  BY DEF TypeInv, TypeOK
<1> USE DEF GatesOpen, StartupChecks, registry, latches, results, channels, calls, checking, locals,
        shown, background
<1>1. CASE DecidedQuiet
  <2>1. CASE pc'[1] \notin Applying \cup {"select"}
    BY <2>1 DEF DecidedInv
  <2>2. CASE /\ pc'[1] = pc[1] /\ (running' => running) /\ flag'["ready"] = flag["ready"]
             /\ UNCHANGED <<allChecksRan, startupDone, results, est, checkers>>
    BY <2>2 DEF DecidedInv
  <2> QED
    BY <1>1, <2>1, <2>2 DEF DecidedQuiet
<1>2. ASSUME NEW t \in App, Dispatch(t) PROVE DecidedInv'
  <2>1. gen[t] = 1 /\ pc[1] = "off"
    BY <1>2 DEF Dispatch, At, RunInv, RunLabels
  <2>2. pc'[1] = "select" /\ ~allChecksRan'
    BY <1>2, <2>1 DEF Dispatch, ResultInv
  <2> QED
    BY <2>2 DEF DecidedInv, Applying
<1>3. ASSUME NEW t \in App, InitStartupState(t) PROVE DecidedInv'
  <2>1. /\ pc'[1] = pc[1]
        /\ UNCHANGED <<running, allChecksRan, results, est, checkers>>
    BY <1>3 DEF InitStartupState, Goto
  <2>2. flag'["ready"] = flag["ready"]
    BY <1>3 DEF InitStartupState, Swap
  <2>3. CASE StartupChecks = {}
    <3>1. startupDone'
      BY <1>3, <2>3 DEF InitStartupState
    <3> QED
      BY <2>1, <2>2, <2>3, <3>1 DEF DecidedInv
  <2>4. CASE StartupChecks # {}
    <3>1. startupDone' = startupDone
      BY <1>3, <2>4 DEF InitStartupState
    <3> QED
      BY <2>1, <2>2, <3>1 DEF DecidedInv
  <2> QED
    BY <2>3, <2>4
<1>4. ASSUME NEW t \in Thread, StopReady(t) PROVE DecidedInv'
  <2>1. ~running /\ running' = running
    BY <1>4 DEF StopReady, At, RunInv, StopExclusive, InStop
  <2> QED
    BY <2>1 DEF DecidedInv
<1>5. CASE FitnessBails(1)
  <2>1. /\ pc'[1] = "select"
        /\ ~running \/ ~allChecksRan \/ ~(startupDone \/ StartupPassed)
        /\ UNCHANGED <<running, allChecksRan, startupDone, checkers>>
    BY <1>5 DEF FitnessBails, Goto
  <2>2. StartupChecks = {} => StartupPassed
    BY DEF StartupPassed
  <2> QED
    BY <2>1, <2>2 DEF DecidedInv, Applying
<1>6. CASE Aggregate(1)
  <2>1. pc'[1] = "initial" /\ UNCHANGED <<running, flag>>
    BY <1>6 DEF Aggregate, Goto
  <2>2. est'[1].shownReady = flag["ready"]
    BY <1>6 DEF Aggregate
  <2> QED
    BY <2>1, <2>2 DEF DecidedInv
<1>7. CASE InitialReady(1)
  <2>1. pc[1] = "initial" /\ pc'[1] = "liveness" /\ UNCHANGED running
    BY <1>7 DEF InitialReady, At, Goto
  <2>2. CASE est[1].ready /\ ~initialReady
    <3>1. est'[1] = [live |-> est[1].live, ready |-> TRUE, shownReady |-> TRUE] /\ SetReady(1, TRUE)
      BY <1>7, <2>2 DEF InitialReady
    <3>2. est'[1].shownReady
      BY <3>1
    <3>3. flag'["ready"]
      BY <2>1, <3>1 DEF SetReady, Swap, GateInv, Evaluating
    <3> QED
      BY <2>1, <3>2, <3>3 DEF DecidedInv
  <2>3. CASE ~(est[1].ready /\ ~initialReady)
    <3>1. UNCHANGED <<est, flag>>
      BY <1>7, <2>3 DEF InitialReady
    <3> QED
      BY <2>1, <3>1 DEF DecidedInv, Applying
  <2> QED
    BY <2>2, <2>3
<1>8. CASE Liveness(1)
  <2>1. pc[1] = "liveness" /\ pc'[1] = "readiness" /\ UNCHANGED <<running, est>>
    BY <1>8 DEF Liveness, At, Goto
  <2>2. flag'["ready"] = flag["ready"]
    BY <1>8 DEF Liveness, Swap
  <2> QED
    BY <2>1, <2>2 DEF DecidedInv, Applying
<1>9. CASE Readiness(1)
  <2> DEFINE ready == est[1].ready /\ est[1].live
  <2>1. /\ pc[1] = "readiness" /\ pc'[1] = "select"
        /\ UNCHANGED <<running, allChecksRan, startupDone, results, checkers>>
    BY <1>9 DEF Readiness, At, Goto
  <2>2. allChecksRan /\ startupDone
    BY <2>1 DEF GateInv, Evaluating
  <2>3. ready <=> cancelReady = {}
    BY <2>1 DEF ResultInv, Applying
  <2>4. ready \in BOOLEAN
    OBVIOUS
  <2>5. /\ est[1].shownReady = ready => flag' = flag
        /\ est[1].shownReady # ready => SetReady(1, ready)
    BY <1>9 DEF Readiness, ApplyReadiness
  <2> HIDE DEF ready
  <2>6. est[1].shownReady # ready => flag'["ready"] = ready
    BY <2>2, <2>5 DEF SetReady, Swap
  <2>7. running => (est[1].shownReady <=> flag["ready"])
    BY <2>1 DEF DecidedInv, Applying
  <2>8. running => (flag'["ready"] <=> ready)
    BY <2>4, <2>5, <2>6, <2>7
  <2> QED
    BY <2>1, <2>2, <2>3, <2>8 DEF DecidedInv, Applying
<1> QED
  BY <1>1, <1>2, <1>3, <1>4, <1>5, <1>6, <1>7, <1>8, <1>9, DecidedFrame

\* ToldInv and DecidedInv hold throughout a single Run with registration first.
LEMMA ReadyInvariance ==
  ASSUME MaxRuns = 1
  PROVE  Spec /\ RegistersFirst => [](ToldInv /\ DecidedInv)
<1>1. Init => ToldInv /\ DecidedInv
  BY OneProcessor DEF Init, ToldInv, DecidedInv, Probes
<1>2. TypeInv /\ RunInv /\ LoopInv /\ GateInv /\ ResultInv /\ ToldInv /\ DecidedInv
        /\ [Next]_vars /\ [Fixed]_vars => ToldInv' /\ DecidedInv'
  <2>1. [Fixed]_vars => Fixed
    BY DEF vars, Fixed
  <2> QED
    BY <2>1, ToldStep, DecidedStep
<1> QED
  BY <1>1, <1>2, TypeInvariance, RunInvariance, LoopInvariance, GateInvariance, ResultInvariance, PTL
     DEF Spec, RegistersFirst

\* In one Run, whenever nothing is under way and both gates are open, every
\* reporter shows ready exactly when no result it was relayed is an unhealthy one
\* of a check that affects readiness or liveness.
THEOREM ReadinessIsAccurate ==
  ASSUME MaxRuns = 1
  PROVE  Spec /\ RegistersFirst => []ReadinessAccurate
<1>1. ASSUME TypeInv, RunInv, NamesKnown, ResultInv, ShownInv, ToldInv, DecidedInv,
             Settled, running, GatesOpen, \A g \in Gen : ~ctxDone[g], NEW r \in reporters
      PROVE  told[r]["ready"] = \A c \in checkers : ~(seen[r][c] = "unhealthy" /\ ImpactsReady(c))
  <2>1. 1 \in Gen /\ 1 \in Thread
    BY <1>1, OneProcessor
  <2>2. pc[1] = "select" /\ each[1].todo = {}
    BY <1>1, <2>1 DEF Settled, RunInv, ProcLabels, ResultInv, GatesOpen
  <2>3. told[r]["ready"] <=> cancelReady = {}
    BY <1>1, <2>2 DEF ToldInv, DecidedInv
  <2>4. \A c \in Checks : Shows(r, c)
    BY <1>1, <2>2 DEF ShownInv
  <2>5. cancelReady \subseteq Checks /\ checkers \subseteq Checks /\ reported \subseteq checkers
    BY <1>1 DEF TypeInv, TypeOK, NamesKnown
  <2>6. cancelReady \subseteq checkers
    BY <2>4, <2>5 DEF Shows
  <2>7. \A c \in checkers : c \in cancelReady <=> seen[r][c] = "unhealthy" /\ ImpactsReady(c)
    BY <2>4, <2>5 DEF Shows
  <2>8. told[r]["ready"] <=> \A c \in checkers : ~(seen[r][c] = "unhealthy" /\ ImpactsReady(c))
    BY <2>3, <2>6, <2>7
  <2>9. told[r]["ready"] \in BOOLEAN
    BY <1>1 DEF TypeInv, TypeOK, Probes
  <2> QED
    BY <2>8, <2>9
<1>2. TypeInv /\ RunInv /\ NamesKnown /\ ResultInv /\ ShownInv /\ ToldInv /\ DecidedInv
        => ReadinessAccurate
  BY <1>1 DEF ReadinessAccurate
<1> QED
  BY <1>2, TypeInvariance, RunInvariance, NamesInvariance, ResultInvariance, ShownInvariance,
     ReadyInvariance, PTL
=============================================================================
