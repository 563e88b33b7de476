---------------------------- MODULE ManagerProofs ----------------------------
(***************************************************************************)
(* Proofs about Manager, for all checks, reporters, application goroutines *)
(* and any number of Runs.  Three inductive invariants, each on top of the *)
(* one before:                                                             *)
(*   TypeInv     the types, and what a goroutine holds at a label;         *)
(*   NamesKnown  every result in flight or stored is a registered check's; *)
(*   GateInv     what is about to be told was decided with open gates.     *)
(***************************************************************************)
EXTENDS Manager, TLAPS, FiniteSetTheorems

\* What a goroutine holds: a checker about to send has a result, a processor
\* about to store has one, and an Add call has its argument.
LocalsOK ==
  /\ \A j \in Jobs : chk[j] = "send" => pend[j] \in Statuses
  /\ \A g \in Gen : pc[g] = "store" => hc[g] \in Names
  /\ \A t \in App : /\ pc[t] = "addCheck" => arg[t] \in Checks
                    /\ pc[t] = "addReporter" => arg[t] \in Reporters

TypeInv == TypeOK /\ LocalsOK

EachType == [Thread -> [todo : SUBSET Reporters, call : EachCalls, value : BOOLEAN]]
FlagType == [Probes -> BOOLEAN]

\* initInternals makes the funnel large enough for what it already holds.
LEMMA CapacityType ==
  ASSUME TypeOK
  PROVE  FunnelCapacity \in Nat /\ (funnel # <<>> => Len(funnel) <= FunnelCapacity)
<1>1. IsFiniteSet(checkers) /\ Cardinality(checkers) \in Nat
  BY SetsAssumption, FS_Subset, FS_CardinalityType DEF TypeOK
<1>2. Len(funnel) \in Nat
  BY DEF TypeOK
<1> QED
  BY <1>1, <1>2 DEF TypeOK, FunnelCapacity, NilChan

\* Receiving from the funnel yields one of its elements and shortens it.
LEMMA HeadTailType ==
  ASSUME NEW S, NEW q \in Seq(S), q # <<>>
  PROVE  Head(q) \in S /\ Tail(q) \in Seq(S) /\ Len(Tail(q)) < Len(q)
OBVIOUS

\* The operators that start, advance and decide on loops over the reporters keep
\* the types of each and flag (syncmap Each; setLive, setReady, setStartup).
LEMMA StartEachType ==
  ASSUME TypeOK, NEW t \in Thread, NEW call \in EachCalls, NEW v \in BOOLEAN,
         StartEach(t, call, v)
  PROVE  each' \in EachType
<1>1. [todo |-> reporters, call |-> call, value |-> v]
         \in [todo : SUBSET Reporters, call : EachCalls, value : BOOLEAN]
  BY DEF TypeOK
<1> QED
  BY <1>1 DEF TypeOK, StartEach, EachType

\* One visit of a loop over the reporters keeps the type of each.
LEMMA VisitedType ==
  ASSUME TypeOK, NEW t \in Thread, NEW r \in Reporters, Visited(t, r)
  PROVE  each' \in EachType
<1>1. NoEach \in [todo : SUBSET Reporters, call : EachCalls, value : BOOLEAN]
  BY DEF NoEach, EachCalls
<1>2. each[t] \in [todo : SUBSET Reporters, call : EachCalls, value : BOOLEAN]
  BY DEF TypeOK
<1>3. [each[t] EXCEPT !.todo = @ \ {r}]
         \in [todo : SUBSET Reporters, call : EachCalls, value : BOOLEAN]
  BY <1>2
<1>4. CASE each[t].todo = {r}
  BY <1>1, <1>4 DEF TypeOK, Visited, EachType
<1>5. CASE each[t].todo # {r}
  BY <1>3, <1>5 DEF TypeOK, Visited, EachType
<1> QED
  BY <1>4, <1>5

\* A swap of a probe keeps the types of flag and each (setLive, setStartup).
LEMMA SwapType ==
  ASSUME TypeOK, NEW t \in Thread, NEW p \in Probes, NEW v \in BOOLEAN, Swap(t, p, v)
  PROVE  flag' \in FlagType /\ each' \in EachType
<1>1. flag' \in FlagType
  BY DEF TypeOK, Swap, FlagType
<1>2. CASE flag[p] # v
  <2>1. p \in EachCalls /\ StartEach(t, p, v)
    BY <1>2 DEF Swap, EachCalls
  <2> QED
    BY <1>1, <2>1, StartEachType
<1>3. CASE flag[p] = v
  BY <1>1, <1>3 DEF Swap, TypeOK, EachType
<1> QED
  BY <1>2, <1>3

\* setReady keeps the types of flag and each, gated or not.
LEMMA SetReadyType ==
  ASSUME TypeOK, NEW t \in Thread, NEW v \in BOOLEAN, SetReady(t, v)
  PROVE  flag' \in FlagType /\ each' \in EachType
<1>1. CASE v /\ ~GatesOpen
  BY <1>1 DEF SetReady, TypeOK, EachType, FlagType
<1>2. CASE ~(v /\ ~GatesOpen)
  <2>1. Swap(t, "ready", v)
    BY <1>2 DEF SetReady
  <2> QED
    BY <2>1, SwapType DEF Probes
<1> QED
  BY <1>1, <1>2

\* The compare-and-swap of Stop moves its caller to a label where it holds
\* neither a result nor an argument.
LEMMA StopCASType ==
  ASSUME TypeInv, NEW t \in Thread, StopCAS(t)
  PROVE  /\ running' \in BOOLEAN
         /\ pc' \in [Thread -> AppLabels \cup ProcLabels]
         /\ \A u \in Thread : pc'[u] \in {"store", "addCheck", "addReporter"} => pc'[u] = pc[u]
<1>1. CASE running
  BY <1>1 DEF StopCAS, Goto, TypeInv, TypeOK, AppLabels, ProcLabels
<1>2. CASE ~running
  BY <1>2 DEF StopCAS, AfterStop, Goto, TypeInv, TypeOK, AppLabels, ProcLabels
<1> QED
  BY <1>1, <1>2

\* The start of processHealthCheck: a processor bound for Store holds a result.
LEMMA ProcessType ==
  ASSUME TypeInv, NEW g \in Gen, NEW m \in Names, Process(g, m)
  PROVE  /\ pc' \in [Thread -> AppLabels \cup ProcLabels]
         /\ each' \in EachType
         /\ hc' \in [Gen -> Names \cup {NoResult}]
         /\ \A t \in App : pc'[t] = pc[t]
         /\ \A h \in Gen : pc'[h] = "store" => hc'[h] \in Names
<1> g \in Thread /\ \A t \in App : t # g
  BY ThreadAssumption DEF Thread
<1>1. CASE ctxDone[g]
  BY <1>1 DEF Process, Goto, TypeInv, TypeOK, LocalsOK, EachType, Thread, ProcLabels
<1>2. CASE ~ctxDone[g]
  <2>1. each' \in EachType
    BY <1>2, StartEachType DEF Process, TypeInv, EachCalls
  <2>2. pc' = [pc EXCEPT ![g] = "store"] /\ hc' = [hc EXCEPT ![g] = m]
    BY <1>2 DEF Process, Goto
  <2>3. pc \in [Thread -> AppLabels \cup ProcLabels] /\ hc \in [Gen -> Names \cup {NoResult}]
        /\ \A h \in Gen : pc[h] = "store" => hc[h] \in Names
    BY DEF TypeInv, TypeOK, LocalsOK
  <2> QED
    BY <2>1, <2>2, <2>3 DEF Thread, ProcLabels
<1> QED
  BY <1>1, <1>2

\* Every step of the manager preserves TypeInv.
LEMMA TypeStep == TypeInv /\ [Next]_vars => TypeInv'
<1> SUFFICES ASSUME TypeInv, [Next]_vars PROVE TypeInv'
  OBVIOUS
<1> USE SetsAssumption, ThreadAssumption
    DEF TypeInv, TypeOK, LocalsOK, Thread, AppLabels, ProcLabels, CheckerLabels,
        EachCalls, Names, NoResult, NoEach, NoEst, NilChan, Probes, Statuses, Jobs, Gen,
        registry, latches, results, channels, calls, checking, locals, shown, background, elsewhere
<1>1. ASSUME NEW t \in App, NEW c \in Checks, AddCheck(t, c) PROVE TypeInv'
  BY <1>1 DEF AddCheck, BeginAdd, Goto
<1>2. ASSUME NEW t \in App, NEW r \in Reporters, AddReporter(t, r) PROVE TypeInv'
  BY <1>2 DEF AddReporter, BeginAdd, Goto
<1>3. ASSUME NEW t \in App, RunCAS(t) PROVE TypeInv'
  BY <1>3 DEF RunCAS, Goto
<1>4. ASSUME NEW t \in App, Stop(t) PROVE TypeInv'
  <2>1. t \in Thread /\ StopCAS(t)
    BY <1>4 DEF Stop
  <2> QED
    BY <1>4, <2>1, StopCASType DEF Stop
<1>5. ASSUME NEW t \in App, AddCheckSet(t) PROVE TypeInv'
  BY <1>5 DEF AddCheckSet, At, Goto
<1>6. ASSUME NEW t \in App, AddReporterSet(t) PROVE TypeInv'
  BY <1>6 DEF AddReporterSet, At, Goto
<1>7. ASSUME NEW t \in App, InitInternals(t) PROVE TypeInv'
  BY <1>7, CapacityType DEF InitInternals, At, Goto
<1>8. ASSUME NEW t \in App, Validate(t) PROVE TypeInv'
  <2>1. CASE checkers = {} \/ reporters = {}
    <3>1. pc' = [pc EXCEPT ![t] = "fail"] /\ each' = each
      BY <1>8, <2>1 DEF Validate, Goto
    <3> QED
      BY <1>8, <3>1 DEF Validate
  <2>2. CASE ~(checkers = {} \/ reporters = {})
    <3>1. each' \in EachType /\ pc' = [pc EXCEPT ![t] = "dispatch"]
      BY <1>8, <2>2, StartEachType DEF Validate, Goto
    <3> QED
      BY <1>8, <3>1 DEF Validate, EachType
  <2> QED
    BY <2>1, <2>2
<1>9. ASSUME NEW t \in App, Dispatch(t) PROVE TypeInv'
  BY <1>9 DEF Dispatch, At
<1>10. ASSUME NEW t \in App, DispatchCancelled(t) PROVE TypeInv'
  BY <1>10 DEF DispatchCancelled, At, Goto
<1>11. ASSUME NEW t \in App, InitStartupState(t) PROVE TypeInv'
  <2>1. CASE checkers \cap AffectsStartup = {}
    <3>1. flag' \in FlagType /\ each' \in EachType
      BY <1>11, <2>1, SwapType DEF InitStartupState
    <3> QED
      BY <1>11, <2>1, <3>1 DEF InitStartupState, Goto, FlagType, EachType
  <2>2. CASE checkers \cap AffectsStartup # {}
    BY <1>11, <2>2 DEF InitStartupState, Goto
  <2> QED
    BY <2>1, <2>2
<1>12. ASSUME NEW t \in App, RunLive(t) PROVE TypeInv'
  <2>1. flag' \in FlagType /\ each' \in EachType
    BY <1>12, SwapType DEF RunLive
  <2> QED
    BY <1>12, <2>1 DEF RunLive, At, Goto, FlagType, EachType
<1>13. ASSUME NEW t \in App, SendErr(t) PROVE TypeInv'
  BY <1>13 DEF SendErr, At, Goto
<1>14. ASSUME NEW t \in App, Reset(t) PROVE TypeInv'
  BY <1>14 DEF Reset, At, Goto
<1>15. ASSUME NEW t \in App, NEW r \in Reporters, RunReporter(t, r) PROVE TypeInv'
  <2>1. each' \in EachType
    BY <1>15, VisitedType DEF RunReporter
  <2> QED
    BY <1>15, <2>1 DEF RunReporter, EachType
<1>16. ASSUME NEW t \in App, NEW r \in Reporters, RunReporterFails(t, r) PROVE TypeInv'
  BY <1>16 DEF RunReporterFails, Goto
<1>17. ASSUME NEW t \in Thread, StopReady(t) PROVE TypeInv'
  <2>1. flag' \in FlagType /\ each' \in EachType
    BY <1>17, SetReadyType DEF StopReady
  <2> QED
    BY <1>17, <2>1 DEF StopReady, At, Goto, FlagType, EachType
<1>18. ASSUME NEW t \in Thread, StopReporters(t) PROVE TypeInv'
  BY <1>18 DEF StopReporters, At, Goto, AfterStop, StartEach
<1>19. ASSUME NEW t \in Thread, NEW r \in Reporters, Tell(t, r) PROVE TypeInv'
  <2>1. each' \in EachType
    BY <1>19, VisitedType DEF Tell
  <2> QED
    BY <1>19, <2>1 DEF Tell, EachType
<1>20. ASSUME NEW t \in Thread, NEW r \in Reporters, StopReporter(t, r) PROVE TypeInv'
  <2>1. each' \in EachType
    BY <1>20, VisitedType DEF StopReporter
  <2> QED
    BY <1>20, <2>1 DEF StopReporter, EachType
<1>21. ASSUME NEW g \in Gen, ProcStop(g) PROVE TypeInv'
  <2>1. g \in Thread
    OBVIOUS
  <2> QED
    BY <1>21, <2>1, StopCASType DEF ProcStop
<1>22. ASSUME NEW g \in Gen, Receive(g) PROVE TypeInv'
  <2>1. funnel \in Seq(Names) /\ funnel # <<>>
    BY <1>22 DEF Receive
  <2>2. Head(funnel) \in Names /\ Tail(funnel) \in Seq(Names) /\ Len(Tail(funnel)) < Len(funnel)
    BY <2>1, HeadTailType
  <2>3. TypeInv /\ Process(g, Head(funnel))
    BY <1>22 DEF Receive
  <2>4. /\ pc' \in [Thread -> AppLabels \cup ProcLabels]
        /\ each' \in EachType
        /\ hc' \in [Gen -> Names \cup {NoResult}]
        /\ \A t \in App : pc'[t] = pc[t]
        /\ \A h \in Gen : pc'[h] = "store" => hc'[h] \in Names
    BY <2>2, <2>3, ProcessType
  <2> QED
    BY <1>22, <2>1, <2>2, <2>4 DEF Receive, EachType
<1>23. ASSUME NEW g \in Gen, Store(g) PROVE TypeInv'
  BY <1>23 DEF Store, At, Goto, Put
<1>24. ASSUME NEW g \in Gen, NEW r \in Reporters, Relay(g, r) PROVE TypeInv'
  <2>1. each' \in EachType
    BY <1>24, VisitedType DEF Relay
  <2>2. hc[g].status \in Statuses \cup {"none"}
    OBVIOUS
  <2>3. seen' \in [Reporters -> [Checks -> Statuses \cup {"none"}]]
    BY <1>24, <2>2 DEF Relay
  <2> QED
    BY <1>24, <2>1, <2>3 DEF Relay, EachType
<1>25. ASSUME NEW g \in Gen, FitnessBails(g) PROVE TypeInv'
  BY <1>25 DEF FitnessBails, At, Goto
<1>26. ASSUME NEW g \in Gen, Fitness(g) PROVE TypeInv'
  <2>1. CASE startupDone
    BY <1>26, <2>1 DEF Fitness, CompleteStartup, Goto
  <2>2. CASE ~startupDone
    <3>1. flag' \in FlagType /\ each' \in EachType
      BY <1>26, <2>2, SwapType DEF Fitness, CompleteStartup
    <3> QED
      BY <1>26, <2>2, <3>1 DEF Fitness, CompleteStartup, Goto, FlagType, EachType
  <2> QED
    BY <2>1, <2>2
<1>27. ASSUME NEW g \in Gen, Aggregate(g) PROVE TypeInv'
  BY <1>27 DEF Aggregate, At, Goto
<1>28. ASSUME NEW g \in Gen, InitialReady(g) PROVE TypeInv'
  <2>1. CASE est[g].ready /\ ~initialReady
    <3>1. flag' \in FlagType /\ each' \in EachType
      BY <1>28, <2>1, SetReadyType DEF InitialReady
    <3>2. initialReady' = TRUE /\ est' = [est EXCEPT ![g] = [live |-> est[g].live, ready |-> TRUE, shownReady |-> TRUE]]
      BY <1>28, <2>1 DEF InitialReady
    <3>3. est' \in [Gen -> [live : BOOLEAN, ready : BOOLEAN, shownReady : BOOLEAN]]
      BY <3>2
    <3> QED
      BY <1>28, <3>1, <3>2, <3>3 DEF InitialReady, Goto, FlagType, EachType
  <2>2. CASE ~(est[g].ready /\ ~initialReady)
    BY <1>28, <2>2 DEF InitialReady, Goto
  <2> QED
    BY <2>1, <2>2
<1>29. ASSUME NEW g \in Gen, Liveness(g) PROVE TypeInv'
  <2>1. flag' \in FlagType /\ each' \in EachType
    BY <1>29, SwapType DEF Liveness
  <2> QED
    BY <1>29, <2>1 DEF Liveness, At, Goto, FlagType, EachType
<1>30. ASSUME NEW g \in Gen, Readiness(g) PROVE TypeInv'
  <2> DEFINE ready == est[g].ready /\ est[g].live
  <2>1. CASE est[g].shownReady = ready
    BY <1>30, <2>1 DEF Readiness, ApplyReadiness, Goto
  <2>2. CASE est[g].shownReady # ready
    <3>1. flag' \in FlagType /\ each' \in EachType
      BY <1>30, <2>2, SetReadyType DEF Readiness, ApplyReadiness
    <3> QED
      BY <1>30, <2>2, <3>1 DEF Readiness, Goto, FlagType, EachType
  <2> QED
    BY <2>1, <2>2
<1>31. ASSUME NEW j \in Jobs, Wake(j) PROVE TypeInv'
  BY <1>31 DEF Wake, MoveFrom, Move
<1>32. ASSUME NEW j \in Jobs, BeginOnce(j) PROVE TypeInv'
  BY <1>32 DEF BeginOnce, MoveFrom, Move
<1>33. ASSUME NEW j \in Jobs, BeginTicker(j) PROVE TypeInv'
  BY <1>33 DEF BeginTicker, Move
<1>34. ASSUME NEW j \in Jobs, Tick(j) PROVE TypeInv'
  BY <1>34 DEF Tick, MoveFrom, Move
<1>35. ASSUME NEW j \in Jobs, TickDone(j) PROVE TypeInv'
  BY <1>35 DEF TickDone, MoveFrom, Move
<1>36. ASSUME NEW j \in Jobs, NEW o \in Outcomes, CheckReturns(j, o) PROVE TypeInv'
  <2>1. CASE o = "nil"
    <3>1. chk' = [chk EXCEPT ![j] = AfterCheck(j)] /\ pend' = pend
          /\ AfterCheck(j) \in {"tick", "done"}
      BY <1>36, <2>1 DEF CheckReturns, Move, AfterCheck
    <3> QED
      BY <1>36, <3>1 DEF CheckReturns
  <2>2. CASE o # "nil"
    <3>1. SafeCheck(o) \in Statuses
      BY <2>2, OutcomesAssumption DEF SafeCheck
    <3>2. chk' = [chk EXCEPT ![j] = "send"] /\ pend' = [pend EXCEPT ![j] = SafeCheck(o)]
      BY <1>36, <2>2 DEF CheckReturns, Move
    <3> QED
      BY <1>36, <3>1, <3>2 DEF CheckReturns
  <2> QED
    BY <2>1, <2>2
<1>37. ASSUME NEW j \in Jobs, Send(j) PROVE TypeInv'
  BY <1>37 DEF Send, Move, AfterCheck, HasRoom, Result
<1>38. ASSUME NEW j \in Jobs, NEW g \in Gen, Handoff(j, g) PROVE TypeInv'
  <2>1. TypeInv /\ Process(g, Result(j)) /\ Result(j) \in Names
    BY <1>38 DEF Handoff, Result
  <2>2. /\ pc' \in [Thread -> AppLabels \cup ProcLabels]
        /\ each' \in EachType
        /\ hc' \in [Gen -> Names \cup {NoResult}]
        /\ \A t \in App : pc'[t] = pc[t]
        /\ \A h \in Gen : pc'[h] = "store" => hc'[h] \in Names
    BY <2>1, ProcessType
  <2> QED
    BY <1>38, <2>2 DEF Handoff, Move, AfterCheck, EachType
<1>39. ASSUME NEW g \in Gen, Cancel(g) PROVE TypeInv'
  BY <1>39 DEF Cancel
<1>40. ASSUME RecvErr PROVE TypeInv'
  BY <1>40 DEF RecvErr
<1>99. CASE UNCHANGED vars
  BY <1>99 DEF vars
<1> QED
  BY <1>1, <1>2, <1>3, <1>4, <1>5, <1>6, <1>7, <1>8, <1>9, <1>10, <1>11, <1>12, <1>13,
     <1>14, <1>15, <1>16, <1>17, <1>18, <1>19, <1>20, <1>21, <1>22, <1>23, <1>24, <1>25,
     <1>26, <1>27, <1>28, <1>29, <1>30, <1>31, <1>32, <1>33, <1>34, <1>35, <1>36, <1>37,
     <1>38, <1>39, <1>40, <1>99 DEF Next, Step, Call, ApiStep, RunVisit, StopStep,
     Visit, Proc, Checker

\* The zero Manager, before any call, satisfies TypeInv.
LEMMA TypeInit == Init => TypeInv
<1> SUFFICES ASSUME Init PROVE TypeInv
  OBVIOUS
<1> USE DEF Init
<1>1. funnel \in Seq(Names) /\ funnel = <<>>
  OBVIOUS
<1>2. /\ flag \in [Probes -> BOOLEAN]
      /\ told \in [Reporters -> [Probes -> BOOLEAN]]
      /\ seen \in [Reporters -> [Checks -> Statuses \cup {"none"}]]
      /\ up \in [Reporters -> BOOLEAN]
  OBVIOUS
<1>3. /\ cap \in Nat \cup {NilChan} /\ errs \in {0, 1}
      /\ runs \in 0 .. MaxRuns
      /\ gen \in [App -> 0 .. MaxRuns] /\ ctxDone \in [Gen -> BOOLEAN]
  BY ThreadAssumption
<1>4. each \in [Thread -> [todo : SUBSET Reporters, call : EachCalls, value : BOOLEAN]]
  BY DEF NoEach, EachCalls
<1>5. /\ hc \in [Gen -> Names \cup {NoResult}]
      /\ est \in [Gen -> [live : BOOLEAN, ready : BOOLEAN, shownReady : BOOLEAN]]
      /\ arg \in [App -> Checks \cup Reporters \cup {"none"}]
  BY DEF NoEst
<1>6. /\ chk \in [Jobs -> CheckerLabels] /\ pend \in [Jobs -> Statuses \cup {"none"}]
      /\ pc \in [Thread -> AppLabels \cup ProcLabels]
  BY DEF CheckerLabels, AppLabels, ProcLabels
<1>7. LocalsOK
  BY ThreadAssumption DEF LocalsOK, Thread
<1>8. TypeOK
  BY <1>1, <1>2, <1>3, <1>4, <1>5, <1>6 DEF TypeOK
<1> QED
  BY <1>7, <1>8 DEF TypeInv

\* TypeInv holds in every reachable state of the manager.
LEMMA TypeInvariance == Spec => []TypeInv
BY TypeInit, TypeStep, PTL DEF Spec

\* The manager's fields, goroutines and reporters keep their types, and the funnel
\* never holds more than the capacity initInternals gave it, over any number of
\* Runs, checks and goroutines.
THEOREM TypeCorrect == Spec => []TypeOK
<1>1. TypeInv => TypeOK
  BY DEF TypeInv
<1> QED
  BY <1>1, TypeInvariance, PTL

-----------------------------------------------------------------------------
\* A result that is stored, in the funnel, in a processor's hand or still to come
\* from a checker carries the name of a registered check.
NamesKnown ==
  /\ reported \subseteq checkers
  /\ \A j \in Jobs : chk[j] # "off" => j[1] \in checkers
  /\ \A i \in 1 .. Len(funnel) : funnel[i].name \in checkers
  /\ \A g \in Gen : pc[g] = "store" => hc[g].name \in checkers

\* Every step preserves NamesKnown: checks are never removed, and names come from
\* the checks that Run dispatched (applyCheckOptions).
LEMMA NamesStep == TypeInv /\ NamesKnown /\ [Next]_vars => NamesKnown'
<1> SUFFICES ASSUME TypeInv, NamesKnown, [Next]_vars PROVE NamesKnown'
  OBVIOUS
<1> pc \in [Thread -> AppLabels \cup ProcLabels] /\ hc \in [Gen -> Names \cup {NoResult}]
    /\ chk \in [Jobs -> CheckerLabels]
  BY DEF TypeInv, TypeOK
<1> USE ThreadAssumption
    DEF NamesKnown, Thread, Jobs, registry, latches, results, channels, calls, checking,
        locals, shown, background, elsewhere
<1>1. ASSUME NEW t \in App, NEW c \in Checks, AddCheck(t, c) PROVE NamesKnown'
  BY <1>1 DEF AddCheck, BeginAdd, Goto
<1>2. ASSUME NEW t \in App, NEW r \in Reporters, AddReporter(t, r) PROVE NamesKnown'
  BY <1>2 DEF AddReporter, BeginAdd, Goto
<1>3. ASSUME NEW t \in App, RunCAS(t) PROVE NamesKnown'
  BY <1>3 DEF RunCAS, Goto
<1>4. ASSUME NEW t \in App, Stop(t) PROVE NamesKnown'
  BY <1>4 DEF Stop, StopCAS, AfterStop, Goto
<1>5. ASSUME NEW t \in App, AddCheckSet(t) PROVE NamesKnown'
  BY <1>5 DEF AddCheckSet, At, Goto
<1>6. ASSUME NEW t \in App, AddReporterSet(t) PROVE NamesKnown'
  BY <1>6 DEF AddReporterSet, At, Goto
<1>7. ASSUME NEW t \in App, InitInternals(t) PROVE NamesKnown'
  BY <1>7 DEF InitInternals, At, Goto
<1>8. ASSUME NEW t \in App, Validate(t) PROVE NamesKnown'
  BY <1>8 DEF Validate, At, Goto, StartEach
<1>9. ASSUME NEW t \in App, Dispatch(t) PROVE NamesKnown'
  BY <1>9 DEF Dispatch, At
<1>10. ASSUME NEW t \in App, DispatchCancelled(t) PROVE NamesKnown'
  BY <1>10 DEF DispatchCancelled, At, Goto
<1>11. ASSUME NEW t \in App, InitStartupState(t) PROVE NamesKnown'
  BY <1>11 DEF InitStartupState, At, Goto, Swap, StartEach
<1>12. ASSUME NEW t \in App, RunLive(t) PROVE NamesKnown'
  BY <1>12 DEF RunLive, At, Goto, Swap, StartEach
<1>13. ASSUME NEW t \in App, SendErr(t) PROVE NamesKnown'
  BY <1>13 DEF SendErr, At, Goto
<1>14. ASSUME NEW t \in App, Reset(t) PROVE NamesKnown'
  BY <1>14 DEF Reset, At, Goto
<1>15. ASSUME NEW t \in App, NEW r \in Reporters, RunReporter(t, r) PROVE NamesKnown'
  BY <1>15 DEF RunReporter, Visited
<1>16. ASSUME NEW t \in App, NEW r \in Reporters, RunReporterFails(t, r) PROVE NamesKnown'
  BY <1>16 DEF RunReporterFails, Goto
<1>17. ASSUME NEW t \in Thread, StopReady(t) PROVE NamesKnown'
  BY <1>17 DEF StopReady, At, Goto, SetReady, Swap, StartEach
<1>18. ASSUME NEW t \in Thread, StopReporters(t) PROVE NamesKnown'
  BY <1>18 DEF StopReporters, At, Goto, AfterStop, StartEach
<1>19. ASSUME NEW t \in Thread, NEW r \in Reporters, Tell(t, r) PROVE NamesKnown'
  BY <1>19 DEF Tell, Visited
<1>20. ASSUME NEW t \in Thread, NEW r \in Reporters, StopReporter(t, r) PROVE NamesKnown'
  BY <1>20 DEF StopReporter, Visited
<1>21. ASSUME NEW g \in Gen, ProcStop(g) PROVE NamesKnown'
  BY <1>21 DEF ProcStop, At, StopCAS, AfterStop, Goto
<1>22. ASSUME NEW g \in Gen, Receive(g) PROVE NamesKnown'
  <2>1. funnel \in Seq(Names) /\ funnel # <<>> /\ funnel' = Tail(funnel)
    BY <1>22 DEF Receive, TypeInv, TypeOK
  <2>2. Head(funnel).name \in checkers
    BY <2>1
  <2>3. \A i \in 1 .. Len(funnel') : funnel'[i].name \in checkers
    BY <2>1
  <2>4. \A h \in Gen : pc'[h] = "store" => hc'[h].name \in checkers
    BY <1>22, <2>2 DEF Receive, Process, Goto, TypeInv, TypeOK, Thread
  <2> QED
    BY <1>22, <2>3, <2>4 DEF Receive
<1>23. ASSUME NEW g \in Gen, Store(g) PROVE NamesKnown'
  BY <1>23 DEF Store, At, Goto, Put
<1>24. ASSUME NEW g \in Gen, NEW r \in Reporters, Relay(g, r) PROVE NamesKnown'
  BY <1>24 DEF Relay, Visited
<1>25. ASSUME NEW g \in Gen, FitnessBails(g) PROVE NamesKnown'
  BY <1>25 DEF FitnessBails, At, Goto
<1>26. ASSUME NEW g \in Gen, Fitness(g) PROVE NamesKnown'
  BY <1>26 DEF Fitness, At, Goto, Swap, StartEach
<1>27. ASSUME NEW g \in Gen, Aggregate(g) PROVE NamesKnown'
  BY <1>27 DEF Aggregate, At, Goto
<1>28. ASSUME NEW g \in Gen, InitialReady(g) PROVE NamesKnown'
  BY <1>28 DEF InitialReady, At, Goto, SetReady, Swap, StartEach
<1>29. ASSUME NEW g \in Gen, Liveness(g) PROVE NamesKnown'
  BY <1>29 DEF Liveness, At, Goto, Swap, StartEach
<1>30. ASSUME NEW g \in Gen, Readiness(g) PROVE NamesKnown'
  BY <1>30 DEF Readiness, At, Goto, ApplyReadiness, SetReady, Swap, StartEach
<1>31. ASSUME NEW j \in Jobs, Wake(j) PROVE NamesKnown'
  BY <1>31 DEF Wake, MoveFrom, Move
<1>32. ASSUME NEW j \in Jobs, BeginOnce(j) PROVE NamesKnown'
  BY <1>32 DEF BeginOnce, MoveFrom, Move
<1>33. ASSUME NEW j \in Jobs, BeginTicker(j) PROVE NamesKnown'
  BY <1>33 DEF BeginTicker, Move
<1>34. ASSUME NEW j \in Jobs, Tick(j) PROVE NamesKnown'
  BY <1>34 DEF Tick, MoveFrom, Move
<1>35. ASSUME NEW j \in Jobs, TickDone(j) PROVE NamesKnown'
  BY <1>35 DEF TickDone, MoveFrom, Move
<1>36. ASSUME NEW j \in Jobs, NEW o \in Outcomes, CheckReturns(j, o) PROVE NamesKnown'
  BY <1>36 DEF CheckReturns, Move, AfterCheck, SafeCheck
<1>37. ASSUME NEW j \in Jobs, Send(j) PROVE NamesKnown'
  <2>1. funnel \in Seq(Names) /\ funnel' = Append(funnel, Result(j)) /\ Result(j).name \in checkers
    BY <1>37 DEF Send, Result, TypeInv, TypeOK
  <2>2. Result(j) \in Names
    BY <1>37 DEF Send, Result, TypeInv, TypeOK, LocalsOK, Names, Jobs
  <2>3. \A i \in 1 .. Len(funnel') : funnel'[i].name \in checkers
    BY <2>1, <2>2
  <2> QED
    BY <1>37, <2>3 DEF Send, Move, TypeInv, TypeOK
<1>38. ASSUME NEW j \in Jobs, NEW g \in Gen, Handoff(j, g) PROVE NamesKnown'
  BY <1>38 DEF Handoff, At, Move, AfterCheck, Process, Goto, StartEach, Result
<1>39. ASSUME NEW g \in Gen, Cancel(g) PROVE NamesKnown'
  BY <1>39 DEF Cancel
<1>40. ASSUME RecvErr PROVE NamesKnown'
  BY <1>40 DEF RecvErr
<1>99. CASE UNCHANGED vars
  BY <1>99 DEF vars
<1> QED
  BY <1>1, <1>2, <1>3, <1>4, <1>5, <1>6, <1>7, <1>8, <1>9, <1>10, <1>11, <1>12, <1>13,
     <1>14, <1>15, <1>16, <1>17, <1>18, <1>19, <1>20, <1>21, <1>22, <1>23, <1>24, <1>25,
     <1>26, <1>27, <1>28, <1>29, <1>30, <1>31, <1>32, <1>33, <1>34, <1>35, <1>36, <1>37,
     <1>38, <1>39, <1>40, <1>99 DEF Next, Step, Call, ApiStep, RunVisit, StopStep,
     Visit, Proc, Checker

\* A subset of a finite set with as many elements is the whole set.
LEMMA SameSize ==
  ASSUME NEW S, NEW T, IsFiniteSet(T), S \subseteq T, Cardinality(S) = Cardinality(T)
  PROVE  T \subseteq S
BY FS_Subset

\* When processHealthCheck sets allChecksRan because two maps have the same size,
\* every registered check really has a result, however AddCheck, Run, Stop and
\* the processors of several Runs interleave.
THEOREM LatchIsSound == Spec => LatchSound
<1>1. Init => NamesKnown
  BY DEF Init, NamesKnown, Thread, Gen
<1>2. TypeInv /\ NamesKnown /\ NamesKnown' /\ [Next]_vars =>
        [~allChecksRan /\ allChecksRan' => checkers \subseteq reported']_vars
  <2> SUFFICES ASSUME TypeInv, NamesKnown, NamesKnown', Next, ~allChecksRan, allChecksRan'
               PROVE  checkers \subseteq reported'
    BY DEF vars
  <2>1. PICK g \in Gen : Store(g)
    BY DEF Next, Step, Call, ApiStep, RunVisit, StopStep, Visit, Proc, Checker, latches, background, elsewhere,
       AddCheck, AddReporter, BeginAdd, RunCAS, Stop, AddCheckSet, AddReporterSet, InitInternals, Validate, Dispatch,
       DispatchCancelled, InitStartupState, RunLive, SendErr, Reset, RunReporter, RunReporterFails,
       StopReady, StopReporters, Tell, StopReporter, ProcStop, Receive, Relay, FitnessBails, Fitness, CompleteStartup,
       Aggregate, InitialReady, Liveness, Readiness, Wake, BeginOnce, BeginTicker, Tick, TickDone, MoveFrom,
       CheckReturns, Send, Handoff, Cancel, RecvErr
  <2>2. Cardinality(reported') = Cardinality(checkers) /\ checkers' = checkers
    BY <2>1 DEF Store, AllReported, registry, background
  <2>3. reported' \subseteq checkers /\ IsFiniteSet(checkers)
    BY <2>2, SetsAssumption, FS_Subset DEF NamesKnown, TypeInv, TypeOK
  <2> QED
    BY <2>2, <2>3, SameSize
<1> QED
  BY <1>1, <1>2, TypeInvariance, NamesStep, PTL DEF Spec, LatchSound

-----------------------------------------------------------------------------
\* A fan-out that tells ready, or withdraws liveness, began with open gates; one
\* that tells startup began with startup complete.
EachGated(e) ==
  /\ e.call = "ready" /\ e.value => GatesOpen
  /\ e.call = "live" /\ ~e.value => GatesOpen
  /\ e.call = "startup" => e.value /\ startupDone

\* The labels evaluateFitness reaches only past its two early returns.
Evaluating == {"aggregate", "initial", "liveness", "readiness"}

\* Both gates are open wherever a probe can be turned the way they guard.
GateInv ==
  /\ \A t \in Thread : EachGated(each[t])
  /\ \A g \in Gen : pc[g] \in Evaluating => GatesOpen

\* A visit leaves what the loop tells as it is, or ends the loop.
LEMMA VisitedEach ==
  ASSUME TypeInv, NEW t \in Thread, NEW r \in Reporters, Visited(t, r)
  PROVE  \A u \in Thread : \/ each'[u].call = "none"
                           \/ /\ each'[u].call = each[u].call
                              /\ each'[u].value = each[u].value
<1>1. each \in [Thread -> [todo : SUBSET Reporters, call : EachCalls, value : BOOLEAN]]
  BY DEF TypeInv, TypeOK
<1>2. CASE each[t].todo = {r}
  BY <1>1, <1>2 DEF Visited, NoEach
<1>3. CASE each[t].todo # {r}
  <2>1. each' = [each EXCEPT ![t] = [each[t] EXCEPT !.todo = @ \ {r}]]
    BY <1>3 DEF Visited
  <2>2. each'[t] = [each[t] EXCEPT !.todo = @ \ {r}]
    BY <1>1, <2>1
  <2>3. each'[t].call = each[t].call /\ each'[t].value = each[t].value
    BY <1>1, <2>2
  <2> QED
    BY <1>1, <2>1, <2>3
<1> QED
  BY <1>2, <1>3

\* A loop that starts tells what it was started with; other loops are unchanged.
LEMMA StartEachEach ==
  ASSUME TypeInv, NEW t \in Thread, NEW call \in EachCalls, NEW v \in BOOLEAN, StartEach(t, call, v)
  PROVE  \A u \in Thread : \/ each'[u] = each[u]
                           \/ each'[u].call = call /\ each'[u].value = v
BY DEF TypeInv, TypeOK, StartEach

\* A swap starts at most a loop that tells the swapped value.
LEMMA SwapEach ==
  ASSUME TypeInv, NEW t \in Thread, NEW p \in Probes, NEW v \in BOOLEAN, Swap(t, p, v)
  PROVE  \A u \in Thread : \/ each'[u] = each[u]
                           \/ each'[u].call = p /\ each'[u].value = v
<1>1. CASE flag[p] # v
  BY <1>1, StartEachEach DEF Swap, EachCalls
<1>2. CASE flag[p] = v
  BY <1>2 DEF Swap
<1> QED
  BY <1>1, <1>2

\* setReady starts a loop that tells ready only when both gates are open.
LEMMA SetReadyEach ==
  ASSUME TypeInv, NEW t \in Thread, NEW v \in BOOLEAN, SetReady(t, v)
  PROVE  \A u \in Thread : \/ each'[u] = each[u]
                           \/ each'[u].call = "ready" /\ each'[u].value = v /\ (v => GatesOpen)
<1>1. CASE v /\ ~GatesOpen
  BY <1>1 DEF SetReady
<1>2. CASE ~(v /\ ~GatesOpen)
  BY <1>2, SwapEach DEF SetReady, Probes
<1> QED
  BY <1>1, <1>2

\* Only four kinds of step touch the gates or what reporters were told.
LEMMA Frame ==
  ASSUME [Next]_vars
  PROVE  \/ \E t \in Thread, r \in Reporters : Tell(t, r)
         \/ \E g \in Gen : Store(g) \/ Fitness(g)
         \/ \E t \in App : InitStartupState(t)
         \/ UNCHANGED <<told, allChecksRan, startupDone>>
<1> DEFINE Same == UNCHANGED <<told, allChecksRan, startupDone>>
<1> USE DEF latches, shown, background, elsewhere
<1>1. ASSUME NEW t \in App, Call(t) PROVE Same
  BY <1>1 DEF Call, AddCheck, AddReporter, BeginAdd, RunCAS, Stop
<1>2. ASSUME NEW t \in App, ApiStep(t) PROVE InitStartupState(t) \/ Same
  BY <1>2 DEF ApiStep, AddCheckSet, AddReporterSet, InitInternals, Validate, Dispatch,
              DispatchCancelled, RunLive, SendErr, Reset
<1>3. ASSUME NEW t \in App, RunVisit(t) PROVE Same
  BY <1>3 DEF RunVisit, RunReporter, RunReporterFails
<1>4. ASSUME NEW t \in Thread, StopStep(t) PROVE Same
  BY <1>4 DEF StopStep, StopReady, StopReporters
<1>5. ASSUME NEW t \in Thread, Visit(t) PROVE Same \/ \E r \in Reporters : Tell(t, r)
  BY <1>5 DEF Visit, StopReporter
<1>6. ASSUME NEW g \in Gen, Proc(g) PROVE Store(g) \/ Fitness(g) \/ Same
  BY <1>6 DEF Proc, ProcStop, Receive, Relay, FitnessBails, Aggregate, InitialReady,
              Liveness, Readiness
<1>7. ASSUME NEW j \in Jobs, Checker(j) \/ TickDone(j) \/ Send(j) PROVE Same
  BY <1>7 DEF Checker, Wake, BeginOnce, BeginTicker, Tick, TickDone, MoveFrom, CheckReturns, Send
<1>8. ASSUME NEW j \in Jobs, NEW g \in Gen, Handoff(j, g) PROVE Same
  BY <1>8 DEF Handoff
<1>9. ASSUME NEW g \in Gen, Cancel(g) PROVE Same
  BY <1>9 DEF Cancel
<1>10. CASE RecvErr
  BY <1>10 DEF RecvErr
<1>11. CASE UNCHANGED vars
  BY <1>11 DEF vars
<1> QED
  BY <1>1, <1>2, <1>3, <1>4, <1>5, <1>6, <1>7, <1>8, <1>9, <1>10, <1>11 DEF Next, Step

\* allChecksRan and startupDone are never cleared.
LEMMA GatesNeverClose ==
  ASSUME TypeInv, [Next]_vars
  PROVE  (allChecksRan => allChecksRan') /\ (startupDone => startupDone')
<1>1. ASSUME NEW t \in Thread, NEW r \in Reporters, Tell(t, r)
      PROVE  UNCHANGED <<allChecksRan, startupDone>>
  BY <1>1 DEF Tell, latches
<1>2. ASSUME NEW g \in Gen, Store(g) PROVE (allChecksRan => allChecksRan') /\ startupDone' = startupDone
  BY <1>2 DEF Store
<1>3. ASSUME NEW g \in Gen, Fitness(g) PROVE (startupDone => startupDone') /\ allChecksRan' = allChecksRan
  BY <1>3 DEF Fitness, CompleteStartup
<1>4. ASSUME NEW t \in App, InitStartupState(t)
      PROVE  (startupDone => startupDone') /\ allChecksRan' = allChecksRan
  BY <1>4 DEF InitStartupState
<1> QED
  BY <1>1, <1>2, <1>3, <1>4, Frame

\* A loop over Run, Stop or UpdateHealthChecks tells no probe.
LEMMA OtherEachGated ==
  ASSUME TypeInv, \A u \in Thread : EachGated(each[u]),
         allChecksRan => allChecksRan', startupDone => startupDone',
         NEW t \in Thread, NEW call \in {"Run", "Stop", "UpdateHealthChecks"},
         StartEach(t, call, FALSE)
  PROVE  \A u \in Thread : EachGated(each[u])'
<1>1. \A u \in Thread : each'[u] = each[u] \/ each'[u].call = call
  BY DEF TypeInv, TypeOK, StartEach
<1> QED
  BY <1>1 DEF EachGated, GatesOpen

\* Every step preserves GateInv.
LEMMA GateStep == TypeInv /\ GateInv /\ [Next]_vars => GateInv'
<1> SUFFICES ASSUME TypeInv, GateInv, [Next]_vars PROVE GateInv'
  OBVIOUS
<1> /\ pc \in [Thread -> AppLabels \cup ProcLabels]
    /\ each \in [Thread -> [todo : SUBSET Reporters, call : EachCalls, value : BOOLEAN]]
    /\ allChecksRan => allChecksRan'
    /\ startupDone => startupDone'
    /\ \A t \in App : t \in Thread /\ t \notin Gen
    /\ \A g \in Gen : g \in Thread
  BY ThreadAssumption, GatesNeverClose DEF TypeInv, TypeOK, Thread
<1> USE DEF GateInv, GatesOpen, Evaluating, EachCalls, Probes, registry, latches, results, channels, calls,
        checking, locals, shown, background, elsewhere
<1>1. ASSUME NEW t \in App, NEW c \in Checks, AddCheck(t, c) PROVE GateInv'
  BY <1>1 DEF AddCheck, EachGated, BeginAdd, Goto
<1>2. ASSUME NEW t \in App, NEW r \in Reporters, AddReporter(t, r) PROVE GateInv'
  BY <1>2 DEF AddReporter, EachGated, BeginAdd, Goto
<1>3. ASSUME NEW t \in App, RunCAS(t) PROVE GateInv'
  BY <1>3 DEF RunCAS, EachGated, Goto
<1>4. ASSUME NEW t \in App, Stop(t) PROVE GateInv'
  <2>1. \A h \in Gen : pc'[h] \in Evaluating => pc[h] \in Evaluating
    BY <1>4 DEF Stop, StopCAS, AfterStop, Goto
  <2> QED
    BY <1>4, <2>1 DEF Stop, EachGated
<1>5. ASSUME NEW t \in App, AddCheckSet(t) PROVE GateInv'
  BY <1>5 DEF AddCheckSet, EachGated, At, Goto
<1>6. ASSUME NEW t \in App, AddReporterSet(t) PROVE GateInv'
  BY <1>6 DEF AddReporterSet, EachGated, At, Goto
<1>7. ASSUME NEW t \in App, InitInternals(t) PROVE GateInv'
  BY <1>7 DEF InitInternals, EachGated, At, Goto
<1>8. ASSUME NEW t \in App, Validate(t) PROVE GateInv'
  <2>1. StartEach(t, "Run", FALSE) \/ UNCHANGED each
    BY <1>8 DEF Validate
  <2>2. \A u \in Thread : EachGated(each[u])'
    BY <2>1, OtherEachGated DEF EachGated
  <2> QED
    BY <1>8, <2>2 DEF Validate, Goto
<1>9. ASSUME NEW t \in App, Dispatch(t) PROVE GateInv'
  BY <1>9 DEF Dispatch, EachGated, At
<1>10. ASSUME NEW t \in App, DispatchCancelled(t) PROVE GateInv'
  BY <1>10 DEF DispatchCancelled, EachGated, At, Goto
<1>11. ASSUME NEW t \in App, InitStartupState(t) PROVE GateInv'
  <2>1. CASE checkers \cap AffectsStartup = {}
    <3>1. Swap(t, "startup", TRUE) /\ startupDone'
      BY <1>11, <2>1 DEF InitStartupState
    <3>2. \A u \in Thread : EachGated(each[u])'
      BY <3>1, SwapEach DEF EachGated
    <3> QED
      BY <1>11, <3>2 DEF InitStartupState, Goto
  <2>2. CASE checkers \cap AffectsStartup # {}
    BY <1>11, <2>2 DEF InitStartupState, Goto, EachGated
  <2> QED
    BY <2>1, <2>2
<1>12. ASSUME NEW t \in App, RunLive(t) PROVE GateInv'
  <2>1. \A u \in Thread : EachGated(each[u])'
    BY <1>12, SwapEach DEF RunLive, EachGated
  <2> QED
    BY <1>12, <2>1 DEF RunLive, Goto
<1>13. ASSUME NEW t \in App, SendErr(t) PROVE GateInv'
  BY <1>13 DEF SendErr, EachGated, At, Goto
<1>14. ASSUME NEW t \in App, Reset(t) PROVE GateInv'
  BY <1>14 DEF Reset, EachGated, At, Goto
<1>15. ASSUME NEW t \in App, NEW r \in Reporters, RunReporter(t, r) PROVE GateInv'
  <2>1. \A u \in Thread : EachGated(each[u])'
    BY <1>15, VisitedEach DEF RunReporter, EachGated
  <2> QED
    BY <1>15, <2>1 DEF RunReporter, Goto
<1>16. ASSUME NEW t \in App, NEW r \in Reporters, RunReporterFails(t, r) PROVE GateInv'
  BY <1>16 DEF RunReporterFails, Goto, EachGated, NoEach
<1>17. ASSUME NEW t \in Thread, StopReady(t) PROVE GateInv'
  <2>1. \A u \in Thread : EachGated(each[u])'
    BY <1>17, SetReadyEach DEF StopReady, EachGated
  <2> QED
    BY <1>17, <2>1 DEF StopReady, Goto
<1>18. ASSUME NEW t \in Thread, StopReporters(t) PROVE GateInv'
  <2>1. \A u \in Thread : EachGated(each[u])'
    BY <1>18, OtherEachGated DEF StopReporters
  <2>2. AfterStop(t) \notin Evaluating
    BY DEF AfterStop
  <2> QED
    BY <1>18, <2>1, <2>2 DEF StopReporters, Goto
<1>19. ASSUME NEW t \in Thread, NEW r \in Reporters, Tell(t, r) PROVE GateInv'
  <2>1. \A u \in Thread : EachGated(each[u])'
    BY <1>19, VisitedEach DEF Tell, EachGated
  <2> QED
    BY <1>19, <2>1 DEF Tell, Goto
<1>20. ASSUME NEW t \in Thread, NEW r \in Reporters, StopReporter(t, r) PROVE GateInv'
  <2>1. \A u \in Thread : EachGated(each[u])'
    BY <1>20, VisitedEach DEF StopReporter, EachGated
  <2> QED
    BY <1>20, <2>1 DEF StopReporter, Goto
<1>21. ASSUME NEW g \in Gen, ProcStop(g) PROVE GateInv'
  <2>1. \A h \in Gen : pc'[h] \in Evaluating => pc[h] \in Evaluating
    BY <1>21 DEF ProcStop, StopCAS, AfterStop, Goto
  <2> QED
    BY <1>21, <2>1 DEF ProcStop, EachGated
<1>22. ASSUME NEW g \in Gen, Receive(g) PROVE GateInv'
  <2>1. StartEach(g, "UpdateHealthChecks", FALSE) \/ UNCHANGED each
    BY <1>22 DEF Receive, Process
  <2>2. \A u \in Thread : EachGated(each[u])'
    BY <2>1, OtherEachGated DEF EachGated
  <2> QED
    BY <1>22, <2>2 DEF Receive, Process, Goto
<1>23. ASSUME NEW g \in Gen, Store(g) PROVE GateInv'
  BY <1>23 DEF Store, EachGated, At, Goto, Put
<1>24. ASSUME NEW g \in Gen, NEW r \in Reporters, Relay(g, r) PROVE GateInv'
  <2>1. \A u \in Thread : EachGated(each[u])'
    BY <1>24, VisitedEach DEF Relay, EachGated
  <2> QED
    BY <1>24, <2>1 DEF Relay, Goto
<1>25. ASSUME NEW g \in Gen, FitnessBails(g) PROVE GateInv'
  BY <1>25 DEF FitnessBails, EachGated, At, Goto
<1>26. ASSUME NEW g \in Gen, Fitness(g) PROVE GateInv'
  <2>1. allChecksRan' /\ startupDone'
    BY <1>26 DEF Fitness, CompleteStartup
  <2>2. \A u \in Thread : EachGated(each[u])'
    BY <1>26, <2>1, SwapEach DEF Fitness, CompleteStartup, EachGated
  <2> QED
    BY <1>26, <2>1, <2>2 DEF Fitness, CompleteStartup, Goto
<1>27. ASSUME NEW g \in Gen, Aggregate(g) PROVE GateInv'
  BY <1>27 DEF Aggregate, EachGated, At, Goto
<1>28. ASSUME NEW g \in Gen, InitialReady(g) PROVE GateInv'
  <2>1. \A u \in Thread : EachGated(each[u])'
    BY <1>28, SetReadyEach DEF InitialReady, EachGated
  <2> QED
    BY <1>28, <2>1 DEF InitialReady, At, Goto
<1>29. ASSUME NEW g \in Gen, Liveness(g) PROVE GateInv'
  <2>1. Swap(g, "live", est[g].live) /\ pc[g] = "liveness" /\ latches' = latches
    BY <1>29 DEF Liveness, At
  <2>2. est[g].live \in BOOLEAN
    BY DEF TypeInv, TypeOK
  <2>3. \A u \in Thread : EachGated(each[u])'
    BY <2>1, <2>2, SwapEach DEF EachGated
  <2> QED
    BY <1>29, <2>3 DEF Liveness, At, Goto
<1>30. ASSUME NEW g \in Gen, Readiness(g) PROVE GateInv'
  <2> DEFINE ready == est[g].ready /\ est[g].live
  <2>1. ApplyReadiness(g, ready) /\ ready \in BOOLEAN
    BY <1>30 DEF Readiness
  <2>2. \A u \in Thread : EachGated(each[u])'
    BY <2>1, SetReadyEach DEF ApplyReadiness, EachGated
  <2> QED
    BY <1>30, <2>2 DEF Readiness, Goto
<1>31. ASSUME NEW j \in Jobs, Wake(j) PROVE GateInv'
  BY <1>31 DEF Wake, EachGated, MoveFrom, Move
<1>32. ASSUME NEW j \in Jobs, BeginOnce(j) PROVE GateInv'
  BY <1>32 DEF BeginOnce, EachGated, MoveFrom, Move
<1>33. ASSUME NEW j \in Jobs, BeginTicker(j) PROVE GateInv'
  BY <1>33 DEF BeginTicker, EachGated, Move
<1>34. ASSUME NEW j \in Jobs, Tick(j) PROVE GateInv'
  BY <1>34 DEF Tick, EachGated, MoveFrom, Move
<1>35. ASSUME NEW j \in Jobs, TickDone(j) PROVE GateInv'
  BY <1>35 DEF TickDone, EachGated, MoveFrom, Move
<1>36. ASSUME NEW j \in Jobs, NEW o \in Outcomes, CheckReturns(j, o) PROVE GateInv'
  BY <1>36 DEF CheckReturns, EachGated, Move, AfterCheck, SafeCheck
<1>37. ASSUME NEW j \in Jobs, Send(j) PROVE GateInv'
  BY <1>37 DEF Send, EachGated, Move, AfterCheck, HasRoom, Result
<1>38. ASSUME NEW j \in Jobs, NEW g \in Gen, Handoff(j, g) PROVE GateInv'
  <2>1. StartEach(g, "UpdateHealthChecks", FALSE) \/ UNCHANGED each
    BY <1>38 DEF Handoff, Process
  <2>2. \A u \in Thread : EachGated(each[u])'
    BY <2>1, OtherEachGated DEF EachGated
  <2> QED
    BY <1>38, <2>2 DEF Handoff, Process, Goto
<1>39. ASSUME NEW g \in Gen, Cancel(g) PROVE GateInv'
  BY <1>39 DEF Cancel, EachGated
<1>40. ASSUME RecvErr PROVE GateInv'
  BY <1>40 DEF RecvErr, EachGated
<1>99. CASE UNCHANGED vars
  BY <1>99 DEF vars, EachGated
<1> QED
  BY <1>1, <1>2, <1>3, <1>4, <1>5, <1>6, <1>7, <1>8, <1>9, <1>10, <1>11, <1>12, <1>13,
     <1>14, <1>15, <1>16, <1>17, <1>18, <1>19, <1>20, <1>21, <1>22, <1>23, <1>24, <1>25,
     <1>26, <1>27, <1>28, <1>29, <1>30, <1>31, <1>32, <1>33, <1>34, <1>35, <1>36, <1>37,
     <1>38, <1>39, <1>40, <1>99 DEF Next, Step, Call, ApiStep, RunVisit, StopStep,
     Visit, Proc, Checker

\* GateInv holds in every reachable state of the manager.
LEMMA GateInvariance == Spec => []GateInv
<1>1. Init => GateInv
  BY ThreadAssumption DEF Init, GateInv, EachGated, NoEach, Evaluating, Thread
<1> QED
  BY <1>1, GateStep, TypeInvariance, PTL DEF Spec

\* The manager implements ProbePromise: whatever checks, reporters, goroutines and
\* Runs there are, no reporter is told ready, or to give up liveness, before all
\* checks have reported and startup is complete, and no gate closes again.
THEOREM PromiseKept == Spec => ImplementsPromise
<1>1. Init => Promise!Init
  BY DEF Init, Promise!Init, Probes
<1>2. TypeInv /\ GateInv /\ [Next]_vars => [Promise!Next]_Promise!vars
  <2> SUFFICES ASSUME TypeInv, GateInv, [Next]_vars PROVE [Promise!Next]_Promise!vars
    OBVIOUS
  <2>1. ASSUME NEW t \in Thread, NEW r \in Reporters, Tell(t, r) PROVE Promise!Next
    <3> DEFINE p == each[t].call
               b == each[t].value
    <3>1. p \in Probes /\ b \in BOOLEAN /\ EachGated(each[t])
      BY <2>1 DEF Tell, GateInv, TypeInv, TypeOK
    <3>2. Promise!SetProbe(r, p, b)
      BY <2>1 DEF Tell, Promise!SetProbe, latches
    <3>3. CASE p = "live"
      BY <3>1, <3>2, <3>3 DEF EachGated, GatesOpen, Promise!Next, Promise!SetLiveness, Promise!Open
    <3>4. CASE p = "ready"
      BY <3>1, <3>2, <3>4 DEF EachGated, GatesOpen, Promise!Next, Promise!SetReadiness, Promise!Open
    <3>5. CASE p = "startup"
      BY <3>1, <3>2, <3>5 DEF EachGated, Promise!Next, Promise!SetStartup
    <3> QED
      BY <3>1, <3>3, <3>4, <3>5 DEF Probes
  <2>2. ASSUME NEW g \in Gen, Store(g) PROVE [Promise!Next]_Promise!vars
    BY <2>2 DEF Store, shown, Promise!Next, Promise!AllRan, Promise!vars, TypeInv, TypeOK
  <2>3. ASSUME NEW g \in Gen, Fitness(g) PROVE [Promise!Next]_Promise!vars
    BY <2>3 DEF Fitness, CompleteStartup, shown, Promise!Next, Promise!Complete, Promise!vars
  <2>4. ASSUME NEW t \in App, InitStartupState(t) PROVE [Promise!Next]_Promise!vars
    BY <2>4 DEF InitStartupState, shown, Promise!Next, Promise!Complete, Promise!vars
  <2>5. CASE UNCHANGED <<told, allChecksRan, startupDone>>
    BY <2>5 DEF Promise!vars
  <2>6. \/ \E t \in Thread, r \in Reporters : Tell(t, r)
        \/ \E g \in Gen : Store(g) \/ Fitness(g)
        \/ \E t \in App : InitStartupState(t)
        \/ UNCHANGED <<told, allChecksRan, startupDone>>
    BY Frame
  <2> QED
    BY <2>1, <2>2, <2>3, <2>4, <2>5, <2>6
<1> QED
  BY <1>1, <1>2, TypeInvariance, GateInvariance, PTL DEF Spec, ImplementsPromise, Promise!Spec
=============================================================================
