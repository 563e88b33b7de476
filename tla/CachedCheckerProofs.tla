------------------------- MODULE CachedCheckerProofs -------------------------
(***************************************************************************)
(* Proofs about CachedChecker, for any number of callers and refreshes.    *)
(* The write lock gives TypeOK; on top of it, CacheInv relates the numbers *)
(* of results to the refresh that is under way.                            *)
(***************************************************************************)
EXTENDS CachedChecker, TLAPS

\* Every step keeps the types, and the lock with the caller that rechecks or
\* refreshes.
LEMMA TypeStep == TypeOK /\ [Next]_vars => TypeOK'
<1> SUFFICES ASSUME TypeOK, [Next]_vars PROVE TypeOK'
  OBVIOUS
<1> USE CacheAssumption DEF TypeOK, Nobody, Valid, Goto, history
<1>1. CASE Expire
  <2>1. fresh' \in BOOLEAN
    BY <1>1 DEF Expire
  <2>2. lapses' \in Nat
    BY <1>1 DEF Expire
  <2> QED
    BY <1>1, <2>1, <2>2 DEF Expire
<1>2. ASSUME NEW c \in Callers, Call(c) PROVE TypeOK'
  BY <1>2 DEF Call
<1>3. ASSUME NEW c \in Callers, FastPath(c) PROVE TypeOK'
  <2>1. CASE Valid
    BY <1>3, <2>1 DEF FastPath, Return
  <2>2. CASE ~Valid
    BY <1>3, <2>2 DEF FastPath
  <2> QED
    BY <2>1, <2>2
<1>4. ASSUME NEW c \in Callers, Acquire(c) PROVE TypeOK'
  BY <1>4 DEF Acquire
<1>5. ASSUME NEW c \in Callers, Recheck(c) PROVE TypeOK'
  <2>1. CASE StillValid
    BY <1>5, <2>1 DEF Recheck, Return
  <2>2. CASE ~StillValid
    BY <1>5, <2>2 DEF Recheck
  <2> QED
    BY <2>1, <2>2
<1>6. ASSUME NEW c \in Callers, NEW o \in Outcomes, InnerEnds(c, o) PROVE TypeOK'
  <2>1. CASE o = "panic"
    BY <1>6, <2>1 DEF InnerEnds, Unlock
  <2>2. CASE o # "panic"
    BY <1>6, <2>2 DEF InnerEnds, Unlock, Return
  <2> QED
    BY <2>1, <2>2
<1>7. CASE UNCHANGED vars
  BY <1>7 DEF vars
<1> QED
  BY <1>1, <1>2, <1>3, <1>4, <1>5, <1>6, <1>7 DEF Next, InnerCheck

\* The fields of the cache have their types, and the write lock of cached.go is
\* held exactly by the one goroutine that rechecks or refreshes.
THEOREM TypeCorrect == Spec => []TypeOK
<1>1. Init => TypeOK
  <2> SUFFICES ASSUME Init PROVE TypeOK
    OBVIOUS
  <2>1. fresh \in BOOLEAN
    BY DEF Init
  <2> QED
    BY <2>1, CacheAssumption DEF Init, TypeOK, Nobody
<1> QED
  BY <1>1, TypeStep, PTL DEF Spec

-----------------------------------------------------------------------------
Refreshing == \E c \in Callers : pc[c] = "inner"

\* A refresh is paid for by a lapse, except the one whose result is valid or still
\* to come; a refresh under way has the highest number, and what is cached is the
\* newest result that was handed out.
CacheInv ==
  /\ inner <= lapses + (IF Valid \/ Refreshing THEN 1 ELSE 0)
  /\ \A c \in Callers : pc[c] = "inner" => num[c] = inner /\ inner > 0
  /\ newest <= inner
  /\ cached # 0 => cached = newest
  /\ \A c \in Callers : floor[c] <= newest

\* A Check returns a result at least as new as all that were handed out before it
\* began, or nil.
LEMMA ReturnsNewest ==
  ASSUME TypeOK, CacheInv, NEW c \in Callers, NEW n \in 0 .. MaxInner,
         n = 0 \/ n >= newest, Return(c, n)
  PROVE  \A d \in Callers : got'[d] # got[d] => got'[d] = 0 \/ got'[d] >= floor[d]
BY CacheAssumption DEF TypeOK, CacheInv, Return

\* Every step keeps CacheInv.
LEMMA CacheStep == TypeOK /\ CacheInv /\ [Next]_vars => CacheInv'
<1> SUFFICES ASSUME TypeOK, CacheInv, [Next]_vars PROVE CacheInv'
  OBVIOUS
<1> USE CacheAssumption DEF TypeOK, CacheInv, Valid, Refreshing, Goto, history
<1>1. CASE Expire
  BY <1>1 DEF Expire
<1>2. ASSUME NEW c \in Callers, Call(c) PROVE CacheInv'
  BY <1>2 DEF Call
<1>3. ASSUME NEW c \in Callers, FastPath(c) PROVE CacheInv'
  BY <1>3 DEF FastPath, Return
<1>4. ASSUME NEW c \in Callers, Acquire(c) PROVE CacheInv'
  BY <1>4 DEF Acquire
<1>5. ASSUME NEW c \in Callers, Recheck(c) PROVE CacheInv'
  BY <1>5 DEF Recheck, Return, StillValid
<1>6. ASSUME NEW c \in Callers, NEW o \in Outcomes, InnerEnds(c, o) PROVE CacheInv'
  BY <1>6 DEF InnerEnds, Return, Unlock
<1>7. CASE UNCHANGED vars
  BY <1>7 DEF vars
<1> QED
  BY <1>1, <1>2, <1>3, <1>4, <1>5, <1>6, <1>7 DEF Next, InnerCheck

\* CacheInv holds in every reachable state.
LEMMA CacheInvariance == Spec => []CacheInv
<1>1. Init => CacheInv
  BY DEF Init, CacheInv, Valid
<1> QED
  BY <1>1, CacheStep, TypeCorrect, PTL DEF Spec

\* No thundering herd: each expiry, and each refresh without a result, costs one
\* call of the inner checker, however many goroutines call Check.
THEOREM NoThunderingHerd == Spec => []OneRefreshPerLapse
<1>1. TypeOK /\ CacheInv => OneRefreshPerLapse
  BY CacheAssumption DEF TypeOK, CacheInv, OneRefreshPerLapse
<1> QED
  BY <1>1, CacheInvariance, TypeCorrect, PTL

\* Results never go back in time for a caller of Check.
THEOREM ResultsNeverOlder == Spec => NeverOlder
<1> DEFINE A == \A c \in Callers : got'[c] # got[c] => got'[c] = 0 \/ got'[c] >= floor[c]
<1>1. TypeOK /\ CacheInv /\ [Next]_vars => [A]_vars
  <2> SUFFICES ASSUME TypeOK, CacheInv, [Next]_vars PROVE UNCHANGED got \/ A
    BY DEF vars
  <2>1. ASSUME NEW c \in Callers, FastPath(c) PROVE UNCHANGED got \/ A
    BY <2>1, ReturnsNewest DEF FastPath, Valid, TypeOK, CacheInv
  <2>2. ASSUME NEW c \in Callers, Recheck(c) PROVE UNCHANGED got \/ A
    BY <2>2, ReturnsNewest DEF Recheck, StillValid, Valid, TypeOK, CacheInv
  <2>3. ASSUME NEW c \in Callers, NEW o \in Outcomes, InnerEnds(c, o)
        PROVE  UNCHANGED got \/ A
    <3>1. num[c] \in 0 .. MaxInner /\ 0 \in 0 .. MaxInner /\ num[c] >= newest
      BY <2>3, CacheAssumption DEF InnerEnds, TypeOK, CacheInv
    <3> QED
      BY <2>3, <3>1, ReturnsNewest DEF InnerEnds
  <2>4. ASSUME NEW c \in Callers, Call(c) \/ Acquire(c) PROVE UNCHANGED got
    BY <2>4 DEF Call, Acquire
  <2>5. CASE Expire \/ UNCHANGED vars
    BY <2>5 DEF Expire, vars
  <2> QED
    BY <2>1, <2>2, <2>3, <2>4, <2>5 DEF Next, InnerCheck
<1> QED
  BY <1>1, CacheInvariance, TypeCorrect, PTL DEF Spec, NeverOlder
=============================================================================
