---------------------------- MODULE CachedChecker ----------------------------
(***************************************************************************)
(* CachedChecker.Check, cached.go: a TTL cache around a checker, with      *)
(* double-checked locking on an RWMutex.  The result of the n-th call of   *)
(* the inner checker is the number n; the passage of time is the action    *)
(* Expire.  The read-locked section has no effect on others and is one     *)
(* step; the write lock is held across the call of the inner checker.      *)
(***************************************************************************)
EXTENDS Naturals, FiniteSets

CONSTANTS
  Callers,      \* goroutines that call Check
  Outcomes,     \* how the inner Check may end: "result", "nil" or "panic"
  MaxInner      \* bound: calls of the inner checker

Nobody == "nobody"

ASSUME CacheAssumption ==
  /\ Outcomes \subseteq {"result", "nil", "panic"} /\ MaxInner \in Nat
  /\ Nobody \notin Callers

VARIABLES
  pc,           \* the step of each caller
  lock,         \* the holder of the write lock, or Nobody
  cached,       \* the number of the cached result, 0 for nil
  fresh,        \* now is before expiry
  inner,        \* calls of the inner checker so far
  num,          \* the number of the inner call a caller is in, or made last
  got,          \* what a caller's last Check returned, 0 for nil
  newest,       \* history: the newest result handed out so far
  floor,        \* history: newest at the time a caller's Check began
  lapses        \* history: expirations, and inner calls without a result

history == <<newest, floor, lapses>>
vars == <<pc, lock, cached, fresh, inner, num, got, history>>

Init ==
  /\ pc = [c \in Callers |-> "idle"]
  /\ lock = Nobody
  /\ cached = 0 /\ fresh = FALSE
  /\ inner = 0
  /\ num = [c \in Callers |-> 0]
  /\ got = [c \in Callers |-> 0]
  /\ newest = 0 /\ floor = [c \in Callers |-> 0] /\ lapses = 0

Goto(c, l) == pc' = [pc EXCEPT ![c] = l]

Valid == cached # 0 /\ fresh

Call(c) ==
  /\ pc[c] = "idle"
  /\ Goto(c, "read")
  /\ floor' = [floor EXCEPT ![c] = newest]
  /\ UNCHANGED <<lock, cached, fresh, inner, num, got, newest, lapses>>

Return(c, n) ==
  /\ got' = [got EXCEPT ![c] = n]
  /\ newest' = IF n > newest THEN n ELSE newest
  /\ Goto(c, "idle")

\* RLock; the cached result if it is valid; RUnlock.
FastPath(c) ==
  /\ pc[c] = "read"
  /\ lock = Nobody
  /\ IF Valid THEN Return(c, cached) ELSE Goto(c, "lock") /\ UNCHANGED <<got, newest>>
  /\ UNCHANGED <<lock, cached, fresh, inner, num, floor, lapses>>

\* Mutation: the read lock is enough to refresh.
AcquireShared(c) ==
  /\ pc[c] = "lock"
  /\ Goto(c, "recheck")
  /\ UNCHANGED <<lock, cached, fresh, inner, num, got, history>>

Acquire(c) ==
  /\ pc[c] = "lock"
  /\ lock = Nobody
  /\ lock' = c
  /\ Goto(c, "recheck")
  /\ UNCHANGED <<cached, fresh, inner, num, got, history>>

\* Mutation: no second check after the write lock is acquired.
NeverStillValid == FALSE

\* The double check: somebody refreshed while this caller waited.
StillValid == Valid

Recheck(c) ==
  /\ pc[c] = "recheck"
  /\ IF StillValid
     THEN Return(c, cached) /\ lock' = Nobody /\ UNCHANGED <<inner, num>>
     ELSE /\ inner < MaxInner
          /\ inner' = inner + 1
          /\ num' = [num EXCEPT ![c] = inner + 1]
          /\ Goto(c, "inner")
          /\ UNCHANGED <<got, newest, lock>>
  /\ UNCHANGED <<cached, fresh, floor, lapses>>

\* Mutation: a panic of the inner checker leaves the lock held.
UnlockUnlessPanic(o) == lock' = IF o = "panic" THEN lock ELSE Nobody

\* The deferred Unlock, which also runs when the inner checker panics.
Unlock(o) == lock' = Nobody

\* The inner Check ends: a result, or nil, is cached and returned; a panic goes
\* through to the caller and leaves the cache as it was.
InnerEnds(c, o) ==
  /\ pc[c] = "inner"
  /\ LET n == IF o = "result" THEN num[c] ELSE 0
     IN IF o = "panic"
        THEN Goto(c, "idle") /\ UNCHANGED <<cached, fresh, got, newest>>
        ELSE cached' = n /\ fresh' = TRUE /\ Return(c, n)
  /\ lapses' = IF o = "result" THEN lapses ELSE lapses + 1
  /\ Unlock(o)
  /\ UNCHANGED <<inner, num, floor>>

\* The TTL of the cached result runs out.
Expire ==
  /\ Valid
  /\ fresh' = FALSE
  /\ lapses' = lapses + 1
  /\ UNCHANGED <<pc, lock, cached, inner, num, got, newest, floor>>

InnerCheck(c) == \E o \in Outcomes : InnerEnds(c, o)

Next ==
  \/ Expire
  \/ \E c \in Callers : Call(c) \/ FastPath(c) \/ Acquire(c) \/ Recheck(c) \/ InnerCheck(c)

Spec == Init /\ [][Next]_vars

(***************************************************************************)
(* sync.RWMutex starves neither readers nor writers: strong fairness of    *)
(* the two steps that take the lock.  The inner checker is assumed to end: *)
(* while it runs, callers that find the result expired wait for it.        *)
(***************************************************************************)
Fairness ==
  \A c \in Callers : SF_vars(FastPath(c)) /\ SF_vars(Acquire(c)) /\ WF_vars(Recheck(c) \/ InnerCheck(c))

FairSpec == Spec /\ Fairness

-----------------------------------------------------------------------------
(* Properties.                                                              *)

\* The values of the cache's fields; the write lock is held by the caller that
\* rechecks or refreshes, so that only one goroutine refreshes at a time.
TypeOK ==
  /\ pc \in [Callers -> {"idle", "read", "lock", "recheck", "inner"}]
  /\ lock \in Callers \cup {Nobody}
  /\ cached \in 0 .. MaxInner /\ fresh \in BOOLEAN
  /\ inner \in 0 .. MaxInner
  /\ num \in [Callers -> 0 .. MaxInner] /\ got \in [Callers -> 0 .. MaxInner]
  /\ newest \in 0 .. MaxInner /\ floor \in [Callers -> 0 .. MaxInner]
  /\ lapses \in Nat
  /\ \A c \in Callers : pc[c] \in {"recheck", "inner"} <=> lock = c

\* No thundering herd: however many callers find the cache expired, each expiry
\* (and each refresh that gave no result) costs one call of the inner checker.
OneRefreshPerLapse == inner <= 1 + lapses

\* Results never go back in time: a Check does not return an older result than
\* one that was handed out before the call began.
NeverOlder ==
  [][\A c \in Callers : got'[c] # got[c] => got'[c] = 0 \/ got'[c] >= floor[c]]_vars

\* A call returns when inner checks end (MaxInner is the bound of the model).
CallReturns ==
  \A c \in Callers : pc[c] # "idle" ~> pc[c] = "idle" \/ inner = MaxInner
=============================================================================
