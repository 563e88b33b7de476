------------------------- MODULE ProbeCheckersProofs -------------------------
(***************************************************************************)
(* Proofs about ProbeCheckers, for all timeouts.  ScriptLemma says what    *)
(* the scripts of the six checkers come to; ScriptInv relates the          *)
(* operation that is under way to what was answered, and TimeInv to the    *)
(* time that has passed and is left.                                       *)
(***************************************************************************)
EXTENDS ProbeCheckers, TLAPS

\* The operations of a call of each kind.
OpsOf ==
  CASE kind = "command" -> {"fn"} [] kind = "db" -> {"ping"} [] kind = "dns" -> {"lookup"}
    [] kind = "http" -> {"do", "status"} [] kind = "tcp" -> {"dial", "close"}
    [] kind = "redis" -> {"dial", "PING"} \cup (IF password THEN {"AUTH"} ELSE {})

\* What follows an operation that occurs once in a script.
LEMMA FollowsOnce ==
  ASSUME NEW i \in DOMAIN Check, \A j \in DOMAIN Check : Check[j] = Check[i] => j = i
  PROVE  Follows(Check[i]) = IF i = Len(Check) THEN "end" ELSE Check[i + 1]
BY DEF Follows

\* The first operation of each call, and what follows each operation.
LEMMA ScriptLemma ==
  ASSUME kind \in Kinds, password \in BOOLEAN
  PROVE  /\ kind = "command" => Head(Check) = "fn" /\ Follows("fn") = "end"
         /\ kind = "db" => Head(Check) = "ping" /\ Follows("ping") = "end"
         /\ kind = "dns" => Head(Check) = "lookup" /\ Follows("lookup") = "end"
         /\ kind = "http" => /\ Head(Check) = "do"
                             /\ Follows("do") = "status" /\ Follows("status") = "end"
         /\ kind = "tcp" => /\ Head(Check) = "dial"
                            /\ Follows("dial") = "close" /\ Follows("close") = "end"
         /\ kind = "redis" => /\ Head(Check) = "dial"
                              /\ Follows("dial") = IF password THEN "AUTH" ELSE "PING"
                              /\ password => Follows("AUTH") = "PING"
                              /\ Follows("PING") = "end"
<1>1. ASSUME NEW o, Check = <<o>> PROVE Head(Check) = o /\ Follows(o) = "end"
  BY <1>1, FollowsOnce
<1>2. ASSUME NEW o, NEW p, o # p, Check = <<o, p>>
      PROVE  Head(Check) = o /\ Follows(o) = p /\ Follows(p) = "end"
  <2>1. 1 \in DOMAIN Check /\ 2 \in DOMAIN Check /\ Len(Check) = 2
        /\ Check[1] = o /\ Check[2] = p /\ \A j \in DOMAIN Check : j = 1 \/ j = 2
    BY <1>2
  <2> QED
    BY <1>2, <2>1, FollowsOnce
<1>3. ASSUME NEW o, NEW p, NEW q, o # p, p # q, o # q, Check = <<o, p, q>>
      PROVE  Head(Check) = o /\ Follows(o) = p /\ Follows(p) = q /\ Follows(q) = "end"
  <2>1. /\ 1 \in DOMAIN Check /\ 2 \in DOMAIN Check /\ 3 \in DOMAIN Check /\ Len(Check) = 3
        /\ Check[1] = o /\ Check[2] = p /\ Check[3] = q
        /\ \A j \in DOMAIN Check : j = 1 \/ j = 2 \/ j = 3
    BY <1>3
  <2> QED
    BY <1>3, <2>1, FollowsOnce
<1>4. CASE kind = "command"
  BY <1>1, <1>4 DEF Check, CommandCheck
<1>5. CASE kind = "db"
  BY <1>1, <1>5 DEF Check, DBCheck
<1>6. CASE kind = "dns"
  BY <1>1, <1>6 DEF Check, DNSCheck
<1>7. CASE kind = "http"
  BY <1>2, <1>7 DEF Check, HTTPCheck
<1>8. CASE kind = "tcp"
  BY <1>2, <1>8 DEF Check, TCPCheck
<1>9. CASE kind = "redis"
  <2>1. CASE password
    <3>1. Check = <<"dial", "AUTH", "PING">>
      BY <1>9, <2>1 DEF Check, RedisCheck
    <3> QED
      BY <1>3, <1>9, <2>1, <3>1
  <2>2. CASE ~password
    <3>1. Check = <<"dial", "PING">>
      BY <1>9, <2>2 DEF Check, RedisCheck
    <3> QED
      BY <1>2, <1>9, <2>2, <3>1
  <2> QED
    BY <2>1, <2>2
<1> QED
  BY <1>4, <1>5, <1>6, <1>7, <1>8, <1>9 DEF Kinds

-----------------------------------------------------------------------------
\* The operations that came before one that is under way.
Before(o) ==
  CASE o = "status" -> {"do"}
    [] o \in {"close", "AUTH"} -> {"dial"}
    [] o = "PING" -> {"dial"} \cup (IF password THEN {"AUTH"} ELSE {})
    [] OTHER -> {}

\* A call is in its script, and what came before was answered in this call.
ScriptInv ==
  /\ op \in OpsOf \cup {"idle"}
  /\ op # "idle" => res = "none"
  /\ Before(op) \subseteq answered
  /\ HealthyEarned

\* What both invariants say of an operation that has succeeded or may be begun.
LEMMA NextOp ==
  ASSUME TypeOK, ScriptInv
  PROVE  /\ Head(Check) \in OpsOf /\ Before(Head(Check)) = {}
         /\ op # "idle" /\ Follows(op) # "end" =>
              Follows(op) \in OpsOf /\ Before(Follows(op)) \subseteq answered \cup {op}
         /\ op # "idle" /\ Follows(op) = "end" => Needed \subseteq answered \cup {op}
<1> USE ScriptLemma DEF TypeOK, ScriptInv, OpsOf, Before, Needed
<1>1. CASE kind = "command"
  BY <1>1
<1>2. CASE kind = "db"
  BY <1>2
<1>3. CASE kind = "dns"
  BY <1>3
<1>4. CASE kind = "http"
  BY <1>4
<1>5. CASE kind = "tcp"
  BY <1>5
<1>6. CASE kind = "redis"
  BY <1>6
<1> QED
  BY <1>1, <1>2, <1>3, <1>4, <1>5, <1>6 DEF Kinds

\* The scripts have operations only.
LEMMA OpsType == ASSUME TypeOK PROVE OpsOf \subseteq Operations /\ "idle" \notin OpsOf
BY DEF TypeOK, Kinds, OpsOf, Operations, Local

\* What a call leaves behind when it returns.
LEMMA ReturnType ==
  ASSUME MaxAge \in Nat, NEW status \in {"healthy", "unhealthy"}, Return(status)
  PROVE  /\ res' \in {"none", "healthy", "unhealthy"} /\ op' = "idle"
         /\ left' \in 0 .. NoTimer /\ conn' \in BOOLEAN
<1>1. conn' \in BOOLEAN
  BY DEF Return, Close
<1> QED
  BY <1>1 DEF Return, NoTimer

\* Every step of a checker keeps the types.
LEMMA TypeStep == TypeOK /\ ScriptInv /\ [Next]_vars => TypeOK'
<1> SUFFICES ASSUME TypeOK, ScriptInv, [Next]_vars PROVE TypeOK'
  OBVIOUS
<1>0. /\ timeout \in Nat /\ timeout <= MaxAge /\ MaxAge \in Nat
      /\ Head(Check) \in Operations
      /\ op # "idle" /\ Follows(op) # "end" => Follows(op) \in Operations
  BY TimeAssumption, NextOp, OpsType DEF TypeOK
<1> USE <1>0 DEF TypeOK, NoTimer, checker
<1>1. CASE Begin
  BY <1>1 DEF Begin, FirstTimer
<1>2. CASE Refuse
  BY <1>2, ReturnType DEF Refuse
<1>3. CASE Succeed
  <2>1. CASE Follows(op) = "end"
    BY <1>3, <2>1, ReturnType DEF Succeed, Operations, Local
  <2>2. CASE Follows(op) # "end"
    <3>1. conn' \in BOOLEAN
      BY <1>3, <2>2 DEF Succeed
    <3> QED
      BY <1>3, <2>2, <3>1 DEF Succeed, NextTimer
  <2> QED
    BY <2>1, <2>2
<1>4. CASE Fail
  BY <1>4, ReturnType DEF Fail, ErrorStatus
<1>5. CASE TimeOut
  BY <1>5, ReturnType DEF TimeOut
<1>6. CASE Tick
  <2>1. left' \in 0 .. NoTimer
    BY <1>6 DEF Tick, Interrupted
  <2>2. age' \in 0 .. MaxAge /\ late' \in 0 .. MaxAge
    BY <1>6 DEF Tick, Capped
  <2> QED
    BY <1>6, <2>1, <2>2 DEF Tick
<1>7. CASE Cancel
  BY <1>7 DEF Cancel
<1>8. CASE UNCHANGED vars
  BY <1>8 DEF vars
<1> QED
  BY <1>1, <1>2, <1>3, <1>4, <1>5, <1>6, <1>7, <1>8 DEF Next

\* Every step keeps a call in its script.
LEMMA ScriptStep == TypeOK /\ ScriptInv /\ [Next]_vars => ScriptInv'
<1> SUFFICES ASSUME TypeOK, ScriptInv, [Next]_vars PROVE ScriptInv'
  OBVIOUS
<1>0. checker' = checker => /\ OpsOf' = OpsOf /\ Needed' = Needed
                            /\ \A o : Before(o)' = Before(o)
  BY DEF checker, OpsOf, Needed, Before
<1>1. /\ Before("idle") = {}
      /\ "idle" \notin OpsOf
  BY OpsType DEF Before
<1> USE <1>0, <1>1 DEF ScriptInv, HealthyEarned
<1>2. CASE Begin
  BY <1>2, NextOp DEF Begin
<1>3. CASE Refuse
  BY <1>3 DEF Refuse, Return
<1>4. CASE Succeed
  BY <1>4, NextOp DEF Succeed, Return
<1>5. CASE Fail
  BY <1>5 DEF Fail, ErrorStatus, Return
<1>6. CASE TimeOut
  BY <1>6 DEF TimeOut, Return
<1>7. CASE Tick
  BY <1>7 DEF Tick
<1>8. CASE Cancel
  BY <1>8 DEF Cancel
<1>9. CASE UNCHANGED vars
  BY <1>9 DEF vars
<1> QED
  BY <1>2, <1>3, <1>4, <1>5, <1>6, <1>7, <1>8, <1>9 DEF Next

\* The types and ScriptInv are inductive together.
LEMMA ScriptInvariance == Spec => [](TypeOK /\ ScriptInv)
<1>1. Init => TypeOK
  <2> SUFFICES ASSUME Init PROVE TypeOK
    OBVIOUS
  <2>1. conn \in BOOLEAN /\ cancelled \in BOOLEAN
    BY DEF Init
  <2> QED
    BY <2>1, TimeAssumption DEF Init, TypeOK, NoTimer
<1>2. Init => ScriptInv
  BY DEF Init, ScriptInv, Before, HealthyEarned
<1> QED
  BY <1>1, <1>2, TypeStep, ScriptStep, PTL DEF Spec

\* The state of a checker has its types: in particular no operation is begun that
\* is not in its script, and no clock runs past its deadline.
THEOREM TypeCorrect == Spec => []TypeOK
BY ScriptInvariance, PTL

\* Every healthy result of the six checkers was earned by all operations of its
\* own call, whatever the peer, the clock and the context did.
THEOREM HealthyIsEarned == Spec => []HealthyEarned
<1>1. ScriptInv => HealthyEarned
  BY DEF ScriptInv
<1> QED
  BY <1>1, ScriptInvariance, PTL

\* Check closes what it opened on every path.
THEOREM ConnectionsClosed == Spec => []NothingLeftOpen
<1>1. Init => NothingLeftOpen
  BY DEF Init, NothingLeftOpen
<1>2. TypeOK /\ ScriptInv /\ NothingLeftOpen /\ [Next]_vars => NothingLeftOpen'
  <2> SUFFICES ASSUME TypeOK, ScriptInv, NothingLeftOpen, [Next]_vars PROVE NothingLeftOpen'
    OBVIOUS
  <2>1. /\ Head(Check) # "idle"
        /\ op # "idle" /\ Follows(op) # "end" => Follows(op) # "idle"
    BY NextOp, OpsType
  <2> USE DEF NothingLeftOpen
  <2>2. CASE Succeed
    BY <2>1, <2>2 DEF Succeed, Return, Close
  <2>3. CASE Begin
    BY <2>1, <2>3 DEF Begin
  <2>4. CASE Refuse \/ Fail \/ TimeOut
    BY <2>4 DEF Refuse, Fail, ErrorStatus, TimeOut, Return, Close
  <2>5. CASE Tick \/ Cancel
    BY <2>5 DEF Tick, Cancel
  <2>6. CASE UNCHANGED vars
    BY <2>6 DEF vars
  <2> QED
    BY <2>2, <2>3, <2>4, <2>5, <2>6 DEF Next
<1> QED
  BY <1>1, <1>2, ScriptInvariance, PTL DEF Spec

-----------------------------------------------------------------------------
\* First operations, which are given the context; and the redis conversation.
First == {"ping", "lookup", "do", "dial"}
Conversation == {"AUTH", "PING"}

\* A deadline bounds the call, except for a command and a dial without timeout.
Timed == kind # "command" /\ ~(kind \in {"tcp", "redis"} /\ timeout = 0)

\* What has passed and what is left add up to the budget: one timeout, and a second
\* one for the conversation with redis.  Time after a cancellation passes in a
\* conversation only.
TimeInv ==
  /\ Timed /\ op \in First => age + left <= timeout
  /\ Timed /\ op \in Local => age <= timeout
  /\ Timed /\ op \in Conversation => age + left <= 2 * timeout
  /\ kind # "command" /\ op \in First \cup Local => late = 0
  /\ op \in Conversation => late + left <= timeout

\* Where the operations of a call are, and what follows them.
LEMMA OpKinds ==
  ASSUME TypeOK, ScriptInv
  PROVE  /\ Head(Check) \in First \cup {"fn"}
         /\ op = "fn" => kind = "command"
         /\ op \in {"fn", "idle"} \cup First \cup Local \cup Conversation
         /\ op \in Conversation => kind = "redis"
         /\ op \in First /\ Follows(op) \in Conversation => op = "dial" /\ kind = "redis"
         /\ op # "idle" => Follows(op) \notin First \cup {"fn", "idle"}
         /\ op \in Conversation => Follows(op) \notin Local
         /\ op \in Local => Follows(op) = "end"
         /\ op = "fn" => Follows(op) = "end"
<1> USE ScriptLemma DEF TypeOK, ScriptInv, OpsOf, First, Conversation, Local
<1>1. CASE kind = "command"
  BY <1>1
<1>2. CASE kind = "db"
  BY <1>2
<1>3. CASE kind = "dns"
  BY <1>3
<1>4. CASE kind = "http"
  BY <1>4
<1>5. CASE kind = "tcp"
  BY <1>5
<1>6. CASE kind = "redis"
  BY <1>6
<1> QED
  BY <1>1, <1>2, <1>3, <1>4, <1>5, <1>6 DEF Kinds

\* Every step keeps TimeInv.
LEMMA TimeStep == TypeOK /\ ScriptInv /\ TimeInv /\ [Next]_vars => TimeInv'
<1> SUFFICES ASSUME TypeOK, ScriptInv, TimeInv, [Next]_vars PROVE TimeInv'
  OBVIOUS
<1>0. /\ timeout \in Nat /\ 3 * timeout <= MaxAge /\ MaxAge \in Nat
      /\ left \in Nat /\ age \in Nat /\ late \in Nat
      /\ "idle" \notin First \cup Local \cup Conversation
  BY TimeAssumption DEF TypeOK, First, Local, Conversation
<1>1. (Refuse \/ Fail \/ TimeOut => op' = "idle") /\ (Succeed /\ Follows(op) = "end" => op' = "idle")
  BY DEF Refuse, Fail, ErrorStatus, TimeOut, Succeed, Return
<1>2. CASE op' = "idle"
  BY <1>0, <1>2 DEF TimeInv
<1>3. CASE Begin
  <2>1. op' \in First \cup {"fn"} /\ age' = 0 /\ late' = 0 /\ checker' = checker
    BY <1>3, OpKinds DEF Begin
  <2>2. op' \in First /\ Timed => left' = timeout
    BY <1>3, ScriptLemma DEF Begin, FirstTimer, First, Timed, TypeOK, Kinds
  <2> QED
    BY <1>0, <2>1, <2>2 DEF TimeInv, Timed, checker, First, Local, Conversation
<1>4. CASE Succeed /\ Follows(op) # "end"
  <2>1. /\ op' = Follows(op) /\ op # "idle" /\ left' = NextTimer(op)
        /\ UNCHANGED <<checker, age, late>>
    BY <1>4 DEF Succeed
  <2>2. op \in First \cup Conversation /\ op' \in Local \cup Conversation
    BY <1>4, <2>1, OpKinds, NextOp DEF OpsOf, First, Local, Conversation, TypeOK, Kinds
  <2>3. CASE op \in First
    BY <1>0, <2>1, <2>2, <2>3, OpKinds DEF TimeInv, Timed, NextTimer, checker, First, Local, Conversation
  <2>4. CASE op \in Conversation
    BY <1>0, <2>1, <2>2, <2>4, OpKinds DEF TimeInv, Timed, NextTimer, checker, First, Local, Conversation
  <2> QED
    BY <2>2, <2>3, <2>4
<1>5. CASE Tick
  <2>1. /\ op \notin Local \cup {"idle"} /\ op' = op /\ checker' = checker /\ left # 0
        /\ ~(cancelled /\ UsesContext(op))
    BY <1>5 DEF Tick, Interrupted
  <2>2. age' <= age + 1 /\ late' <= late + 1 /\ age' \in Nat /\ late' \in Nat
    BY <1>0, <1>5 DEF Tick, Capped
  <2>3. left <= MaxAge => left' = left - 1
    BY <1>0, <1>5 DEF Tick, NoTimer
  <2>4. CASE op \in First
    <3>1. late' = late
      BY <1>5, <2>1, <2>4 DEF Tick, UsesContext, First
    <3> QED
      BY <1>0, <2>1, <2>2, <2>3, <2>4, <3>1 DEF TimeInv, Timed, checker, First, Local, Conversation
  <2>5. CASE op \in Conversation
    BY <1>0, <2>1, <2>2, <2>3, <2>5 DEF TimeInv, Timed, checker, First, Local, Conversation
  <2>6. CASE op \in {"fn"}
    BY <2>1, <2>6 DEF TimeInv, First, Local, Conversation
  <2> QED
    BY <2>1, <2>4, <2>5, <2>6, OpKinds
<1>6. CASE Cancel \/ UNCHANGED vars
  BY <1>6 DEF Cancel, vars, checker, TimeInv, Timed
<1> QED
  BY <1>1, <1>2, <1>3, <1>4, <1>5, <1>6 DEF Next

\* TimeInv holds in every reachable state.
LEMMA TimeInvariance == Spec => []TimeInv
<1>1. Init => TimeInv
  BY DEF Init, TimeInv, First, Local, Conversation
<1> QED
  BY <1>1, TimeStep, ScriptInvariance, PTL DEF Spec

\* Whatever the peer does, a call of Check lasts no longer than its timeout, and one
\* of redis no longer than twice that.
THEOREM CallsWithinBudget == Spec => []WithinBudget
<1>1. TypeOK /\ ScriptInv /\ TimeInv => WithinBudget
  <2> SUFFICES ASSUME TypeOK, ScriptInv, TimeInv, op # "idle", Timed
               PROVE  age <= (IF kind = "redis" THEN 2 * timeout ELSE timeout)
    BY DEF WithinBudget, Timed
  <2>1. age \in Nat /\ left \in Nat /\ timeout \in Nat
    BY TimeAssumption DEF TypeOK
  <2> QED
    BY <2>1, OpKinds DEF TimeInv, Timed
<1> QED
  BY <1>1, TimeInvariance, ScriptInvariance, PTL

\* A cancellation ends every call at once, and a conversation with redis within the
\* timeout.
THEOREM CancellationIsPrompt == Spec => []PromptWhenCancelled
<1>1. TypeOK /\ ScriptInv /\ TimeInv => PromptWhenCancelled
  <2> SUFFICES ASSUME TypeOK, ScriptInv, TimeInv, op # "idle", kind # "command"
               PROVE  late <= (IF kind = "redis" THEN timeout ELSE 0)
    BY DEF PromptWhenCancelled
  <2>1. late \in Nat /\ left \in Nat /\ timeout \in Nat
    BY TimeAssumption DEF TypeOK
  <2> QED
    BY <2>1, OpKinds DEF TimeInv
<1> QED
  BY <1>1, TimeInvariance, ScriptInvariance, PTL
=============================================================================
