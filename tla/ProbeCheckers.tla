---------------------------- MODULE ProbeCheckers ----------------------------
(***************************************************************************)
(* The checkers under checker/: command, db, dns, http, redis and tcp.     *)
(* The manager calls Check again and again, one call at a time, with the   *)
(* context of its Run.  A call is a short script of blocking operations;   *)
(* the peer may answer, answer badly, fail or stay silent, and time passes.*)
(*                                                                         *)
(* An operation that was given a deadline ends when it is reached, and one *)
(* that was given the context ends when that is cancelled, before any more *)
(* time passes.  Times are relative: left is what remains until the        *)
(* deadline of the operation, age the time since the call began.           *)
(***************************************************************************)
EXTENDS Naturals, Sequences

CONSTANTS
  Timeouts,      \* values given to WithTimeout; 0 is one a caller may pass
  MaxAge         \* bound: clocks stop counting here

ASSUME TimeAssumption ==
  /\ Timeouts \subseteq Nat
  /\ MaxAge \in Nat /\ \A d \in Timeouts : 3 * d <= MaxAge

VARIABLES
  kind, timeout, password,  \* the checker: its package and its options
  op, left,                 \* the operation under way, and its time left
  conn,                     \* a connection or a response body is open
  cancelled,                \* the context
  res,                      \* the status of the last result
  age, late,                \* history: time since the call began, and the
                            \* part of it that came after a cancellation
  answered                  \* history: operations that succeeded

checker == <<kind, timeout, password>>
vars == <<checker, op, left, conn, cancelled, res, age, late, answered>>

Kinds == {"command", "db", "dns", "http", "redis", "tcp"}
NoTimer == MaxAge + 1

\* Operations that the goroutine performs on its own, without waiting.
Local == {"close", "status"}

\* The operations of a call of each kind, in their order.
CommandCheck == <<"fn">>
DBCheck == <<"ping">>
DNSCheck == <<"lookup">>
HTTPCheck == <<"do", "status">>
TCPCheck == <<"dial", "close">>

\* Mutation: a redis server that takes the password is healthy.
RedisCheckNoPing == IF password THEN <<"dial", "AUTH">> ELSE <<"dial", "PING">>

RedisCheck == IF password THEN <<"dial", "AUTH", "PING">> ELSE <<"dial", "PING">>

Check ==
  CASE kind = "command" -> CommandCheck [] kind = "db" -> DBCheck
    [] kind = "dns" -> DNSCheck [] kind = "http" -> HTTPCheck
    [] kind = "redis" -> RedisCheck [] kind = "tcp" -> TCPCheck

\* What follows an operation that succeeded.
Follows(o) ==
  LET i == CHOOSE n \in DOMAIN Check : Check[n] = o
  IN IF i = Len(Check) THEN "end" ELSE Check[i + 1]

\* Mutation: tcp and redis dial without the context.
UsesNoDialContext(o) == o \in {"ping", "lookup", "do"}

\* Operations that are given the context and end with it.  The function of a
\* command may ignore it, and the redis conversation is not given it.  A pinger, an
\* http client and a resolver that the application supplies are assumed to obey it.
UsesContext(o) == o \in {"dial", "ping", "lookup", "do"}

\* The time a first operation has; net.Dialer takes a Timeout of 0 for none.
FirstTimer(o, d) ==
  IF o = "fn" \/ (o = "dial" /\ d = 0) THEN NoTimer ELSE d

\* Mutation: the deadline of the connection is set anew before PING.
RenewedTimer(o) == IF o \in {"dial", "AUTH"} THEN timeout ELSE left

\* Mutation: no deadline is set on the connection.
NoConnDeadline(o) == NoTimer

\* conn.SetDeadline: one deadline for all reads and writes that follow.
NextTimer(o) == IF o = "dial" THEN timeout ELSE left

\* The operation ends now: its deadline or the end of its context is reached.
Interrupted ==
  /\ op \notin Local \cup {"idle"}
  /\ left = 0 \/ (cancelled /\ UsesContext(op))

Init ==
  /\ kind \in Kinds /\ timeout \in Timeouts /\ password \in BOOLEAN
  /\ op = "idle" /\ left = NoTimer /\ conn = FALSE
  /\ cancelled = FALSE /\ res = "none"
  /\ age = 0 /\ late = 0 /\ answered = {}

-----------------------------------------------------------------------------
\* Mutation: the connection is closed at the end of a successful check only.
CloseIfHealthy(status) == conn' = (conn /\ status = "unhealthy")

\* The deferred Close; tcp closes in the operation before.
Close(status) == conn' = FALSE

Return(status) ==
  /\ res' = status
  /\ op' = "idle" /\ left' = NoTimer
  /\ Close(status)

\* Check: db looks at the context before it asks anybody.
Begin ==
  /\ op = "idle"
  /\ kind = "db" => ~cancelled
  /\ op' = Head(Check) /\ left' = FirstTimer(Head(Check), timeout)
  /\ age' = 0 /\ late' = 0 /\ answered' = {} /\ res' = "none"
  /\ UNCHANGED <<checker, conn, cancelled>>

\* A cancelled context or a nil pinger (db), a request that cannot be built
\* (http): an unhealthy result before any operation.
Refuse ==
  /\ op = "idle" /\ kind \in {"db", "http"}
  /\ age' = 0 /\ late' = 0 /\ answered' = {}
  /\ Return("unhealthy")
  /\ UNCHANGED <<checker, cancelled>>

\* The operation succeeds: on to the next one, or to a healthy result.
Succeed ==
  /\ op # "idle"
  /\ answered' = answered \cup {op}
  /\ IF Follows(op) = "end"
     THEN Return("healthy")
     ELSE /\ op' = Follows(op)
          /\ left' = NextTimer(op)
          /\ conn' = (conn \/ op \in {"dial", "do"})
          /\ UNCHANGED res
  /\ UNCHANGED <<checker, cancelled, age, late>>

\* Mutation: a peer that answers with another status code is degraded.
DegradedIfAnswers(o) == IF o = "status" THEN "degraded" ELSE "unhealthy"

\* The status of the result, whichever operation failed.
ErrorStatus(o) == "unhealthy"

\* An error, a panic of a command's function (which is recovered), no address,
\* another status code than expected, a reply other than + or +PONG.
Fail ==
  /\ op \notin {"idle", "close"}
  /\ Return(ErrorStatus(op))
  /\ UNCHANGED <<checker, cancelled, age, late, answered>>

\* The deadline passes or the context ends.
TimeOut ==
  /\ Interrupted
  /\ Return("unhealthy")
  /\ UNCHANGED <<checker, cancelled, age, late, answered>>

Capped(n) == IF n < MaxAge THEN n + 1 ELSE n

\* Time passes while the operation waits.
Tick ==
  /\ op \notin Local \cup {"idle"}
  /\ ~Interrupted
  /\ left' = IF left = NoTimer THEN left ELSE left - 1
  /\ age' = Capped(age)
  /\ late' = IF cancelled THEN Capped(late) ELSE late
  /\ UNCHANGED <<checker, op, conn, cancelled, res, answered>>

\* The manager's context is cancelled, which may be during a call.
Cancel ==
  /\ ~cancelled
  /\ cancelled' = TRUE
  /\ UNCHANGED <<checker, op, left, conn, res, age, late, answered>>

Next == Begin \/ Refuse \/ Succeed \/ Fail \/ TimeOut \/ Tick \/ Cancel

Spec == Init /\ [][Next]_vars

(***************************************************************************)
(* Time goes on, deadlines fire, and a goroutine does its local steps.     *)
(* Nothing obliges a peer to answer or a command's function to return.     *)
(***************************************************************************)
Fairness ==
  WF_vars(Tick) /\ WF_vars(TimeOut) /\ WF_vars(op \in Local /\ Succeed)

FairSpec == Spec /\ Fairness

-----------------------------------------------------------------------------
(* Properties.                                                              *)

Operations == {"fn", "ping", "lookup", "do", "dial", "AUTH", "PING"} \cup Local

\* The values of the checker, of the operation and of the clocks.  A result is healthy
\* or unhealthy and never degraded, which the manager would let pass.
TypeOK ==
  /\ kind \in Kinds /\ timeout \in Timeouts /\ password \in BOOLEAN
  /\ op \in Operations \cup {"idle"}
  /\ left \in 0 .. NoTimer
  /\ conn \in BOOLEAN /\ cancelled \in BOOLEAN
  /\ res \in {"none", "healthy", "unhealthy"}
  /\ age \in 0 .. MaxAge /\ late \in 0 .. MaxAge
  /\ answered \subseteq Operations

\* The operations that a healthy result stands for.
Needed ==
  CASE kind = "redis" -> {"dial", "PING"} \cup (IF password THEN {"AUTH"} ELSE {})
    [] kind = "http" -> {"do", "status"}
    [] kind = "tcp" -> {"dial"}
    [] kind = "db" -> {"ping"}
    [] kind = "dns" -> {"lookup"}
    [] OTHER -> {"fn"}

\* A healthy result is reported only if, in this very call, the peer was reached
\* and gave the answer the checker asks for; whatever else ended the call, at
\* whichever operation, gives an unhealthy result.
HealthyEarned == res = "healthy" => Needed \subseteq answered

\* Check leaves no connection and no response body open, on no path.
NothingLeftOpen == op = "idle" => ~conn

\* A call lasts no longer than its timeout, and one of redis no longer than twice
\* that: once for the dial and once for the whole conversation.  A command's
\* function and a dial with a timeout of 0 are not bounded.
WithinBudget ==
  op # "idle" /\ kind # "command" /\ ~(kind \in {"tcp", "redis"} /\ timeout = 0) =>
    age <= (IF kind = "redis" THEN 2 * timeout ELSE timeout)

\* A cancelled context ends a call at once; only a redis conversation that has
\* begun goes on, until its deadline.
PromptWhenCancelled ==
  cancelled /\ op # "idle" /\ kind # "command" =>
    late <= (IF kind = "redis" THEN timeout ELSE 0)

\* Every call ends although the peer stays silent, if it has a timeout at all.
CallEnds ==
  op # "idle" /\ kind # "command" /\ timeout > 0 ~> op = "idle"
=============================================================================
