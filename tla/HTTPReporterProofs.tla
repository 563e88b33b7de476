------------------------- MODULE HTTPReporterProofs -------------------------
(***************************************************************************)
(* Proofs about HTTPReporter, for any checks, providers, updaters, clients *)
(* and numbers of calls.  TypeOK carries the two locks; PayloadInv relates *)
(* results, payload and the bodies of responses through their versions.    *)
(***************************************************************************)
EXTENDS HTTPReporter, TLAPS

Verdicts == {"none", "200", "503", "404", "pass", "warn", "fail"}
Responses == [verdict : Verdicts, body : Results, since : Results]
Labels == {"idle", "merge", "encode", "write", "unlock", "begin", "handle", "body", "ready"}

\* The empty map of results, and a part of a map, are maps of results.
LEMMA ResultsType ==
  /\ NoCheck \in [version : Nat, bad : BOOLEAN]
  /\ NoChecks \in Results
  /\ NoResponse \in Responses /\ TimedOut \in Responses
  /\ \A S : \A m \in Results : Only(S, m) \in Results
<1>1. NoCheck \in [version : Nat, bad : BOOLEAN]
  BY DEF NoCheck
<1>2. NoChecks \in Results
  BY <1>1 DEF NoChecks, Results
<1>3. NoResponse \in Responses /\ TimedOut \in Responses
  BY <1>2 DEF NoResponse, TimedOut, Responses, Verdicts
<1>4. \A S : \A m \in Results : Only(S, m) \in Results
  BY <1>1 DEF Only, Results
<1> QED
  BY <1>1, <1>2, <1>3, <1>4

\* A handler writes a response, or nothing when its request has timed out.
LEMMA WriteType ==
  ASSUME TypeOK, NEW c \in Clients, NEW r \in Responses, Write(c, r)
  PROVE  resp' \in [Clients -> Responses]
BY DEF TypeOK, Write, Responses, Verdicts

\* The end of a handler.
LEMMA RespondType ==
  ASSUME TypeOK, NEW c \in Clients, NEW v \in Verdicts, NEW S, NEW m \in Results,
         Respond(c, v, S, m)
  PROVE  /\ resp' \in [Clients -> Responses]
         /\ req' \in [Clients -> Requests \cup {"none"}]
         /\ late' = late \ {c}
         /\ pc' = [pc EXCEPT ![c] = "idle"]
<1>1. resp[c].since \in Results
  BY DEF TypeOK
<1>2. [verdict |-> v, body |-> Only(S, m), since |-> Only(S, resp[c].since)] \in Responses
  BY <1>1, ResultsType DEF Responses
<1>3. resp' \in [Clients -> Responses]
  BY <1>2, WriteType DEF Respond
<1> QED
  BY <1>3 DEF Respond, Goto, TypeOK

\* What TypeOK says of the goroutines and the locks they hold.
Locks ==
  /\ pc \in [Updaters \cup Clients -> Labels]
  /\ readers = {t \in Updaters \cup Clients : pc[t] \in {"write", "unlock", "ready"}}
  /\ sema \in Updaters \cup {Nobody}
  /\ \A u \in Updaters : sema = u <=> At(u, "unlock")
  /\ late \subseteq {c \in Clients : ~At(c, "idle")}

\* A handler that moves between labels where it holds no lock keeps Locks.
LEMMA HandlerMoves ==
  ASSUME Locks, NEW c \in Clients, NEW l \in {"idle", "begin", "handle", "body"},
         pc[c] \notin {"write", "unlock", "ready"}, Goto(c, l),
         UNCHANGED <<readers, sema>>, late' \subseteq late, l = "idle" => c \notin late'
  PROVE  Locks'
BY HTTPAssumption DEF Locks, Goto, At, Labels

\* The same of an updater.
LEMMA UpdaterMoves ==
  ASSUME Locks, NEW u \in Updaters, NEW l \in {"idle", "merge", "encode"},
         pc[u] \notin {"write", "unlock", "ready"}, Goto(u, l), UNCHANGED <<readers, sema, late>>
  PROVE  Locks'
BY HTTPAssumption DEF Locks, Goto, At, Labels

\* The rest of TypeOK.
Fields ==
  /\ running \in BOOLEAN /\ probe \in [Probes -> BOOLEAN]
  /\ hcs \in Results /\ data \in Results /\ snap \in [Updaters -> Results]
  /\ server \in {"new", "serving", "closed"}
  /\ req \in [Clients -> Requests \cup {"none"}]
  /\ resp \in [Clients -> Responses]
  /\ life \in [Providers -> {"idle", "listen", "up", "shutdown", "drain"}]
  /\ runs \in 0 .. MaxRuns /\ updates \in 0 .. MaxUpdates

\* TypeOK is Fields and Locks.
LEMMA TypeParts == TypeOK <=> Fields /\ Locks
BY DEF TypeOK, Fields, Locks, Responses, Verdicts, Labels

\* Run and Stop of the reporter keep TypeOK.
LEMMA ProviderType ==
  ASSUME Fields, Locks, NEW p \in Providers, Provider(p)
  PROVE  Fields' /\ Locks'
<1> USE HTTPAssumption DEF Fields, Live, store, feed, clients
<1>1. Provider(p) => UNCHANGED <<pc, readers, sema, late>>
  BY DEF Provider, RunCAS, Listen, ListenFails, StopSwap, Shutdown, Drained, DrainCancelled
<1>2. Locks'
  BY <1>1 DEF Locks, At
<1>3. CASE RunCAS(p)
  <2>1. running' \in BOOLEAN /\ runs' \in 0 .. MaxRuns
    BY <1>3 DEF RunCAS
  <2> QED
    BY <1>2, <1>3, <2>1 DEF RunCAS
<1>4. CASE ListenFails(p)
  <2>1. running' \in BOOLEAN
    BY <1>4 DEF ListenFails
  <2> QED
    BY <1>2, <1>4, <2>1 DEF ListenFails
<1>5. CASE Listen(p)
  BY <1>2, <1>5 DEF Listen
<1>6. CASE StopSwap(p)
  <2>1. running' \in BOOLEAN
    BY <1>6 DEF StopSwap
  <2> QED
    BY <1>2, <1>6, <2>1 DEF StopSwap
<1>7. CASE Shutdown(p)
  BY <1>2, <1>7 DEF Shutdown
<1>8. CASE Drained(p) \/ DrainCancelled(p)
  BY <1>2, <1>8 DEF Drained, DrainCancelled
<1> QED
  BY <1>3, <1>4, <1>5, <1>6, <1>7, <1>8 DEF Provider

\* UpdateHealthChecks and the Set methods keep TypeOK.
LEMMA UpdaterType ==
  ASSUME Fields, Locks, NEW u \in Updaters, Updater(u)
  PROVE  Fields' /\ Locks'
<1> USE HTTPAssumption DEF Fields, At, store, lifecycle, feed, clients
<1>1. CASE Update(u)
  BY <1>1, UpdaterMoves DEF Update
<1>2. ASSUME NEW k \in Checks, NEW bad \in BOOLEAN, Merge(u, k, bad) PROVE Fields' /\ Locks'
  <2>1. hcs[k].version \in Nat
    BY DEF Results
  <2>2. [version |-> hcs[k].version + 1, bad |-> bad] \in [version : Nat, bad : BOOLEAN]
    BY <2>1
  <2>3. hcs' \in Results
    BY <1>2, <2>2 DEF Merge, Results
  <2> QED
    BY <1>2, <2>3, UpdaterMoves DEF Merge
<1>3. CASE Encode(u)
  <2>1. Locks'
    BY <1>3 DEF Encode, Goto, Locks, Labels
  <2> QED
    BY <1>3, <2>1 DEF Encode
<1>4. CASE EncodePanics(u)
  BY <1>4, UpdaterMoves DEF EncodePanics
<1>5. CASE WriteCache(u)
  <2>1. Locks'
    BY <1>5 DEF WriteCache, Goto, Locks, Labels
  <2> QED
    BY <1>5, <2>1 DEF WriteCache
<1>6. CASE EndUpdate(u)
  <2>1. Locks'
    BY <1>6 DEF EndUpdate, Goto, Locks, Labels
  <2> QED
    BY <1>6, <2>1, ResultsType DEF EndUpdate
<1>7. ASSUME NEW p \in Toggled, NEW b \in BOOLEAN, SetProbe(u, p, b) PROVE Fields' /\ Locks'
  BY <1>7 DEF SetProbe, Locks, Probes
<1> QED
  BY <1>1, <1>2, <1>3, <1>4, <1>5, <1>6, <1>7 DEF Updater, MergeOne

\* Handlers, their requests and their timeouts keep TypeOK.
LEMMA ClientType ==
  ASSUME Fields, Locks, NEW c \in Clients,
         Handler(c) \/ Timeout(c) \/ \E q \in Requests : Accept(c, q)
  PROVE  Fields' /\ Locks'
<1>0. TypeOK
  BY TypeParts
<1>v. /\ resp[c] \in Responses /\ resp[c].verdict \in Verdicts
      /\ hcs \in Results /\ data \in Results /\ NoChecks \in Results
      /\ \A b : Code(b) \in Verdicts /\ {"503", "404", "pass", "warn", "fail"} \subseteq Verdicts
  BY ResultsType DEF Fields, Responses, Code, Verdicts
<1> USE <1>0, <1>v DEF At, store, lifecycle, feed, clients
<1>1. CASE Begin(c)
  <2>1. CASE running
    BY <1>1, <2>1, HandlerMoves DEF Begin, Fields, Locks
  <2>2. CASE ~running
    <3>1. Respond(c, "503", {}, NoChecks)
      BY <1>1, <2>2 DEF Begin
    <3> QED
      BY <1>1, <3>1, RespondType, HandlerMoves DEF Begin, Fields, Goto
  <2> QED
    BY <2>1, <2>2
<1>2. CASE ProbeCode(c)
  <2>1. [verdict |-> Code(probe[req[c]]), body |-> NoChecks, since |-> data] \in Responses
    BY DEF Responses
  <2>2. resp' \in [Clients -> Responses]
    BY <1>2, <2>1, WriteType DEF ProbeCode
  <2> QED
    BY <1>2, <2>2, HandlerMoves DEF ProbeCode, Fields, Locks
<1>3. CASE ProbeBody(c)
  BY <1>3, RespondType, HandlerMoves DEF ProbeBody, Fields, Goto
<1>4. CASE Individual(c)
  <2>1. \E v \in Verdicts : \E S : Respond(c, v, S, hcs)
    BY <1>4 DEF Individual
  <2> QED
    BY <1>4, <2>1, RespondType, HandlerMoves DEF Individual, Fields, Goto
<1>5. ASSUME NEW X \in SUBSET Checks, Verbose(c, X) PROVE Fields' /\ Locks'
  <2>1. \E v \in Verdicts : \E S : Respond(c, v, S, hcs)
    BY <1>5 DEF Verbose
  <2> QED
    BY <1>5, <2>1, RespondType, HandlerMoves DEF Verbose, Fields, Goto
<1>6. CASE ManifestLive(c)
  <2> DEFINE v == IF probe["live"] THEN "pass" ELSE "fail"
  <2>1. [resp[c] EXCEPT !.verdict = v] \in Responses
    BY DEF Responses, Verdicts
  <2>2. resp' \in [Clients -> Responses]
    BY <1>6, <2>1, WriteType DEF ManifestLive
  <2>3. Locks'
    BY <1>6, HTTPAssumption DEF ManifestLive, Goto, Locks, Labels
  <2> QED
    BY <1>6, <2>2, <2>3 DEF ManifestLive, Fields
<1>7. CASE ManifestReady(c)
  <2>1. \E v \in Verdicts : \E S : Respond(c, v, S, hcs)
    BY <1>7 DEF ManifestReady
  <2>2. /\ resp' \in [Clients -> Responses] /\ req' \in [Clients -> Requests \cup {"none"}]
        /\ late' = late \ {c} /\ pc' = [pc EXCEPT ![c] = "idle"]
    BY <2>1, RespondType
  <2>3. Locks'
    BY <1>7, <2>2, HTTPAssumption DEF ManifestReady, RUnlock, Locks, Labels
  <2> QED
    BY <1>7, <2>2, <2>3 DEF ManifestReady, Fields
<1>8. CASE Timeout(c)
  BY <1>8, ResultsType DEF Timeout, Fields, Locks
<1>9. ASSUME NEW q \in Requests, Accept(c, q) PROVE Fields' /\ Locks'
  <2>1. [NoResponse EXCEPT !.since = data] \in Responses
    BY ResultsType DEF Responses
  <2> QED
    BY <1>9, <2>1, HandlerMoves DEF Accept, Fields, Locks
<1> QED
  BY <1>1, <1>2, <1>3, <1>4, <1>5, <1>6, <1>7, <1>8, <1>9 DEF Handler

\* Every step of the reporter keeps TypeOK.
LEMMA TypeStep == TypeOK /\ [Next]_vars => TypeOK'
<1>0. TypeOK' <=> Fields' /\ Locks'
  BY TypeParts, PTL
<1> SUFFICES ASSUME TypeOK, Fields, Locks, [Next]_vars PROVE Fields' /\ Locks'
  BY <1>0, TypeParts
<1>1. CASE UNCHANGED vars
  <2>1. Fields'
    BY <1>1 DEF vars, Fields
  <2>2. Locks'
    BY <1>1 DEF vars, Locks, At
  <2> QED
    BY <2>1, <2>2
<1>2. ASSUME NEW p \in Providers, Provider(p) PROVE Fields' /\ Locks'
  BY <1>2, ProviderType
<1>3. ASSUME NEW u \in Updaters, Updater(u) PROVE Fields' /\ Locks'
  BY <1>3, UpdaterType
<1>4. ASSUME NEW c \in Clients, Handler(c) \/ Timeout(c) \/ \E q \in Requests : Accept(c, q)
      PROVE  Fields' /\ Locks'
  BY <1>4, ClientType
<1> QED
  BY <1>1, <1>2, <1>3, <1>4 DEF Next

\* The fields of the reporter have their types, and hcMx and the semaphore of the
\* cache are held at the labels where the code holds them and nowhere else,
\* whatever panics and timeouts there are.
THEOREM TypeCorrect == Spec => []TypeOK
<1>1. Init => TypeOK
  <2> SUFFICES ASSUME Init PROVE Fields /\ Locks
    BY TypeParts
  <2>1. running \in BOOLEAN /\ probe \in [Probes -> BOOLEAN]
    BY DEF Init
  <2>2. Fields
    BY <2>1, HTTPAssumption, ResultsType DEF Init, Fields
  <2>3. Locks
    BY HTTPAssumption DEF Init, Locks, Labels, At
  <2> QED
    BY <2>2, <2>3
<1> QED
  BY <1>1, TypeStep, PTL DEF Spec

-----------------------------------------------------------------------------
\* What an updater is about to write is what the map holds: the read lock that it
\* keeps shuts out every merge.  The payload is never newer than the map, a request
\* under way saw no newer payload than the present one, and a response that a
\* timeout made stays as it was.
PayloadInv ==
  /\ \A u \in Updaters : At(u, "write") => snap[u] = hcs
  /\ CacheCoherent
  /\ NotOlder(hcs, data)
  /\ \A c \in Clients : ~At(c, "idle") /\ c \notin late => NotOlder(data, resp[c].since)
  /\ \A c \in Clients : c \in late => NotOlder(resp[c].body, resp[c].since)
  /\ BodyNotOlder

\* NotOlder is an order, and goes over to parts of the maps.
LEMMA NotOlderFacts ==
  /\ \A m \in Results : NotOlder(m, m)
  /\ \A m, n, o \in Results : NotOlder(m, n) /\ NotOlder(n, o) => NotOlder(m, o)
  /\ \A S : \A m, n \in Results : NotOlder(m, n) => NotOlder(Only(S, m), Only(S, n))
<1>1. NoCheck.version = 0
  BY DEF NoCheck
<1>2. \A m \in Results, k \in Checks : m[k].version \in Nat
  BY DEF Results
<1> QED
  BY <1>1, <1>2 DEF NotOlder, Only

\* A handler whose request has not timed out answers with a map at least as new as
\* what its client may have seen before; otherwise the response stays as it was.
LEMMA RespondNotOlder ==
  ASSUME TypeOK, PayloadInv, NEW c \in Clients, ~At(c, "idle"), NEW v, NEW S,
         NEW m \in {hcs, data, NoChecks}, m \in {hcs, data} \/ S = {}, Respond(c, v, S, m)
  PROVE  /\ NotOlder(resp'[c].body, resp'[c].since)
         /\ \A d \in Clients \ {c} : resp'[d] = resp[d] /\ pc'[d] = pc[d]
         /\ At(c, "idle")' /\ late' = late \ {c} /\ \A u \in Updaters : pc'[u] = pc[u]
<1>0. /\ hcs \in Results /\ data \in Results /\ NoChecks \in Results
      /\ resp[c].since \in Results
      /\ pc \in [Updaters \cup Clients -> Labels] /\ resp \in [Clients -> Responses]
      /\ c \notin Updaters
  BY HTTPAssumption, ResultsType DEF TypeOK, Labels, Responses, Verdicts
<1>1. CASE c \in late
  BY <1>0, <1>1 DEF Respond, Write, PayloadInv, Goto, At
<1>2. CASE c \notin late
  <2>1. NotOlder(data, resp[c].since) /\ NotOlder(hcs, resp[c].since)
    BY <1>0, <1>2, NotOlderFacts DEF PayloadInv
  <2>2. NotOlder(Only(S, m), Only(S, resp[c].since))
    <3>1. CASE m \in {hcs, data}
      BY <1>0, <2>1, <3>1, NotOlderFacts
    <3>2. CASE S = {}
      <4>1. Only(S, m) = NoChecks /\ Only(S, resp[c].since) = NoChecks
        BY <3>2 DEF Only, NoChecks
      <4> QED
        BY <1>0, <4>1, NotOlderFacts
    <3> QED
      BY <3>1, <3>2
  <2>3. resp' = [resp EXCEPT ![c] = [verdict |-> v, body |-> Only(S, m),
                                     since |-> Only(S, resp[c].since)]]
    BY <1>2 DEF Respond, Write
  <2> QED
    BY <1>0, <2>2, <2>3 DEF Respond, Goto, At
<1> QED
  BY <1>1, <1>2

\* A response made in this step keeps PayloadInv, if nothing but clients changed.
LEMMA RespondKeeps ==
  ASSUME TypeOK, PayloadInv, NEW c \in Clients, ~At(c, "idle"), NEW v, NEW S,
         NEW m \in {hcs, data, NoChecks}, m \in {hcs, data} \/ S = {}, Respond(c, v, S, m),
         UNCHANGED <<hcs, data, snap>>
  PROVE  PayloadInv'
<1>1. /\ NotOlder(resp'[c].body, resp'[c].since)
      /\ \A d \in Clients \ {c} : resp'[d] = resp[d] /\ pc'[d] = pc[d]
      /\ pc'[c] = "idle" /\ late' = late \ {c} /\ \A u \in Updaters : pc'[u] = pc[u]
  BY RespondNotOlder DEF At
<1> QED
  BY <1>1 DEF PayloadInv, At, NotOlder, CacheCoherent, BodyNotOlder, Panics

\* Steps that move no result between map, payload and responses keep PayloadInv.
LEMMA OthersKeep ==
  ASSUME PayloadInv, UNCHANGED <<hcs, data, snap, resp, late>>,
         \A u \in Updaters : (pc'[u] \in {"encode", "write"}) = (pc[u] \in {"encode", "write"})
                             /\ (pc'[u] = "write") = (pc[u] = "write"),
         \A c \in Clients : (pc'[c] = "idle") = (pc[c] = "idle")
  PROVE  PayloadInv'
BY DEF PayloadInv, At, NotOlder, CacheCoherent, BodyNotOlder, Panics

\* UpdateHealthChecks and the Set methods keep PayloadInv.
LEMMA UpdaterPayload ==
  ASSUME TypeOK, PayloadInv, NEW u \in Updaters, Updater(u)
  PROVE  PayloadInv'
<1>0. /\ hcs \in Results /\ data \in Results /\ snap \in [Updaters -> Results]
      /\ pc \in [Updaters \cup Clients -> Labels] /\ resp \in [Clients -> Responses]
      /\ u \notin Clients
  BY HTTPAssumption DEF TypeOK, Labels, Responses, Verdicts
<1> USE DEF At, Goto, store, lifecycle, feed, clients
<1>1. CASE Update(u)
  BY <1>0, <1>1, OthersKeep DEF Update
<1>2. ASSUME NEW k \in Checks, NEW bad \in BOOLEAN, Merge(u, k, bad) PROVE PayloadInv'
  <2>1. \A w \in Updaters : pc[w] # "write"
    BY <1>2 DEF Merge, TypeOK
  <2>2. \A w \in Updaters : pc'[w] # "write"
    BY <1>0, <1>2, <2>1 DEF Merge
  <2>3. ~(\A w \in Updaters : ~At(w, "encode") /\ ~At(w, "write"))'
    BY <1>0, <1>2 DEF Merge
  <2>4. NotOlder(hcs', data')
    BY <1>0, <1>2 DEF Merge, NotOlder, PayloadInv, Results
  <2> QED
    BY <1>0, <1>2, <2>2, <2>3, <2>4 DEF Merge, PayloadInv, NotOlder, CacheCoherent, BodyNotOlder
<1>3. CASE Encode(u)
  <2>1. ~(\A w \in Updaters : ~At(w, "encode") /\ ~At(w, "write"))'
    BY <1>0, <1>3 DEF Encode
  <2>2. (\A w \in Updaters : At(w, "write") => snap[w] = hcs)'
    BY <1>0, <1>3 DEF Encode, PayloadInv
  <2> QED
    BY <1>0, <1>3, <2>1, <2>2 DEF Encode, PayloadInv, NotOlder, CacheCoherent, BodyNotOlder
<1>4. CASE EncodePanics(u)
  <2>1. Panics(Checks)'
    BY <1>4 DEF EncodePanics, Panics
  <2> QED
    BY <1>0, <1>4, <2>1 DEF EncodePanics, PayloadInv, NotOlder, CacheCoherent, BodyNotOlder
<1>5. CASE WriteCache(u)
  <2>1. data' = hcs /\ hcs' = hcs /\ snap' = snap
    BY <1>5 DEF WriteCache, PayloadInv
  <2>2. \A c \in Clients : ~At(c, "idle") /\ c \notin late => NotOlder(hcs, resp[c].since)
    BY <1>0, NotOlderFacts DEF PayloadInv, Responses
  <2>3. NotOlder(hcs, hcs)
    BY <1>0, NotOlderFacts
  <2> QED
    BY <1>0, <1>5, <2>1, <2>2, <2>3 DEF WriteCache, PayloadInv, NotOlder, CacheCoherent, BodyNotOlder
<1>6. CASE EndUpdate(u)
  BY <1>0, <1>6 DEF EndUpdate, PayloadInv, NotOlder, CacheCoherent, BodyNotOlder, Panics
<1>7. ASSUME NEW p \in Toggled, NEW b \in BOOLEAN, SetProbe(u, p, b) PROVE PayloadInv'
  BY <1>7, OthersKeep DEF SetProbe
<1> QED
  BY <1>1, <1>2, <1>3, <1>4, <1>5, <1>6, <1>7 DEF Updater, MergeOne

\* Requests, handlers and timeouts keep PayloadInv.
LEMMA ClientPayload ==
  ASSUME TypeOK, PayloadInv, NEW c \in Clients,
         Handler(c) \/ Timeout(c) \/ \E q \in Requests : Accept(c, q)
  PROVE  PayloadInv'
<1>0. /\ hcs \in Results /\ data \in Results /\ NoChecks \in Results
      /\ pc \in [Updaters \cup Clients -> Labels] /\ resp \in [Clients -> Responses]
      /\ c \notin Updaters /\ late \subseteq {d \in Clients : ~At(d, "idle")}
  BY HTTPAssumption, ResultsType DEF TypeOK, Labels, Responses, Verdicts
<1>n. NotOlder(data, data) /\ NotOlder(NoChecks, NoChecks)
  BY <1>0, NotOlderFacts
<1> USE DEF At, store, lifecycle, feed, clients
<1>1. CASE Begin(c)
  <2>1. CASE running
    BY <1>0, <1>1, <2>1, OthersKeep DEF Begin, Goto
  <2>2. CASE ~running
    BY <1>1, <2>2, RespondKeeps DEF Begin
  <2> QED
    BY <2>1, <2>2
<1>2. CASE ProbeCode(c)
  <2>1. c \notin late => resp' = [resp EXCEPT ![c] =
             [verdict |-> Code(probe[req[c]]), body |-> NoChecks, since |-> data]]
    BY <1>2 DEF ProbeCode, Write
  <2>2. c \in late => resp' = resp
    BY <1>2 DEF ProbeCode, Write
  <2>3. c \notin late => resp'[c].since = data
    BY <1>0, <2>1
  <2> QED
    BY <1>0, <1>n, <1>2, <2>1, <2>2, <2>3
       DEF ProbeCode, Goto, PayloadInv, NotOlder, CacheCoherent, BodyNotOlder, Panics
<1>3. CASE ProbeBody(c)
  <2>1. Respond(c, resp[c].verdict, Checks, data)
    BY <1>3 DEF ProbeBody
  <2> QED
    BY <1>3, <2>1, RespondKeeps DEF ProbeBody
<1>4. CASE Individual(c)
  <2>1. PICK v, S : Respond(c, v, S, hcs)
    BY <1>4 DEF Individual
  <2>2. ~At(c, "idle") /\ UNCHANGED <<hcs, data, snap>>
    BY <1>4 DEF Individual
  <2> QED
    BY <2>1, <2>2, RespondKeeps
<1>5. ASSUME NEW X \in SUBSET Checks, Verbose(c, X) PROVE PayloadInv'
  <2>1. PICK v, S : Respond(c, v, S, hcs)
    BY <1>5 DEF Verbose
  <2>2. ~At(c, "idle") /\ UNCHANGED <<hcs, data, snap>>
    BY <1>5 DEF Verbose
  <2> QED
    BY <2>1, <2>2, RespondKeeps
<1>6. CASE ManifestLive(c)
  <2>1. \A d \in Clients : resp'[d].since = resp[d].since /\ resp'[d].body = resp[d].body
    BY <1>0, <1>6 DEF ManifestLive, Write, Responses
  <2> QED
    BY <1>0, <1>6, <2>1 DEF ManifestLive, Goto, PayloadInv, NotOlder, CacheCoherent, BodyNotOlder, Panics
<1>7. CASE ManifestReady(c)
  <2>1. PICK v, S : Respond(c, v, S, hcs)
    BY <1>7 DEF ManifestReady
  <2>2. ~At(c, "idle") /\ UNCHANGED <<hcs, data, snap>>
    BY <1>7 DEF ManifestReady
  <2> QED
    BY <2>1, <2>2, RespondKeeps
<1>8. CASE Timeout(c)
  <2>1. resp'[c].body = NoChecks /\ resp'[c].since = NoChecks
    BY <1>0, <1>8 DEF Timeout, TimedOut
  <2> QED
    BY <1>0, <1>n, <1>8, <2>1
       DEF Timeout, PayloadInv, NotOlder, CacheCoherent, BodyNotOlder, Panics
<1>9. ASSUME NEW q \in Requests, Accept(c, q) PROVE PayloadInv'
  <2>1. resp'[c].since = data /\ \A d \in Clients \ {c} : resp'[d] = resp[d]
    BY <1>0, <1>9 DEF Accept, NoResponse
  <2> QED
    BY <1>0, <1>n, <1>9, <2>1
       DEF Accept, Goto, PayloadInv, NotOlder, CacheCoherent, BodyNotOlder, Panics
<1> QED
  BY <1>1, <1>2, <1>3, <1>4, <1>5, <1>6, <1>7, <1>8, <1>9 DEF Handler

\* PayloadInv holds in every reachable state.
LEMMA PayloadInvariance == Spec => []PayloadInv
<1>1. Init => PayloadInv
  <2> SUFFICES ASSUME Init PROVE PayloadInv
    OBVIOUS
  <2>1. NotOlder(NoChecks, NoChecks)
    BY ResultsType, NotOlderFacts
  <2>2. \A c \in Clients : resp[c].body = NoChecks /\ resp[c].since = NoChecks
    BY DEF Init, NoResponse
  <2> QED
    BY <2>1, <2>2, HTTPAssumption DEF Init, PayloadInv, CacheCoherent, BodyNotOlder, NotOlder, At
<1>2. TypeOK /\ PayloadInv /\ [Next]_vars => PayloadInv'
  <2> SUFFICES ASSUME TypeOK, PayloadInv, [Next]_vars PROVE PayloadInv'
    OBVIOUS
  <2>1. CASE UNCHANGED vars
    BY <2>1, OthersKeep DEF vars
  <2>2. ASSUME NEW p \in Providers, Provider(p) PROVE PayloadInv'
    <3>1. UNCHANGED <<hcs, data, snap, resp, late, pc>>
      BY <2>2 DEF Provider, RunCAS, Listen, ListenFails, StopSwap, Shutdown, Drained,
                  DrainCancelled, store, feed, clients
    <3> QED
      BY <3>1, OthersKeep
  <2>3. ASSUME NEW u \in Updaters, Updater(u) PROVE PayloadInv'
    BY <2>3, UpdaterPayload
  <2>4. ASSUME NEW c \in Clients, Handler(c) \/ Timeout(c) \/ \E q \in Requests : Accept(c, q)
        PROVE  PayloadInv'
    BY <2>4, ClientPayload
  <2> QED
    BY <2>1, <2>2, <2>3, <2>4 DEF Next
<1> QED
  BY <1>1, <1>2, TypeCorrect, PTL DEF Spec

\* The cached payload of the reporter follows the results, however many goroutines
\* call UpdateHealthChecks.
THEOREM CacheIsCoherent == Spec => []CacheCoherent
<1>1. PayloadInv => CacheCoherent
  BY DEF PayloadInv
<1> QED
  BY <1>1, PayloadInvariance, PTL

\* No response has a body older than its status code, or than the payload that was
\* public when the request was accepted.
THEOREM BodiesNotOlder == Spec => []BodyNotOlder
<1>1. PayloadInv => BodyNotOlder
  BY DEF PayloadInv
<1> QED
  BY <1>1, PayloadInvariance, PTL
=============================================================================
