---------------------------- MODULE HTTPReporter ----------------------------
(***************************************************************************)
(* The HTTP reporter, reporter/httpserver.  Providers (managers) call Run  *)
(* and Stop, their processors call UpdateHealthChecks and the Set methods, *)
(* and the net/http server runs a handler goroutine per request.  hcs is   *)
(* guarded by the RWMutex hcMx, the encoded payload by the semaphore of    *)
(* cache.go, and the three probes are atomics.                             *)
(*                                                                         *)
(* A check result is its version (the n-th result of that check) and       *)
(* whether it is unhealthy; the JSON payload is the map that was encoded.  *)
(***************************************************************************)
EXTENDS Naturals, FiniteSets

CONSTANTS
  Checks,        \* names of the health checks
  Poisoned,      \* checks whose error panics when it is formatted
  Providers,     \* goroutines that call Run and Stop
  Updaters,      \* goroutines that deliver results and probes
  Clients,       \* HTTP clients, each with one request at a time
  Toggled,       \* probes the updaters change
  MaxUpdates,    \* bound: UpdateHealthChecks calls
  MaxRuns        \* bound: Run calls that win the running flag

Nobody == "nobody"

ASSUME HTTPAssumption ==
  /\ Updaters \cap Clients = {} /\ Nobody \notin Updaters
  /\ Poisoned \subseteq Checks
  /\ Toggled \subseteq {"live", "ready", "startup"}
  /\ MaxUpdates \in Nat /\ MaxRuns \in Nat

VARIABLES
  running,       \* the reporter's running flag
  probe,         \* live, ready, startup
  hcs,           \* the results, NoCheck where there is none
  readers,       \* goroutines that hold hcMx for reading
  sema, data,    \* cache.go: the holder of the semaphore, the payload
  server,        \* the http.Server: "new", "serving" or "closed"
  pc, snap,      \* goroutines, and the map an updater has encoded
  req, resp,     \* a client's request, and the response as far as it is made
  late,          \* clients whose handler goes on after its request timed out
  life, runs,    \* the providers, and how often Run won the flag
  updates        \* UpdateHealthChecks calls so far

vars == <<running, probe, hcs, readers, sema, data, server, pc, snap, req,
          resp, late, life, runs, updates>>

Probes == {"live", "ready", "startup"}
NoCheck == [version |-> 0, bad |-> FALSE]
NoChecks == [k \in Checks |-> NoCheck]

\* The verdict is the status code of a response, or the status of a manifest.
\* since is history: the payload when the verdict was decided.
TimedOut == [verdict |-> "503", body |-> NoChecks, since |-> NoChecks]
NoResponse == [verdict |-> "none", body |-> NoChecks, since |-> NoChecks]

\* Probe requests, ?verbose, /.well-known/health and /livez/<name>.
Requests == Probes \cup {"verbose", "manifest"} \cup Checks

Init ==
  /\ running = FALSE
  /\ probe = [p \in Probes |-> FALSE]
  /\ hcs = NoChecks
  /\ readers = {} /\ sema = Nobody /\ data = NoChecks
  /\ server = "new"
  /\ pc = [t \in Updaters \cup Clients |-> "idle"]
  /\ snap = [u \in Updaters |-> NoChecks]
  /\ req = [c \in Clients |-> "none"] /\ resp = [c \in Clients |-> NoResponse]
  /\ late = {}
  /\ life = [p \in Providers |-> "idle"] /\ runs = 0
  /\ updates = 0

At(t, l) == pc[t] = l
Goto(t, l) == pc' = [pc EXCEPT ![t] = l]

store == <<hcs, readers, sema, data>>
clients == <<req, resp, late>>
feed == <<probe, snap, updates>>

-----------------------------------------------------------------------------
(* Run and Stop.  A Run that finds the flag set returns an error and changes*)
(* nothing.                                                                 *)

Live(p, from, to) == life[p] = from /\ life' = [life EXCEPT ![p] = to]

RunCAS(p) ==
  /\ Live(p, "idle", "listen")
  /\ ~running
  /\ runs < MaxRuns
  /\ running' = TRUE /\ runs' = runs + 1
  /\ UNCHANGED <<store, feed, clients, server, pc>>

ListenFails(p) ==
  /\ Live(p, "listen", "idle")
  /\ running' = FALSE
  /\ UNCHANGED <<store, feed, clients, server, runs, pc>>

\* Serve on a server that was shut down returns at once; Run returns nil.  The start
\* of the goroutine that calls Serve is part of this step: when it comes after a Stop
\* there is as little to serve as before it.
Listen(p) ==
  /\ Live(p, "listen", "up")
  /\ server' = IF server = "new" THEN "serving" ELSE server
  /\ UNCHANGED <<store, feed, clients, running, runs, pc>>

StopSwap(p) ==
  /\ Live(p, "up", "shutdown")
  /\ running' = FALSE
  /\ UNCHANGED <<store, feed, clients, server, runs, pc>>

\* Shutdown closes the listener ...
Shutdown(p) ==
  /\ Live(p, "shutdown", "drain")
  /\ server' = "closed"
  /\ UNCHANGED <<store, feed, clients, running, runs, pc>>

\* ... and waits until the requests under way are answered,
Drained(p) ==
  /\ Live(p, "drain", "idle")
  /\ \A c \in Clients : At(c, "idle") \/ c \in late
  /\ UNCHANGED <<store, feed, clients, running, runs, server, pc>>

\* or until the context given to Stop ends.
DrainCancelled(p) ==
  /\ Live(p, "drain", "idle")
  /\ UNCHANGED <<store, feed, clients, running, runs, server, pc>>

lifecycle == <<running, server, life, runs>>

-----------------------------------------------------------------------------
(* UpdateHealthChecks and the Set methods, in an updater goroutine.         *)

Update(u) ==
  /\ At(u, "idle") /\ running
  /\ updates < MaxUpdates
  /\ updates' = updates + 1
  /\ Goto(u, "merge")
  /\ UNCHANGED <<store, lifecycle, probe, snap, clients>>

\* Lock; merge a result of check k; Unlock.
Merge(u, k, bad) ==
  /\ At(u, "merge")
  /\ readers = {}
  /\ hcs' = [hcs EXCEPT ![k] = [version |-> hcs[k].version + 1, bad |-> bad]]
  /\ Goto(u, "encode")
  /\ UNCHANGED <<readers, sema, data, lifecycle, feed, clients>>

\* Formatting one of the results in S panics.
Panics(S) == \E k \in S \cap Poisoned : hcs[k].bad

\* Mutation: hcMx is released before the payload is written.
EncodeUnlocked(u) ==
  /\ At(u, "encode") /\ ~Panics(Checks)
  /\ snap' = [snap EXCEPT ![u] = hcs]
  /\ Goto(u, "write")
  /\ UNCHANGED <<store, lifecycle, probe, updates, clients>>

\* cacheHealthChecks: RLock, encode all results.
Encode(u) ==
  /\ At(u, "encode") /\ ~Panics(Checks)
  /\ readers' = readers \cup {u}
  /\ snap' = [snap EXCEPT ![u] = hcs]
  /\ Goto(u, "write")
  /\ UNCHANGED <<hcs, sema, data, lifecycle, probe, updates, clients>>

\* The panic is recovered, the lock released and the payload left as it was.
EncodePanics(u) ==
  /\ At(u, "encode") /\ Panics(Checks)
  /\ Goto(u, "idle")
  /\ UNCHANGED <<store, lifecycle, feed, clients>>

\* cache.write, still under hcMx.
WriteCache(u) ==
  /\ At(u, "write")
  /\ sema = Nobody
  /\ sema' = u
  /\ data' = snap[u]
  /\ Goto(u, "unlock")
  /\ UNCHANGED <<hcs, readers, lifecycle, feed, clients>>

\* Mutation: the semaphore of the cache is not released.
EndUpdateKeepingSema(u) ==
  /\ At(u, "unlock")
  /\ readers' = readers \ {u}
  /\ snap' = [snap EXCEPT ![u] = NoChecks]
  /\ Goto(u, "idle")
  /\ UNCHANGED <<hcs, sema, data, lifecycle, probe, updates, clients>>

\* The deferred calls: unlock of the cache, RUnlock of hcMx.
EndUpdate(u) ==
  /\ At(u, "unlock")
  /\ sema' = Nobody
  /\ readers' = readers \ {u}
  /\ snap' = [snap EXCEPT ![u] = NoChecks]
  /\ Goto(u, "idle")
  /\ UNCHANGED <<hcs, data, lifecycle, probe, updates, clients>>

\* SetLiveness, SetReadiness, SetStartup.
SetProbe(u, p, b) ==
  /\ At(u, "idle")
  /\ probe[p] # b
  /\ probe' = [probe EXCEPT ![p] = b]
  /\ UNCHANGED <<store, lifecycle, snap, updates, clients, pc>>

-----------------------------------------------------------------------------
(* Handlers.  A request is accepted while the server serves.                *)

Accept(c, q) ==
  /\ At(c, "idle")
  /\ server = "serving"
  /\ req' = [req EXCEPT ![c] = q]
  /\ resp' = [resp EXCEPT ![c] = [NoResponse EXCEPT !.since = data]]
  /\ Goto(c, "begin")
  /\ UNCHANGED <<store, lifecycle, feed, late>>

Code(ok) == IF ok THEN "200" ELSE "503"

Only(S, m) == [k \in Checks |-> IF k \in S THEN m[k] ELSE NoCheck]

\* http.TimeoutHandler answers for a handler that takes too long; the handler goes
\* on, and what it writes then is thrown away.
Timeout(c) ==
  /\ ~At(c, "idle") /\ c \notin late
  /\ late' = late \cup {c}
  /\ resp' = [resp EXCEPT ![c] = TimedOut]
  /\ UNCHANGED <<store, lifecycle, feed, req, pc>>

Write(c, r) == resp' = IF c \in late THEN resp ELSE [resp EXCEPT ![c] = r]

\* A response that lists the results of the checks in S ends the handler.
Respond(c, verdict, S, m) ==
  /\ Write(c, [verdict |-> verdict, body |-> Only(S, m), since |-> Only(S, resp[c].since)])
  /\ req' = [req EXCEPT ![c] = "none"]
  /\ late' = late \ {c}
  /\ Goto(c, "idle")

\* The running flag of every handler, and reportNotRunning.
Begin(c) ==
  /\ At(c, "begin")
  /\ IF running
     THEN Goto(c, "handle") /\ UNCHANGED clients
     ELSE Respond(c, "503", {}, NoChecks)
  /\ UNCHANGED <<store, lifecycle, feed>>

\* reportLiveness, reportReadiness, reportStartup: first the status code ...
ProbeCode(c) ==
  /\ At(c, "handle") /\ req[c] \in Probes
  /\ Write(c, [verdict |-> Code(probe[req[c]]), body |-> NoChecks, since |-> data])
  /\ Goto(c, "body")
  /\ UNCHANGED <<store, lifecycle, feed, req, late>>

\* ... then the payload, under the semaphore of the cache.
ProbeBody(c) ==
  /\ At(c, "body")
  /\ sema = Nobody
  /\ Respond(c, resp[c].verdict, Checks, data)
  /\ UNCHANGED <<store, lifecycle, feed>>

\* reportVerbose, under RLock: 200 when no result outside ?exclude=X is unhealthy.
\* Recover answers 503 for a handler that panics.
Verbose(c, X) ==
  /\ At(c, "handle") /\ req[c] = "verbose"
  /\ LET S == Checks \ X
     IN IF Panics(S) THEN Respond(c, "503", {}, hcs)
        ELSE Respond(c, Code(\A k \in S : ~hcs[k].bad), S, hcs)
  /\ UNCHANGED <<store, lifecycle, feed>>

\* reportIndividualCheck: 404 for a check that has not reported.
Individual(c) ==
  /\ At(c, "handle") /\ req[c] \in Checks
  /\ LET k == req[c]
     IN IF hcs[k].version = 0 THEN Respond(c, "404", {k}, hcs)
        ELSE Respond(c, Code(~hcs[k].bad), IF Panics({k}) THEN {} ELSE {k}, hcs)
  /\ UNCHANGED <<store, lifecycle, feed>>

\* reportManifest: RLock, load live ...
ManifestLive(c) ==
  /\ At(c, "handle") /\ req[c] = "manifest"
  /\ readers' = readers \cup {c}
  /\ Write(c, [resp[c] EXCEPT !.verdict = IF probe["live"] THEN "pass" ELSE "fail"])
  /\ Goto(c, "ready")
  /\ UNCHANGED <<hcs, sema, data, lifecycle, feed, req, late>>

\* Mutation: RUnlock is not deferred, a panic skips it.
UnlockUnlessPanic(c) == readers' = IF Panics(Checks) THEN readers ELSE readers \ {c}

RUnlock(c) == readers' = readers \ {c}

\* ... and, if live, ready; list all results; RUnlock, which is deferred.
ManifestReady(c) ==
  /\ At(c, "ready")
  /\ LET v == resp[c].verdict
     IN IF Panics(Checks) THEN Respond(c, "503", {}, hcs)
        ELSE Respond(c, IF v = "pass" /\ ~probe["ready"] THEN "warn" ELSE v, Checks, hcs)
  /\ RUnlock(c)
  /\ UNCHANGED <<hcs, sema, data, lifecycle, feed>>

-----------------------------------------------------------------------------

Provider(p) ==
  \/ RunCAS(p) \/ Listen(p) \/ ListenFails(p) \/ StopSwap(p)
  \/ Shutdown(p) \/ Drained(p) \/ DrainCancelled(p)

MergeOne(u) == \E k \in Checks, bad \in BOOLEAN : Merge(u, k, bad)

Updater(u) ==
  \/ Update(u) \/ MergeOne(u) \/ Encode(u) \/ EncodePanics(u) \/ WriteCache(u) \/ EndUpdate(u)
  \/ \E p \in Toggled, b \in BOOLEAN : SetProbe(u, p, b)

Handler(c) ==
  \/ Begin(c) \/ ProbeCode(c) \/ ProbeBody(c) \/ Individual(c)
  \/ (\E X \in SUBSET Checks : Verbose(c, X)) \/ ManifestLive(c) \/ ManifestReady(c)

Next ==
  \/ \E p \in Providers : Provider(p)
  \/ \E u \in Updaters : Updater(u)
  \/ \E c \in Clients : Handler(c) \/ Timeout(c) \/ \E q \in Requests : Accept(c, q)

Spec == Init /\ [][Next]_vars

(***************************************************************************)
(* Goroutines that can step do; a goroutine that waits for hcMx or for the *)
(* semaphore is not overtaken for ever (sync.RWMutex blocks new readers    *)
(* while a writer waits, and a channel serves its senders in order).       *)
(* Nobody is obliged to call the reporter or to send requests, and Stop    *)
(* may be given a context that never ends.                                 *)
(***************************************************************************)
Fairness ==
  /\ \A p \in Providers : WF_vars(Shutdown(p)) /\ WF_vars(Drained(p))
  /\ \A u \in Updaters : /\ SF_vars(MergeOne(u)) /\ SF_vars(WriteCache(u))
                         /\ WF_vars(Encode(u) \/ EncodePanics(u) \/ EndUpdate(u))
  /\ \A c \in Clients : WF_vars(Handler(c)) /\ SF_vars(ProbeBody(c))

FairSpec == Spec /\ Fairness

-----------------------------------------------------------------------------
(* Properties.                                                              *)

Results == [Checks -> [version : Nat, bad : BOOLEAN]]

\* m is at least as new as n, for every check.
NotOlder(m, n) == \A k \in Checks : m[k].version >= n[k].version

\* The values of the reporter's fields and of its goroutines; hcMx and the
\* semaphore are held where the code holds them and nowhere else, panics or not.
TypeOK ==
  /\ running \in BOOLEAN /\ probe \in [Probes -> BOOLEAN]
  /\ hcs \in Results /\ data \in Results /\ snap \in [Updaters -> Results]
  /\ readers = {t \in Updaters \cup Clients : pc[t] \in {"write", "unlock", "ready"}}
  /\ sema \in Updaters \cup {Nobody}
  /\ \A u \in Updaters : sema = u <=> At(u, "unlock")
  /\ server \in {"new", "serving", "closed"}
  /\ pc \in [Updaters \cup Clients -> {"idle", "merge", "encode", "write", "unlock",
                                       "begin", "handle", "body", "ready"}]
  /\ req \in [Clients -> Requests \cup {"none"}]
  /\ resp \in [Clients -> [verdict : {"none", "200", "503", "404", "pass", "warn", "fail"},
                           body : Results, since : Results]]
  /\ late \subseteq {c \in Clients : ~At(c, "idle")}
  /\ life \in [Providers -> {"idle", "listen", "up", "shutdown", "drain"}]
  /\ runs \in 0 .. MaxRuns /\ updates \in 0 .. MaxUpdates

\* The cached payload follows the results: unless some UpdateHealthChecks call is
\* still under way, or an error cannot be formatted, the two are equal.
CacheCoherent ==
  (\A u \in Updaters : ~At(u, "encode") /\ ~At(u, "write")) /\ ~Panics(Checks) => data = hcs

\* The body of an answered request is not older than the payload that was
\* published when its status was decided (for a probe) or when it was accepted.
BodyNotOlder ==
  \A c \in Clients : At(c, "idle") => NotOlder(resp[c].body, resp[c].since)

\* Every accepted request is answered, and UpdateHealthChecks returns: the manager's
\* processor is never stuck in it.
Responds == \A t \in Updaters \cup Clients : ~At(t, "idle") ~> At(t, "idle")

\* Stop returns.
StopReturns == \A p \in Providers : life[p] = "shutdown" ~> life[p] = "idle"
=============================================================================
