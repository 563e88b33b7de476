---------------------------- MODULE GRPCReporter ----------------------------
(***************************************************************************)
(* The gRPC reporter, reporter/grpc: three atomics, a map of results, and  *)
(* the health service that reads them from the goroutines of the server.   *)
(*                                                                         *)
(* The grpc.Server is external: it can be stopped once; Serve on a stopped *)
(* server closes its listener and returns; GracefulStop closes the         *)
(* listeners, takes no more calls and waits for those under way.           *)
(***************************************************************************)
EXTENDS ReporterCalls

CONSTANTS
  grpc,          \* the reporter
  Clients,       \* callers of the health service
  Requests       \* what they may ask: pairs of a method and a service

VARIABLES
  gRunning, gProbe, gHcs,   \* the fields running, live/ready/startup, hcs
  gStopped,                 \* the server was stopped
  gServe,                   \* the goroutine that serves
  gLn,                      \* the listener is open
  rpc                       \* the call of each client

fields == <<gRunning, gProbe, gHcs>>
server == <<gStopped, gServe, gLn>>
service == <<fields, server, rpc>>

Overall == "overall"        \* the empty service name
Services == Checks \cup {Overall}

ASSUME RequestsAssumption ==
  Requests \subseteq ({"Check", "Watch"} \X Services) \cup {<<"List", "none">>}

NoAnswer == [s \in Services |-> "none"]
Idle == [pc |-> "idle", method |-> "none", svc |-> "none", ans |-> NoAnswer]

\* NewReporter without Config.Server: the grpc.Server is the reporter's own, and no
\* calls but those of the health service reach it.
GRPCInit ==
  /\ gRunning = FALSE /\ gProbe = AllDown /\ gHcs = NoResults
  /\ gStopped = FALSE /\ gServe = "off" /\ gLn = FALSE
  /\ rpc = [c \in Clients |-> Idle]

-----------------------------------------------------------------------------
(* Run and Stop.                                                            *)

GRPCRun(t) ==
  /\ Starts(t, grpc, "Run")
  /\ gRunning' = TRUE
  /\ IF gRunning THEN Errs(t) ELSE Goto(t, grpc, "listen")
  /\ UNCHANGED <<gProbe, gHcs, server, rpc>>

GRPCListen(t) ==
  /\ In(t, grpc, "listen")
  /\ gLn' = TRUE /\ gServe' = "starting"
  /\ Returns(t, grpc)
  /\ UNCHANGED <<fields, gStopped, rpc>>

\* Mutation: running is not reset when the address cannot be bound.
ListenFailsStaysOn(t) ==
  /\ In(t, grpc, "listen")
  /\ Errs(t)
  /\ UNCHANGED service

\* The address cannot be bound.
GRPCListenFails(t) ==
  /\ In(t, grpc, "listen")
  /\ gRunning' = FALSE
  /\ Errs(t)
  /\ UNCHANGED <<gProbe, gHcs, server, rpc>>

\* The goroutine of Run calls Serve, perhaps after a Stop.
ServeStarts ==
  /\ gServe = "starting"
  /\ gServe' = IF gStopped THEN "ended" ELSE "serving"
  /\ gLn' = ~gStopped
  /\ UNCHANGED <<fields, gStopped, rpc>>

\* Serve returns an error, which is logged; connections it accepted live on.
ServeFails ==
  /\ gServe = "serving" /\ ~gStopped
  /\ gServe' = "ended" /\ gLn' = FALSE
  /\ UNCHANGED <<fields, gStopped, rpc>>

\* Mutation: Stop resets running and leaves the server alone.
StopFlagOnly(t) ==
  /\ Starts(t, grpc, "Stop")
  /\ gRunning' = FALSE
  /\ Returns(t, grpc)
  /\ UNCHANGED <<gProbe, gHcs, server, rpc>>

GRPCStop(t) ==
  /\ Starts(t, grpc, "Stop")
  /\ gRunning' = FALSE
  /\ IF gRunning THEN Goto(t, grpc, "graceful") ELSE Returns(t, grpc)
  /\ UNCHANGED <<gProbe, gHcs, server, rpc>>

\* GracefulStop begins: no listener, no new call.
GracefulStop(t) ==
  /\ In(t, grpc, "graceful")
  /\ gStopped' = TRUE
  /\ gServe' = IF gServe = "serving" THEN "ended" ELSE gServe
  /\ gLn' = (gLn /\ gServe = "starting")
  /\ Goto(t, grpc, "drain")
  /\ UNCHANGED <<fields, rpc>>

\* GracefulStop returns when every call under way has ended.
AllDrained == \A c \in Clients : rpc[c].pc = "idle"

Drained(t) ==
  /\ In(t, grpc, "drain")
  /\ AllDrained
  /\ Returns(t, grpc)
  /\ UNCHANGED service

-----------------------------------------------------------------------------
(* The calls of the manager, whether or not the reporter is running.        *)

\* SetLiveness, SetReadiness, SetStartup
GRPCSet(t) ==
  /\ Starts(t, grpc, "Set")
  /\ gProbe' = [gProbe EXCEPT ![call[t].key] = call[t].on]
  /\ Returns(t, grpc)
  /\ UNCHANGED <<gRunning, gHcs, server, rpc>>

GRPCUpdate(t) ==
  /\ Starts(t, grpc, "Update")
  /\ gHcs' = [gHcs EXCEPT ![call[t].key] = call[t].res]
  /\ Returns(t, grpc)
  /\ UNCHANGED <<gRunning, gProbe, server, rpc>>

-----------------------------------------------------------------------------
(* The health service: a goroutine of the server for each call.             *)

\* A client calls, over a connection that Serve accepted.
Ask(c, m, s) ==
  /\ rpc[c].pc = "idle"
  /\ ~gStopped /\ gServe \in {"serving", "ended"}
  /\ rpc' = [rpc EXCEPT ![c] = [Idle EXCEPT !.method = m, !.svc = s,
       !.pc = IF m = "List" THEN "list" ELSE IF s = Overall THEN "live" ELSE "lookup"]]
  /\ UNCHANGED <<fields, server>>

\* The handler returns the statuses in f.
Answer(c, f) ==
  rpc' = [rpc EXCEPT ![c].pc = "send", ![c].ans = f]

Only(s, status) == [NoAnswer EXCEPT ![s] = status]

Serving(b) == IF b THEN "SERVING" ELSE "NOT_SERVING"

\* Overall health: load live, and ready only if live is 1.
LoadLive(c) ==
  /\ rpc[c].pc = "live"
  /\ IF gProbe["live"]
     THEN rpc' = [rpc EXCEPT ![c].pc = "ready"]
     ELSE Answer(c, Only(Overall, "NOT_SERVING"))
  /\ UNCHANGED <<fields, server>>

\* Mutation: live is loaded, and ready is not looked at.
LiveIsEnough == TRUE

ReadyLoaded == gProbe["ready"]

LoadReady(c) ==
  /\ rpc[c].pc = "ready"
  /\ Answer(c, Only(Overall, Serving(ReadyLoaded)))
  /\ UNCHANGED <<fields, server>>

\* Mutation: a degraded service does not serve.
HealthyServes(k) ==
  IF gHcs[k] = NoResult THEN "SERVICE_UNKNOWN" ELSE Serving(gHcs[k].status = "healthy")

\* The status of a named service: degraded serves.
Named(k) ==
  IF gHcs[k] = NoResult THEN "SERVICE_UNKNOWN"
  ELSE Serving(gHcs[k].status # "unhealthy")

Lookup(c) ==
  /\ rpc[c].pc = "lookup"
  /\ Answer(c, Only(rpc[c].svc, Named(rpc[c].svc)))
  /\ UNCHANGED <<fields, server>>

\* List: all known services, under one read lock.
List(c) ==
  /\ rpc[c].pc = "list"
  /\ Answer(c, [s \in Services |->
                  IF s = Overall \/ gHcs[s] = NoResult THEN "none" ELSE Named(s)])
  /\ UNCHANGED <<fields, server>>

\* Mutation: Watch stays open and streams what changes.
WatchStreams(c) == rpc[c].method # "Watch"

\* Watch sends one response and returns, as the unary methods do.
OneResponse(c) == TRUE

Send(c) ==
  /\ rpc[c].pc = "send"
  /\ OneResponse(c)
  /\ rpc' = [rpc EXCEPT ![c] = Idle]
  /\ UNCHANGED <<fields, server>>

-----------------------------------------------------------------------------
GRPCStep(t) ==
  \/ GRPCRun(t) \/ GRPCListen(t) \/ GRPCListenFails(t)
  \/ GRPCStop(t) \/ GracefulStop(t) \/ Drained(t)
  \/ GRPCSet(t) \/ GRPCUpdate(t)

Handler(c) == LoadLive(c) \/ LoadReady(c) \/ Lookup(c) \/ List(c) \/ Send(c)

GRPCEnvironment ==
  \/ ServeFails
  \/ \E c \in Clients, q \in Requests : Ask(c, q[1], q[2])
=============================================================================
