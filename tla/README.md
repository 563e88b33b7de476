# Verification of the health library

TLA+ models of `github.com/schigh/health`, a Go library that runs health checks,
aggregates their results into liveness, readiness and startup, and shows these to
reporters (HTTP, gRPC, Prometheus, OpenTelemetry, stdout). TLC checks the models
on small instances; TLAPS proves every safety property that these runs check for
all instances (some of the manager's for one Run; see Proofs). Paths are relative to the repository, which is under `src/`.

## The system

| Part | Where | State it keeps | Operations |
|---|---|---|---|
| Manager | `manager/std/manager.go` | maps of checkers, reporters and results; the flags running, live, ready, startup; the latches allChecksRan, initialReady, startupDone; the result funnel; the error channel | AddCheck, AddReporter, Run, Stop; processor loop; checker loops |
| Synchronized map | `internal/syncmap` | a map and an RWMutex | Get, Set, Size, Each (read lock held across callbacks) |
| Options, results | `checker.go`, `check.go`, `health.go` | none | functional options; the Manager, Reporter and Checker interfaces |
| Caching checker | `cached.go` | the cached result, its expiry, an RWMutex | Check |
| HTTP reporter | `reporter/httpserver` | running, three probe atomics, the results map, the encoded payload behind a semaphore, an http.Server | Run, Stop, SetLiveness, SetReadiness, SetStartup, UpdateHealthChecks, five kinds of request |
| Discovery | `discovery/discover.go` | the graph, a work queue | FetchManifest, DiscoverGraph |
| gRPC reporter | `reporter/grpc` | running, three probe atomics, the results map, a grpc.Server | the Reporter interface; Check, List and Watch of the health service |
| Metrics reporters | `reporter/{prometheus,otel}` | running, three probe atomics and their gauges, the results map, a status gauge and a counter per check | the Reporter interface |
| stdout, test reporters | `reporter/{stdout,test}` | probes and results; counters of the calls | the Reporter interface |
| Checkers | `checker/{command,db,dns,http,redis,tcp}` | a timeout, a password | Check: one to three blocking operations |
| Rendering, config, logging | `discovery/render.go`, `reporter/httpserver/{config,middleware}.go`, `logger.go` | none | formatting, option setters |

How they interact. The application adds checks and reporters and calls `Run`. Run
starts every reporter, one goroutine per check and one processor. A checker
goroutine calls `Check` (once, or at each tick), and sends the result on the
funnel, a channel with one slot per checker. The processor takes a result, relays
it to each reporter (`UpdateHealthChecks`), stores what it means for the probes,
and evaluates: startup first, then liveness and readiness; a probe that changed is
told to each reporter. `Stop` may be called by the application, and is called by
the processor when the context given to Run ends. HTTP clients read from the
reporter at any time; `DiscoverGraph` in another process reads the manifests.

What is hard here: the goroutine that calls Run still writes liveness and startup
when the processor already evaluates; two Stops race; Stop races an evaluation;
senders on a bounded channel outlive their receiver; latches outlive a Run; the
refresh of a cache under load; payload and status of a response read separately;
two goroutines announce probes to reporters at the same time; a client reads two
atomics while they change; Stop waits for clients; timeouts and cancellations cut
a conversation at any point;
a depth limit in a graph with cycles and shortcuts. `PROJECT.json` lists these
hazards at their lines.

What makes the parts correct:
- manager: readiness is shown only after every check reported and startup
  completed; the probes follow the results; startup is shown before readiness;
  reporters are stopped by one goroutine only; senders are served and Run returns;
  readiness comes by itself;
- caching checker: one refresh at a time and per expiry, results never go back in
  time, a panic leaves no lock behind;
- HTTP reporter: the payload equals the results once updates are over, never goes
  back, and is not older than the status sent with it; nobody blocks for ever;
- other reporters: they show the manager's probes and results, count each result
  and each change once; a client is told SERVING with cause only; a failed Run can
  be repeated, and Stop returns with the address free;
- checkers: healthy means that this call got the expected answer; nothing is left
  open; a call ends within its timeout, and at once when cancelled;
- discovery: exactly the urls within the depth limit, and a service asked once for each
  spelling of its url.

## Modules

| Module | What it is |
|---|---|
| `Manager` | the manager with its four kinds of goroutine, and its properties |
| `ProbePromise` | abstract specification: two gates, and what reporters may be told before they open |
| `ManagerProofs` | theorems about `Manager` for any number of Runs |
| `ManagerRunProofs` | theorems about one Run of `Manager` |
| `CachedChecker` | `CachedChecker.Check` |
| `HTTPReporter` | the HTTP reporter with providers, updaters and clients |
| `ProbeCheckers` | the six checkers: a call as a sequence of blocking operations, with time |
| `ReporterCalls` | how the manager's goroutines call reporters: the steps of a fan-out |
| `GRPCReporter`, `MetricsReporter`, `StdoutReporter`, `TestReporter` | what the calls do in each reporter, and the gRPC health service |
| `Fanout` | composition: application and processor of a manager, those reporters, and clients |
| `Discovery` | the loop of `DiscoverGraph`, against a reference definition of distance |
| `CachedCheckerProofs`, `HTTPReporterProofs`, `ProbeCheckersProofs`, `FanoutProofs`, `DiscoveryProofs` | theorems about the module of that name |
| `MC*` | instances for TLC |

Operators marked `Mutation:` are wrong variants of the definition that follows
them. They are not used by the specifications; each property was seen to fail
when its definition is replaced by the variant that `PROJECT.json` names.

### Manager

State. `checkers` and `reporters` are the keys of the two maps; what a check's
options say is constant per name (`AffectsLiveness`, `CheckAtInterval`, ...).
`checkResults` is three sets: the keys (`reported`) and the keys whose result has
each of the two bits. `flag` holds livePtr, readyPtr and startupPtr; the latches
have the names of the code. `funnel` and `cap` are the channel; `cap` is `NilChan`
until the first Run makes it. A Run has a number; its context (`ctxDone`), its
processor (`pc[g]`) and its checkers (`chk[<<c, g>>]`) carry it. `told`, `seen` and
`up` are what each reporter was given: the probes, the last relayed result of each
check, and whether it was run and not stopped. `MaxRuns` bounds the Runs.

Steps. An action is what a goroutine does between two accesses that another can
observe. `reporters.Each` is a loop whose iterations interleave with everything
else (`each[t]`), since the callbacks take time; it holds the read lock, so
`AddReporter` waits for it. `setLive`, `setReady` and `setStartup` are one swap
(`Swap`) and, if the value changed, such a loop (`Tell`). A Run goes through
`RunCAS`, `InitInternals`, `Validate`, `RunReporter`, `Dispatch`,
`InitStartupState`, `RunLive`, or on an error `SendErr` and `Reset`. A processor
goes through `Receive` (or `Handoff` from a funnel without slots), `Relay`,
`Store`, `Fitness`, `Aggregate`, `InitialReady`, `Liveness`, `Readiness`. A check
may end healthy, degraded, unhealthy, nil or in a panic (`Outcomes`).

Atomic in the model although several statements in the code: the size comparison
and the store of `allChecksRan` (only a concurrent AddCheck could come between,
and it would have to have passed its own running check before Run), the loops over
`checkers` and `checkResults` (their callbacks do nothing another goroutine
sees), the two gate loads of `setReady` followed by the swap (gates never close),
and the load in `applyLivenessChange` with the swap after it (with the same
outcome as one of the two orders).

### CachedChecker

The n-th call of the inner checker returns the number n (or nil, or panics); time
is the action `Expire`. The read-locked part is one step that needs the write lock
to be free. `newest`, `floor` and `lapses` are history variables.

### HTTPReporter

A result is a version number and whether it is unhealthy; the payload is the map
that was encoded. `Merge` is the write-locked section, `Encode`, `WriteCache` and
`EndUpdate` are `cacheHealthChecks` with the read lock and the semaphore. Handlers
are `Begin` (the running flag) and then one or two steps; `reportManifest` loads
live and ready in two steps under the read lock. `Poisoned` checks have errors
whose formatting panics, which `cacheHealthChecks` and `Recover` handle. `Timeout`
is the TimeoutHandler: the client has its 503, Stop does not wait any more, and the
handler goes on (`late`) without anybody to answer to. The start of the goroutine that
calls Serve is part of `Listen`; one that starts after a Stop serves nothing.

### ProbeCheckers

`Init` chooses a checker (`kind`, `timeout`, `password`); the manager then calls it
again and again, one call at a time, as its checker goroutine does. `CommandCheck`,
`RedisCheck` and so on are the operations of a call in their order. An operation
may succeed, fail, or wait: `Tick` lets time pass, but not past a deadline (`left`)
nor past the end of a context the operation was given. `age`, `late` and `answered`
are history. A `net.Dialer` takes a timeout of 0 for none and `context.WithTimeout`
takes it for now, which `FirstTimer` says. What an application supplies to a check
(the `CtxPinger` of db, the http client, a resolver) is assumed to obey its context;
the function of a command is not (`UsesContext`). A failed call is unhealthy, never
degraded (`ErrorStatus`).

### Reporters

`Fan` begins a fan-out; `todo` are the reporters still to be called, in any order,
and `at` is where in a method the caller is. A method that touches state another
goroutine can see in several steps is several actions: the atomic and the gauge of
a metrics reporter, the running flag and the listener of gRPC. The grpc.Server is
external and modelled from how the reporter uses it: `ServeStarts` may come after a
Stop, and then closes its listener; `GracefulStop` takes no more calls and `Drained`
waits for those under way; `Ask` is a call over a connection that Serve accepted.
The server is the reporter's own. One that the application shares with it
(`Config.Server`, `grpc/reporter.go:50`) has calls of other services as well, which
`GracefulStop` (`:83`) also waits for; `StopCompletes` says nothing of those.

### Fanout

The manager of `Fanout` is that of `Manager` without what reporters cannot see: the
checks are registered, none has startup impact, results arrive in any order, and
the error of a Run is received. Run, Stop, cancellation, and the evaluation have the
same steps. `Setups` are the sets of reporters an application may have added: gRPC
with a client; metrics and stdout; the test reporter. What a reporter shows is
compared with the manager's flags and results, so two reporters that agree with
them agree with each other. `raced` holds the probes whose last announcements by the
two goroutines overlapped: then two reporters may be left with different values, as
TLC shows when the exception is removed from `ReportersAgree` (Run's liveness
against the processor's; on a Stop, readiness). `justified` holds the clients that
could have been told SERVING at some moment of their call. Without its second
alternative, the manager's verdict, `ServingJustified` fails: the first evaluation
turns readiness on before liveness, so a client that loaded live earlier can be told
SERVING while the reporter shows ready and not live.

### Discovery

`Init` chooses what every service would answer; each fetch may fail. An iteration
of the loop is one step. `Within[n]` is the reference: the urls at distance at most
n through nodes that were fetched. `Found` is the loop over the dependencies of a
node, as a function of the number of turns. That what a service lists is a finite
sequence is an assumption (`DiscoveryAssumption`), since `DependsOn` is any set. The graph is
kept by url as it is listed, and `FetchManifest` trims trailing slashes before it asks
(`discover.go:58`): `TrimRight` maps a url to the service it asks. Answers (`deps`,
through `Lists`) and requests (`fetches`) are by service, everything else by url.

## Runs

Passing:

| Run | Instance | Shows |
|---|---|---|
| `manager_probes` | two checks (liveness at an interval; readiness and startup, once) that end healthy, degraded or in a panic, one reporter, one Run, 1.3 M states | types; the gates hold for what the reporter sees, and `ProbePromise` is refined; probes agree with results whenever nothing is under way; liveness is given up, and readiness shown, only with cause; startup comes first |
| `manager_lifecycle` | fairness; two application goroutines, two checks that may return nil, a reporter that may fail to start, one Run, 150 k states | one Stop at a time; the latch is sound under concurrent AddCheck and Run; after a cancellation the processor ends, and the reporters of a manager that was running are stopped; readiness comes unless a check fails or never reports |
| `manager_fair` | fairness; two Runs, one application goroutine, a delayed check, a reporter that may fail to start, 48 k states | senders are served, also through a funnel without slots and beside the checker and the processor of a stopped Run; Run returns unless an error that nobody received is in its way |
| `cached` | fairness; two callers, four refreshes, nil results and panics, 15 k states | one refresh at a time and per lapse, no older result, every call returns |
| `http` | fairness; two checks (one with errors that panic), two updaters, two updates, one client whose requests may time out, one Run, 107 k states | payload coherent, body not older than status, locks held where they should be; requests are answered, updates and Stop return |
| `discovery` | 10 000 graphs of four services, one of them with two spellings of its url, depth limit 2, 123 k states | distance semantics of the limit, one fetch for each spelling, termination |
| `checkers` | fairness; six checkers, timeouts 0, 1 and 3, with and without password, 2 k states | a healthy result is earned in its call, nothing is left open, calls stay within their timeout (redis: twice), a cancellation is obeyed at once (redis: by its deadline), calls end |
| `reporters` | fairness; three setups of reporters, one check with liveness impact and two results in every status, two Runs, one client that asks for the overall status, watches a service and lists, 433 k states | reporters show what the manager means; metrics and toggles count each event once; SERVING is justified and agrees with the named services; a Run that failed to listen can be repeated; Stop returns and frees the address |

Violations, each a statement of the documentation or of a comment that the code
does not keep (quoted under `findings`):

| Run | What happens |
|---|---|
| `manager_startup_only` | a failing check with only startup impact does not hold back startup |
| `manager_liveness` | Run overwrites the processor's liveness false with true |
| `manager_stop_ready` | readiness turned on after Stop turned it off |
| `manager_cancel_checks` | a checker blocked on the funnel for ever after a cancellation |

Further behaviour of the code that the model shows and no run asks about: an
interval of zero makes `time.NewTicker` panic and ends the process
(`manager.go:381`; `crashed`), although `checker.go:53` promises the default
interval; callers of a caching checker wait on its lock during a refresh
(`cached.go:37`; `FastPath` needs the lock), although `cached.go:8` promises the stale
value; the second of two Stops returns nil while the first one is still stopping reporters
(`manager.go:176`); a Stop by another goroutine while Run is still starting reporters
takes the running flag, so that the processor's own Stop does nothing and a reporter
that Run started afterwards stays up after a cancellation, although
`docs/index.html:119` promises a graceful shutdown (TLC finds it when
`ShutdownCompletes` does not ask for a running manager); a Run that fails blocks at
`manager.go:98` while the error of an earlier one waits in the channel, although the
buffer is there to push an error straight away (comment at `manager.go:135`; TLC
finds it when `RunReturns` makes no exception); urls that differ by trailing slashes
are different nodes for one service, which is asked for each (`discover.go:58`, `:119`); a reporter that is added by a call that loaded running before
Run, or after Stop while the processor still evaluates, may be told ready although
it was relayed no result (`AddReporter`; it takes two reporters, and
`RegistersFirst` excludes it from the theorems it would break); Stop without a cancelled context leaves checks and processor
running (`manager.go:175`); the latches outlive a Run, so in a second Run the
first-run gate is open from the start (`manager.go:295`), and `FirstRunGate` holds
for one Run only; reporters started before one that fails stay up
(`manager.go:333`); a reporter refuses a second provider (`reporter.go:129`) and
serves nothing after Stop and Run (`reporter.go:153`); a Run that fails after the gRPC
reporter started leaves it serving, and every later Run is refused by it
(`grpc/reporter.go:60`); metrics reporters drop results after Stop, gRPC and stdout
take them.

The bounds. Two checks with different impacts are enough to tell the kinds of
impact apart and to fill the funnel; one reporter is enough for properties that
speak of each reporter separately, and the fan-out is interleaved with everything
in any case. `manager_probes` and `manager_lifecycle` have one Run: that is
what their properties are about, or it is no restriction, since `ManagerProofs` has
them for any number. It takes two Runs for the error of an earlier one to be in the
way (`manager_fair`), and two goroutines for a Stop in the middle of Run
(`manager_lifecycle`); `ShutdownCompletes` was also seen to hold for two Runs of one
goroutine. The two runs with fairness have checks that run once: one at an interval
multiplies the states of two Runs by 25; `manager_probes` has it. Two updaters
are what it takes to write payloads out of order; four services and depth 2 are
the smallest graph in which a longer way to a service can hide another one (seen
with the depth-first mutant). Three time units are enough for a dial, AUTH and PING
that each take time within one deadline. Two results of one check are a change for
the worse and one for the better; two Runs are a failure and a retry. With one
reporter besides it the gRPC setup would have four times the states; what the
reporters do to each other is nothing, since a fan-out only orders its calls.
Deadlock is checked in `checkers`, and not in the other runs because the
systems may stop: a manager is stopped for good, callers need not call, a walk
ends, and the bounds end the rest.

Fairness. Goroutines that can step do (weak fairness per goroutine): Go's
scheduler is preemptive. Strong fairness stands for three guarantees of the
runtime: a `select` with several ready cases chooses at random; blocked senders of
a channel are served in order; `sync.RWMutex` lets a waiting writer in. Checks are
assumed to return, sleeps to end and tickers to tick. Nobody is assumed to call
the API, cancel a context, send a request or receive an error. In `checkers` time
goes on and timers fire, and no peer has to answer; in `reporters` handlers of the
health service run to their end, since they wait for nothing.

`SenderProgress` stops at a cancellation, and `CallReturns` at the bound on
refreshes. `ReadyEventually` is about the first Run, in managers that keep running,
unless a check fails or one that is registered never reports (its result was nil, or
its AddCheck slipped in too late); a second Run may find the results and latches of the
first, and evaluates nothing before a new result comes. `ReadinessAccurate` speaks of managers with open gates: before,
nothing is evaluated, by design.

## Proofs

Every invariant and action property that a passing run checks, and the refinement,
is a theorem; `PROJECT.json` lists them with the property each one states. None
bounds the sets of the model (checks, reporters, callers, clients, services) or
fixes its limits, except where MaxRuns is named.

`ManagerProofs`, for any number of Runs:

- `TypeCorrect`. `TypeOK` alone is not inductive: that a result in the funnel has a
  status needs that a checker at "send" has one pending, and that `checkers` grows
  by checks only needs that `arg` is one at "addCheck". `LocalsOK` says so,
  and that what is pending has one of the three statuses, which `SafeCheck` sees to also
  after a panic; the invariant is `TypeInv`, their conjunction. The bound of the funnel uses that only
  `Send` appends, below the capacity, and that the capacity is set once.
- `LatchIsSound`. The sizes of two sets agree and the sets do as well, because one
  contains the other: only names of checks that were dispatched are ever pending, in
  the funnel, at a processor or stored, checks are dispatched from `checkers`, and
  nothing is removed from it (`NamesKnown`). The rest is a fact about finite sets.
- `PromiseKept`, the refinement of `ProbePromise`. A fan-out tells a reporter later
  what was decided earlier, so `GateInv` carries the decision along: a pending
  fan-out of ready means both gates are open, of startup that startup is complete,
  of liveness false that an evaluation went past the gates; and an evaluation past
  the gates means that they are open. Gates never close.

`ManagerRunProofs`, with `MaxRuns = 1`. The bound is a hypothesis of each theorem,
and needed: in a second Run the latches are still set and the processor of the first
may be alive, so that two goroutines stop reporters or evaluate at once. With two
Runs TLC finds a counterexample to each of the properties but `LiveLossJustified`,
for which it found none in 33 M states. The invariants build on one another.

- `StopIsExclusive`, from `RunInv`: one goroutine is in Run, running is set once, so
  one Stop wins it.
- `ReadyFlipIsJustified`, from `ResultInv`: while a processor applies what it
  aggregated, nobody stores a result, so its estimate is not stale two fan-outs later.
- `FirstRunGateHolds` and `LiveLossIsJustified`, from `LoopInv` (who may be telling
  reporters what) and `ShownInv`: the reporters were given the results that the
  manager holds, except the one just being relayed.
- `StartupComesFirst`, from `StartInv`: whoever has not been told of startup is still
  to be told in the processor's own fan-out, which comes before any of ready.
- `ReadinessIsAccurate`, from `ToldInv` (reporters were told the manager's readiness,
  except those still in the fan-out) and `DecidedInv` (between evaluations, and once
  the gates are open, readiness says whether a result denies it).

The last four assume `RegistersFirst`: no check or reporter is added once a processor
exists. AddCheck and AddReporter do refuse while running is set, but there are two
ways around that (see the list under Runs), and without the hypothesis `FirstRunGate`
is false for two reporters.

`CachedCheckerProofs`. The lock is in `TypeOK`, which is inductive. For
`NoThunderingHerd` and `ResultsNeverOlder`, `CacheInv` says that every refresh but the
one whose result is valid or to come was paid for by a lapse, that the refresh under
way has the highest number, and that what is cached is the newest result handed out.

`HTTPReporterProofs`. `TypeOK` carries both locks. `PayloadInv`: a goroutine that has
encoded and not yet written has the present results, since it keeps its read lock;
the payload is never newer than the results, nor older than it was when a request
under way was accepted. From it `CacheIsCoherent` and `BodiesNotOlder`.

`ProbeCheckersProofs`. `ScriptInv`: what precedes the operation under way was answered
in this call; hence `HealthyIsEarned` and `ConnectionsClosed`. `TimeInv`: time passed
and time left add up to one timeout, or two in a redis conversation; hence
`CallsWithinBudget` and `CancellationIsPrompt`. They hold for timeouts of any length,
0 included.

`FanoutProofs`. All rest on `CallInv`: what a goroutine is telling reporters is what
its place in the manager says.

- `TogglesAreBalanced`: calls made and calls still due to the test reporter together
  balance the manager's flag (`ToggleInv`), although each goroutine is at its own.
- `RefusalsAreJustified` is inductive given `CallInv`: a goroutine about to listen
  stays there until it listens or fails to.
- `ServingIsJustified`: a client between its two loads that would be told SERVING is
  justified already (`ServeInv`).
- `ReportersDoAgree`: for a probe not in `raced`, a reporter that shows another value
  than the manager's is still due one announcement, and that has the manager's value
  (`AgreeInv`); what it holds is what was stored, or is just being relayed (`HoldInv`,
  with `Due`). `RunningInv` says that a metrics reporter ignores no result until Stop.
- `MetricsDoFollow`: instruments follow the results held (`CountInv`), these the
  manager's (`HoldInv`).
- `ReadyDoesMatchServices`: after an evaluation readiness is the verdict on what is
  stored (`ReadyInv`), which is what the reporter holds.
- `TypeCorrect`; its bound on the test reporter's count of Run and Stop needs that one
  Stop at most is due it (`RunTogglesInv`).

`DiscoveryProofs`, for any graph and any spellings. `WalkInv`: a service was asked as
often as its url is among the nodes in one spelling or another, since a visit adds one
spelling and one request (`OneMoreSpelling`; hence `TypeCorrect`); the queue is sorted by depth and spans
two levels (`QueueInv`); a dependency of a fetched node was visited at most one level
below it, or is queued there, or the node is at the limit (`EdgeInv`); whatever is
visited or queued has a path from the root as long as its depth (`PathInv`). Along a
path no node was visited deeper than the path has it, so depths are distances
(`DepthsAreDistances`), and nothing within the limit is missing at the end
(`FindsExactlyTheNear`). `WithinIsReach` shows that the recursive reference `Within`
is what paths reach, and `FoundFacts` that the loop queues exactly the urls listed.
The library's induction rules are out of the provers' reach; these lemmas take the
least number at which the claim fails instead (`LeastNatural`, from the library's
theorem on minimal elements of a well-founded relation).

Assumptions are those in the modules, and TLC evaluates them on the runs: sets of
options are sets of checks; `Checks` is finite (`Manager`) or not empty (`Fanout`);
bounds are numbers; goroutines, reporters and the value `Nobody` are told apart; the
time bound of `ProbeCheckers` leaves room for three timeouts; a service lists a finite
sequence. Each says how the model names things, or a fact of Go, and none restricts
what the code may do.

Only model-checked: everything under fairness, since TLAPS does not reach ENABLED
(`SenderProgress`, `ShutdownCompletes`, `RunReturns`, `ReadyEventually`,
`CallReturns`, `Responds`, `StopReturns`, `Terminates`, `CallEnds`, `StopCompletes`),
and the violations.

## Not modelled

The HTTP middleware and configuration (a stateless wrapper and option setters),
rendering and manifests (formatting of a finished graph), logging, what reporters
print, the contents of results beyond name and status, labels and durations of
metrics, and the end-to-end programs. In `Fanout`, one successful Run and checks
without startup impact: restarts and startup are `Manager`'s.
Checks registered under one name twice with different options are one name with
one set of options. Data races in the sense of the Go memory model occur in the
code where a caching checker's result object is shared; see the plan.

## Plan

Done: the manager with its abstract specification, the caching checker, the HTTP
reporter with its timeouts, discovery, the six checkers, and the gRPC, metrics,
stdout and test reporters composed with a manager; theorems for the safety properties
of all of them.

Next, the model:
1. results as shared objects: a `CachedChecker` under two names, where
   `applyCheckOptions` rewrites the name and the impact of a result that the
   processor or a reporter still holds;
2. two Runs of one manager: what a restart keeps, and the probes of two processors at
   work (their senders and the return of Run are in `manager_fair`);
3. the HTTP reporter as one more reporter of `Fanout`.

Next, the proofs: what of `ManagerRunProofs` survives a second Run that comes after
the first one's processor has ended; what a manager promises to a reporter that is
added late; the order that `Terminates` descends along (services not yet visited, then
length of the queue) as an action property; that `Manager` without what reporters
cannot see is the manager of `Fanout`.
