------------------------------ MODULE Discovery ------------------------------
(***************************************************************************)
(* DiscoverGraph, discovery/discover.go: the walk over the dependency      *)
(* graph of services.  Init chooses what the services would answer, in     *)
(* deps; each fetch may still fail (timeout, status, decoding, or the      *)
(* caller's context).  A step is one iteration of the loop.  The graph is  *)
(* kept by url as it was listed; a request goes to the url without its     *)
(* trailing slashes, so several urls may be one service.                   *)
(***************************************************************************)
EXTENDS Naturals, Sequences, FiniteSets, SequencesExt

CONSTANTS
  URLs,         \* what isHTTPURL accepts
  TrimRight,    \* strings.TrimRight(url, "/"): the service behind a url
  Root,         \* rootURL
  DependsOn,    \* what a service may list, over all its checks in order
  MaxDepth      \* the maxDepth option

ASSUME DiscoveryAssumption ==
  /\ Root \in URLs /\ MaxDepth \in Nat
  /\ DOMAIN TrimRight = URLs
  /\ \A s \in DependsOn : s \in Seq(ToSet(s))

Services == {TrimRight[u] : u \in URLs}

VARIABLES
  deps,         \* the dependencies each service would answer with
  queue,        \* urls to visit, with the depth at which each was found
  nodes,        \* Graph.Nodes: the status of each url, "none" if absent
  depth,        \* history: the depth at which a node was visited
  fetches       \* history: requests sent to each service

vars == <<deps, queue, nodes, depth, fetches>>

Init ==
  /\ deps \in [Services -> DependsOn]
  /\ queue = << [url |-> Root, depth |-> 0] >>
  /\ nodes = [u \in URLs |-> "none"]
  /\ depth = [u \in URLs |-> 0]
  /\ fetches = [s \in Services |-> 0]

item == Head(queue)

\* Mutation: no record of the nodes that were visited.
NeverSeen(u) == FALSE

Seen(u) == nodes[u] # "none"

\* Mutation: nodes at the depth limit are not fetched.
TooDeepByOne(d) == d >= MaxDepth

TooDeep(d) == d > MaxDepth

\* Mutation: an item that was seen before is not taken off the queue.
RestUnlessSeen == IF Seen(item.url) THEN queue ELSE Tail(queue)

\* queue = queue[1:]
Rest == Tail(queue)

isHTTPURL(s) == s \in URLs

\* What the service behind a url answers with.
Lists(u) == deps[TrimRight[u]]

\* The loop over the dependencies of item: those that are urls, one level down.
Found ==
  LET listed == Lists(item.url)
      urls[n \in 0 .. Len(listed)] ==
        IF n = 0 THEN <<>>
        ELSE IF isHTTPURL(listed[n])
             THEN Append(urls[n - 1], [url |-> listed[n], depth |-> item.depth + 1])
             ELSE urls[n - 1]
  IN urls[Len(listed)]

\* Mutation: depth first.
PushFront(s) == s \o Rest

\* append(queue, ...)
Push(s) == Rest \o s

Skip ==
  /\ queue # <<>>
  /\ Seen(item.url) \/ TooDeep(item.depth)
  /\ queue' = Rest
  /\ UNCHANGED <<deps, nodes, depth, fetches>>

\* FetchManifest, and the node that records its outcome.
Fetch(status) ==
  /\ queue # <<>>
  /\ ~Seen(item.url) /\ ~TooDeep(item.depth)
  /\ fetches' = [fetches EXCEPT ![TrimRight[item.url]] = @ + 1]
  /\ nodes' = [nodes EXCEPT ![item.url] = status]
  /\ depth' = [depth EXCEPT ![item.url] = item.depth]
  /\ UNCHANGED deps

\* The node lists its dependencies, which are queued.
FetchOK == Fetch("ok") /\ queue' = Push(Found)

\* An unreachable node is recorded and does not fail the graph.
FetchFails == Fetch("unknown") /\ queue' = Rest

Next == Skip \/ FetchOK \/ FetchFails

Spec == Init /\ [][Next]_vars

\* A fetch ends, by its timeout if not before, and the loop goes on.
FairSpec == Spec /\ WF_vars(Next)

-----------------------------------------------------------------------------
(* Properties.                                                              *)

\* Reference: the urls at most n dependencies away from the root, through nodes
\* that were fetched successfully.
Within[n \in Nat] ==
  IF n = 0 THEN {Root}
  ELSE LET near == Within[n - 1]
       IN near \cup {u \in URLs : \E v \in near : nodes[v] = "ok" /\ u \in ToSet(Lists(v))}

Done == queue = <<>>

Items == [url : URLs, depth : 0 .. MaxDepth + 1]

\* The urls in the graph that are spellings of service s.
Spellings(s) == {u \in URLs : nodes[u] # "none" /\ TrimRight[u] = s}

\* The values of the walk's variables; nothing more than one level below the limit
\* is ever queued; and a service is asked once for each spelling of its url among the
\* nodes, however often that is listed and whatever cycles there are.
TypeOK ==
  /\ deps \in [Services -> DependsOn]
  /\ ToSet(queue) \subseteq Items
  /\ nodes \in [URLs -> {"none", "ok", "unknown"}]
  /\ depth \in [URLs -> 0 .. MaxDepth]
  /\ fetches \in [Services -> Nat]
  /\ \A s \in Services : fetches[s] = Cardinality(Spellings(s))

\* The depth limit cuts off by distance, not by the path the walk happened to
\* take: when the walk ends, the graph has exactly the urls within MaxDepth.
FindsAllWithinDepth == Done => {u \in URLs : Seen(u)} = Within[MaxDepth]

\* At any moment the depth at which a node was visited is its distance from the
\* root in the graph known so far.
DepthIsDistance ==
  \A u \in URLs : Seen(u) =>
    u \in Within[depth[u]] /\ (depth[u] > 0 => u \notin Within[depth[u] - 1])

\* The walk ends, cycles or not.
Terminates == <>Done
=============================================================================
