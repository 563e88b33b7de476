--------------------------- MODULE DiscoveryProofs ---------------------------
(***************************************************************************)
(* Theorems about Discovery, for any services, manifests and depth limit:  *)
(* the walk visits each url once, at its distance from the root, asks each *)
(* service once for each of its urls, and finds all that are near enough.  *)
(*                                                                         *)
(* Arguments by induction over a path or a list take the least number at   *)
(* which the claim fails, from the library's theorem on minimal elements.  *)
(***************************************************************************)
EXTENDS Discovery, FiniteSetTheorems, WellFoundedInduction, TLAPS

Below == {s \in Nat \X Nat : s[1] < s[2]}

\* Every set of naturals that is not empty has a least element.
LEMMA LeastNatural ==
  ASSUME NEW T, T \subseteq Nat, T # {}
  PROVE  \E x \in T : \A y \in T : x <= y
<1>1. IsWellFoundedOn(Below, Nat)
  BY NatLessThanWellFounded DEF OpToRel, Below
<1>2. \A x, y \in Nat : <<y, x>> \in Below <=> y < x
  BY DEF Below
<1>3. \E x \in T : \A y \in T : ~(<<y, x>> \in Below)
  BY <1>1, WFMin
<1>4. \A x \in T : \A y \in T : ~(y < x) => x <= y
  OBVIOUS
<1> QED
  BY <1>2, <1>3, <1>4

-----------------------------------------------------------------------------
(* Paths.                                                                   *)

\* The graph known so far: what each node lists, once it was fetched.
Known == [v \in URLs |-> IF nodes[v] = "ok" THEN ToSet(Lists(v)) ELSE {}]

\* p leads in k steps of the graph g from the root to u.
Path(g, p, k, u) ==
  /\ p \in [0 .. k -> URLs]
  /\ p[0] = Root /\ p[k] = u
  /\ \A i \in 0 .. k - 1 : p[i + 1] \in g[p[i]]

Reach(g, u, n) == \E k \in 0 .. n : \E p \in [0 .. k -> URLs] : Path(g, p, k, u)

-----------------------------------------------------------------------------
(* The invariant.                                                           *)

\* The values of the variables.  A service was asked as often as its url was visited
\* in one spelling or another, of which there are finitely many.
WalkTypes ==
  /\ deps \in [Services -> DependsOn]
  /\ queue \in Seq(Items)
  /\ nodes \in [URLs -> {"none", "ok", "unknown"}]
  /\ depth \in [URLs -> 0 .. MaxDepth]
  /\ fetches \in [Services -> Nat]
  /\ \A s \in Services : /\ IsFiniteSet(Spellings(s))
                         /\ fetches[s] = Cardinality(Spellings(s))

\* The queue is sorted by depth, over two levels at most, and below what was visited.
QueueInv ==
  /\ \A i, j \in 1 .. Len(queue) : i <= j => queue[i].depth <= queue[j].depth
  /\ \A i, j \in 1 .. Len(queue) : queue[j].depth <= queue[i].depth + 1
  /\ \A i \in 1 .. Len(queue), u \in URLs : Seen(u) => depth[u] <= queue[i].depth

\* The walk begins at the root.
RootInv ==
  /\ Seen(Root) => depth[Root] = 0
  /\ ~Seen(Root) => queue = << [url |-> Root, depth |-> 0] >> /\ \A u \in URLs : ~Seen(u)

\* A dependency of a visited node was visited at most one level down, or is queued one
\* level down, or the node is at the limit.
EdgeInv ==
  \A v, w \in URLs : w \in Known[v] =>
    /\ Seen(w) => depth[w] <= depth[v] + 1
    /\ \/ Seen(w) \/ depth[v] = MaxDepth
       \/ \E i \in 1 .. Len(queue) : queue[i] = [url |-> w, depth |-> depth[v] + 1]

\* Whatever was visited or queued was reached by a path as long as its depth.
PathInv ==
  /\ \A u \in URLs : Seen(u) => Reach(Known, u, depth[u])
  /\ \A i \in 1 .. Len(queue) : Reach(Known, queue[i].url, queue[i].depth)

WalkInv == WalkTypes /\ QueueInv /\ RootInv /\ EdgeInv /\ PathInv

-----------------------------------------------------------------------------
(* Within is what paths reach.                                              *)

\* The only path of no step is the one at the root.
LEMMA PathZero == \A g : \A u \in URLs : Reach(g, u, 0) <=> u = Root
<1> TAKE g
<1>1. ASSUME NEW u \in URLs, Reach(g, u, 0) PROVE u = Root
  BY <1>1 DEF Reach, Path
<1>2. Reach(g, Root, 0)
  <2> DEFINE p == [i \in 0 .. 0 |-> Root]
  <2>1. p \in [0 .. 0 -> URLs] /\ p[0] = Root /\ 0 \in 0 .. 0 /\ 0 .. 0 - 1 = {}
    BY DiscoveryAssumption
  <2>2. Path(g, p, 0, Root)
    BY <2>1 DEF Path
  <2> QED
    BY <2>1, <2>2 DEF Reach
<1> QED
  BY <1>1, <1>2

\* A path goes on along an edge.
LEMMA PathExtends ==
  ASSUME NEW g, NEW n \in Nat, NEW v \in URLs, Reach(g, v, n), NEW u \in URLs, u \in g[v]
  PROVE  Reach(g, u, n + 1)
<1>0. PICK k \in 0 .. n : \E p \in [0 .. k -> URLs] : Path(g, p, k, v)
  BY DEF Reach
<1>1. PICK p \in [0 .. k -> URLs] : Path(g, p, k, v)
  BY <1>0
<1> DEFINE q == [i \in 0 .. k + 1 |-> IF i <= k THEN p[i] ELSE u]
<1>2. q \in [0 .. k + 1 -> URLs] /\ k + 1 \in 0 .. n + 1
  OBVIOUS
<1>3. q[0] = Root /\ q[k + 1] = u
  BY <1>1 DEF Path
<1>4. ASSUME NEW i \in 0 .. (k + 1) - 1 PROVE q[i + 1] \in g[q[i]]
  <2>1. CASE i = k
    <3>1. q[i] = v /\ q[i + 1] = u
      BY <1>1, <2>1 DEF Path
    <3> QED
      BY <3>1
  <2>2. CASE i # k
    <3>1. i \in 0 .. k - 1 /\ q[i] = p[i] /\ q[i + 1] = p[i + 1]
      BY <2>2
    <3> QED
      BY <1>1, <3>1 DEF Path
  <2> QED
    BY <2>1, <2>2
<1> HIDE DEF q
<1>5. Path(g, q, k + 1, u)
  BY <1>2, <1>3, <1>4 DEF Path
<1> QED
  BY <1>2, <1>5 DEF Reach

\* A path of one step more comes along an edge.
LEMMA PathEnds ==
  ASSUME NEW g, NEW n \in Nat, NEW u \in URLs, Reach(g, u, n + 1)
  PROVE  Reach(g, u, n) \/ \E v \in URLs : Reach(g, v, n) /\ u \in g[v]
<1>0. PICK k \in 0 .. n + 1 : \E p \in [0 .. k -> URLs] : Path(g, p, k, u)
  BY DEF Reach
<1>1. PICK p \in [0 .. k -> URLs] : Path(g, p, k, u)
  BY <1>0
<1>2. CASE k <= n
  BY <1>1, <1>2 DEF Reach
<1>3. CASE k = n + 1
  <2> DEFINE q == [i \in 0 .. n |-> p[i]]
  <2>1. q \in [0 .. n -> URLs] /\ n \in 0 .. n
    BY <1>3
  <2>2. q[0] = Root /\ q[n] = p[n] /\ p[n] \in URLs
    BY <1>1, <1>3 DEF Path
  <2>3. ASSUME NEW i \in 0 .. n - 1 PROVE q[i + 1] \in g[q[i]]
    <3>1. q[i] = p[i] /\ q[i + 1] = p[i + 1] /\ i \in 0 .. k - 1
      BY <1>3
    <3> QED
      BY <1>1, <3>1 DEF Path
  <2>4. u \in g[p[n]]
    <3>1. n \in 0 .. k - 1 /\ p[n + 1] = u
      BY <1>1, <1>3 DEF Path
    <3> QED
      BY <1>1, <3>1 DEF Path
  <2> HIDE DEF q
  <2>5. Path(g, q, n, p[n])
    BY <2>1, <2>2, <2>3 DEF Path
  <2> QED
    BY <2>1, <2>2, <2>4, <2>5 DEF Reach
<1> QED
  BY <1>2, <1>3

\* A longer limit cuts off less.
LEMMA ReachGrows ==
  ASSUME NEW g, NEW n \in Nat, NEW m \in Nat, n <= m, NEW u, Reach(g, u, n)
  PROVE  Reach(g, u, m)
<1>1. 0 .. n \subseteq 0 .. m
  OBVIOUS
<1> QED
  BY <1>1 DEF Reach

Nearer(f, n) ==
  IF n = 0 THEN {Root}
  ELSE f[n - 1] \cup {u \in URLs : \E v \in f[n - 1] : nodes[v] = "ok" /\ u \in ToSet(Lists(v))}

\* The recursion that defines Within computes the urls that paths reach.
LEMMA WithinIsReach == \A n \in Nat : Within[n] = {u \in URLs : Reach(Known, u, n)}
<1> DEFINE R == [n \in Nat |-> {u \in URLs : Reach(Known, u, n)}]
<1>1. R = [n \in Nat |-> Nearer(R, n)]
  <2>1. ASSUME NEW n \in Nat PROVE R[n] = Nearer(R, n)
    <3>1. CASE n = 0
      BY <3>1, PathZero, DiscoveryAssumption DEF Nearer
    <3>2. CASE n # 0
      <4>1. n - 1 \in Nat /\ (n - 1) + 1 = n /\ n - 1 <= n
        BY <3>2
      <4>2. \A u \in URLs : Reach(Known, u, n) <=>
              Reach(Known, u, n - 1) \/ \E v \in URLs : Reach(Known, v, n - 1) /\ u \in Known[v]
        BY <4>1, PathEnds, PathExtends, ReachGrows
      <4>3. R[n] = {u \in URLs : Reach(Known, u, n)} /\ R[n - 1] = {u \in URLs : Reach(Known, u, n - 1)}
        BY <4>1
      <4> HIDE DEF R
      <4> QED
        BY <3>2, <4>2, <4>3 DEF Nearer, Known
    <3> QED
      BY <3>1, <3>2
  <2> QED
    BY <2>1
<1> HIDE DEF R
<1>2. Within = CHOOSE f : f = [n \in Nat |-> Nearer(f, n)]
  BY DEF Within, Nearer
<1>3. Within = [n \in Nat |-> Nearer(Within, n)]
  <2> DEFINE P(f) == f = [n \in Nat |-> Nearer(f, n)]
  <2>1. P(R)
    BY <1>1
  <2>2. Within = CHOOSE f : P(f)
    BY <1>2
  <2> HIDE DEF P
  <2>3. P(Within)
    BY <2>1, <2>2
  <2> QED
    BY <2>3 DEF P
<1>4. \A n \in Nat : Within[n] = Nearer(Within, n) /\ R[n] = Nearer(R, n)
  BY <1>1, <1>3
<1>5. \A n \in Nat : Within[n] = R[n]
  <2> SUFFICES ASSUME {n \in Nat : Within[n] # R[n]} # {} PROVE FALSE
    OBVIOUS
  <2>1. PICK m \in Nat : Within[m] # R[m] /\ \A n \in Nat : Within[n] # R[n] => m <= n
    BY LeastNatural
  <2>2. m # 0
    BY <1>4, <2>1 DEF Nearer
  <2>3. m - 1 \in Nat /\ ~(m <= m - 1)
    BY <2>2
  <2>4. Within[m - 1] = R[m - 1]
    BY <2>1, <2>3
  <2>5. Nearer(Within, m) = Nearer(R, m)
    BY <2>4 DEF Nearer
  <2> QED
    BY <1>4, <2>1, <2>5
<1> QED
  BY <1>5 DEF R

-----------------------------------------------------------------------------
(* The loop over the dependencies of a node.                                *)

\* What the loop over s has queued after n turns, f[n - 1] being what it had before.
Added(f, s, d, n) ==
  IF n = 0 THEN <<>>
  ELSE IF isHTTPURL(s[n]) THEN Append(f[n - 1], [url |-> s[n], depth |-> d]) ELSE f[n - 1]

Loop(f, s, d, m) == f = [n \in 0 .. m |-> Added(f, s, d, n)]

\* The recursion that defines the loop has a solution.
LEMMA LoopExists ==
  ASSUME NEW s, NEW d
  PROVE  \A m \in Nat : \E f : Loop(f, s, d, m)
<1> DEFINE P(m) == \E f : Loop(f, s, d, m)
<1>1. P(0)
  <2> DEFINE f == [n \in 0 .. 0 |-> <<>>]
  <2>1. \A n \in 0 .. 0 : Added(f, s, d, n) = <<>>
    BY DEF Added
  <2>2. f = [n \in 0 .. 0 |-> Added(f, s, d, n)]
    BY <2>1
  <2> HIDE DEF f
  <2> QED
    BY <2>2 DEF Loop
<1>2. ASSUME NEW m \in Nat, P(m) PROVE P(m + 1)
  <2>0. PICK f : Loop(f, s, d, m)
    BY <1>2
  <2>1. f = [n \in 0 .. m |-> Added(f, s, d, n)]
    BY <2>0 DEF Loop
  <2> DEFINE g == [n \in 0 .. m + 1 |-> IF n <= m THEN f[n] ELSE Added(f, s, d, n)]
  <2>2. ASSUME NEW n \in 0 .. m + 1 PROVE g[n] = Added(g, s, d, n)
    <3>1. g[n] = Added(f, s, d, n)
      <4>1. CASE n <= m
        <5>1. n \in 0 .. m /\ g[n] = f[n]
          BY <4>1
        <5> QED
          BY <2>1, <5>1
      <4>2. CASE ~(n <= m)
        BY <4>2
      <4> QED
        BY <4>1, <4>2
    <3>2. n # 0 => n - 1 \in 0 .. m + 1 /\ n - 1 <= m
      OBVIOUS
    <3>3. n # 0 => g[n - 1] = f[n - 1]
      BY <3>2
    <3>4. Added(g, s, d, n) = Added(f, s, d, n)
      BY <3>3 DEF Added
    <3> QED
      BY <3>1, <3>4
  <2>3. g = [n \in 0 .. m + 1 |-> Added(g, s, d, n)]
    BY <2>2
  <2> HIDE DEF g
  <2> QED
    BY <2>3 DEF Loop
<1> HIDE DEF P
<1>3. \A m \in Nat : P(m)
  <2> SUFFICES ASSUME {m \in Nat : ~P(m)} # {} PROVE FALSE
    OBVIOUS
  <2>1. PICK m \in Nat : ~P(m) /\ \A n \in Nat : ~P(n) => m <= n
    BY LeastNatural
  <2>2. m # 0
    BY <1>1, <2>1
  <2>3. m - 1 \in Nat /\ ~(m <= m - 1) /\ (m - 1) + 1 = m
    BY <2>2
  <2> QED
    BY <1>2, <2>1, <2>3
<1> QED
  BY <1>3 DEF P

\* q has exactly the urls among the first n of s, at depth d.
Collected(q, s, d, n) ==
  /\ q \in Seq([url : URLs, depth : {d}])
  /\ \A u \in URLs : (\E j \in 1 .. Len(q) : q[j].url = u) <=> \E j \in 1 .. n : s[j] = u

\* The loop queues exactly the urls in s, at depth d.
LEMMA LoopCollects ==
  ASSUME NEW S, NEW s \in Seq(S), NEW d, NEW f, Loop(f, s, d, Len(s))
  PROVE  \A n \in 0 .. Len(s) : Collected(f[n], s, d, n)
<1> DEFINE It == [url : URLs, depth : {d}]
           P(n) == /\ f[n] \in Seq(It)
                   /\ \A u \in URLs : (\E j \in 1 .. Len(f[n]) : f[n][j].url = u)
                                        <=> \E j \in 1 .. n : s[j] = u
<1>0. f = [n \in 0 .. Len(s) |-> Added(f, s, d, n)]
  BY DEF Loop
<1>1. P(0)
  <2>1. f[0] = <<>>
    BY <1>0 DEF Added
  <2> QED
    BY <2>1
<1>2. ASSUME NEW n \in 1 .. Len(s), P(n - 1) PROVE P(n)
  <2>0. n \in 0 .. Len(s) /\ n # 0 /\ f[n] = Added(f, s, d, n)
    BY <1>0
  <2>1. CASE isHTTPURL(s[n])
    <3> DEFINE x == [url |-> s[n], depth |-> d]
    <3>1. x \in It /\ x.url = s[n]
      BY <2>1 DEF isHTTPURL
    <3> HIDE DEF x
    <3>2. f[n] = Append(f[n - 1], x)
      BY <2>0, <2>1 DEF Added, x
    <3>3. /\ f[n] \in Seq(It) /\ Len(f[n]) = Len(f[n - 1]) + 1 /\ f[n][Len(f[n])] = x
          /\ Len(f[n - 1]) \in Nat /\ \A j \in 1 .. Len(f[n - 1]) : f[n][j] = f[n - 1][j]
      <4> DEFINE y == f[n - 1]
      <4>1. y \in Seq(It) /\ f[n] = Append(y, x)
        BY <1>2, <3>2
      <4> HIDE DEF y, It
      <4> QED
        BY <3>1, <4>1 DEF y
    <3>4. ASSUME NEW u \in URLs
          PROVE  (\E j \in 1 .. Len(f[n]) : f[n][j].url = u) <=> \E j \in 1 .. n : s[j] = u
      <4>1. (\E j \in 1 .. Len(f[n]) : f[n][j].url = u)
              <=> u = s[n] \/ \E j \in 1 .. Len(f[n - 1]) : f[n - 1][j].url = u
        <5>1. 1 .. Len(f[n]) = 1 .. Len(f[n - 1]) \cup {Len(f[n])}
          BY <3>3
        <5> QED
          BY <3>1, <3>3, <5>1
      <4>2. (\E j \in 1 .. n : s[j] = u) <=> u = s[n] \/ \E j \in 1 .. n - 1 : s[j] = u
        <5>1. 1 .. n = 1 .. n - 1 \cup {n}
          OBVIOUS
        <5> QED
          BY <5>1
      <4> QED
        BY <1>2, <4>1, <4>2
    <3> QED
      BY <3>3, <3>4
  <2>2. CASE ~isHTTPURL(s[n])
    <3>1. f[n] = f[n - 1]
      BY <2>0, <2>2 DEF Added
    <3>2. ASSUME NEW u \in URLs
          PROVE  (\E j \in 1 .. n : s[j] = u) <=> \E j \in 1 .. n - 1 : s[j] = u
      <4>1. u # s[n] /\ 1 .. n = 1 .. n - 1 \cup {n}
        BY <2>2 DEF isHTTPURL
      <4> QED
        BY <4>1
    <3> QED
      BY <1>2, <3>1, <3>2
  <2> QED
    BY <2>1, <2>2
<1> HIDE DEF P
<1>3. \A n \in 0 .. Len(s) : P(n)
  <2> SUFFICES ASSUME {n \in 0 .. Len(s) : ~P(n)} # {} PROVE FALSE
    OBVIOUS
  <2>1. PICK m \in 0 .. Len(s) : ~P(m) /\ \A n \in 0 .. Len(s) : ~P(n) => m <= n
    <3>1. {n \in 0 .. Len(s) : ~P(n)} \subseteq Nat
      OBVIOUS
    <3> QED
      BY <3>1, LeastNatural
  <2>2. m # 0
    BY <1>1, <2>1
  <2>3. m - 1 \in 0 .. Len(s) /\ ~(m <= m - 1) /\ m \in 1 .. Len(s)
    BY <2>2
  <2>4. P(m - 1)
    BY <2>1, <2>3
  <2> QED
    BY <1>2, <2>1, <2>3, <2>4
<1> QED
  BY <1>3 DEF P, Collected

\* Found: the dependencies of the item that are urls, one level below it.
LEMMA FoundFacts ==
  ASSUME Lists(item.url) \in Seq(ToSet(Lists(item.url)))
  PROVE  /\ Found \in Seq([url : URLs, depth : {item.depth + 1}])
         /\ \A u \in URLs : u \in ToSet(Lists(item.url)) <=> \E j \in 1 .. Len(Found) : Found[j].url = u
<1> DEFINE s == Lists(item.url)
           d == item.depth + 1
           g == CHOOSE f : Loop(f, s, d, Len(s))
<1>1. Found = g[Len(s)]
  BY DEF Found, Added, Loop
<1>5. s \in Seq(ToSet(s))
  OBVIOUS
<1> HIDE DEF s, d
<1>2. \E f : Loop(f, s, d, Len(s))
  <2>1. Len(s) \in Nat
    BY <1>5
  <2> QED
    BY <2>1, LoopExists
<1>4. Loop(g, s, d, Len(s))
  BY <1>2
<1> HIDE DEF g
<1>6. Collected(g[Len(s)], s, d, Len(s))
  <2>1. Len(s) \in 0 .. Len(s)
    BY <1>5
  <2> QED
    BY <1>4, <1>5, <2>1, LoopCollects
<1>7. \A u : u \in ToSet(s) <=> \E j \in 1 .. Len(s) : s[j] = u
  BY <1>5 DEF ToSet
<1> QED
  BY <1>1, <1>6, <1>7 DEF s, d, Collected

-----------------------------------------------------------------------------
(* A step of the walk.                                                      *)

Entry == [url : URLs, depth : Nat]
EntryAt(d) == [url : URLs, depth : {d}]

\* The members of a sequence over S, which is a sequence over a larger set too.
LEMMA SeqGrows ==
  ASSUME NEW S, NEW T, S \subseteq T, NEW q \in Seq(S)
  PROVE  q \in Seq(T) /\ \A j \in 1 .. Len(q) : q[j] \in S
<1>1. Len(q) \in Nat /\ q \in [1 .. Len(q) -> S]
  OBVIOUS
<1>2. q \in [1 .. Len(q) -> T]
  BY <1>1
<1> QED
  BY <1>1, <1>2

\* An entry of a queue.
LEMMA EntryFacts ==
  ASSUME NEW q \in Seq(Entry), NEW j \in 1 .. Len(q)
  PROVE  q[j] \in Entry /\ q[j].url \in URLs /\ q[j].depth \in Nat
<1>1. q[j] \in Entry
  OBVIOUS
<1> QED
  BY <1>1 DEF Entry

\* A graph that grew keeps its paths.
LEMMA ReachKept ==
  ASSUME NEW g, NEW h, \A v \in URLs : g[v] \subseteq h[v], NEW n \in Nat, NEW u, Reach(g, u, n)
  PROVE  Reach(h, u, n)
<1>0. PICK k \in 0 .. n : \E p \in [0 .. k -> URLs] : Path(g, p, k, u)
  BY DEF Reach
<1>1. PICK p \in [0 .. k -> URLs] : Path(g, p, k, u)
  BY <1>0
<1>2. \A i \in 0 .. k - 1 : p[i] \in URLs
  OBVIOUS
<1>3. Path(h, p, k, u)
  BY <1>1, <1>2 DEF Path
<1> QED
  BY <1>3 DEF Reach

\* The item taken off the queue is x at depth d; the rest of the queue moves up, and
\* what follows it are dependencies of x, one level down.
Taken(x, d) ==
  /\ queue # <<>> /\ queue[1] = [url |-> x, depth |-> d]
  /\ queue' \in Seq(Entry) /\ Len(queue) \in Nat \ {0}
  /\ Len(queue') \in Nat /\ Len(queue) - 1 <= Len(queue')
  /\ \A i \in 1 .. Len(queue) - 1 : queue'[i] = queue[i + 1]
  /\ \A i \in Len(queue) .. Len(queue') :
       queue'[i].depth = d + 1 /\ queue'[i].url \in Known'[x] /\ ~Seen(x) /\ d <= MaxDepth

\* The item was not looked at.
Passed(x, d) ==
  /\ Seen(x) \/ d > MaxDepth
  /\ Known' = Known /\ UNCHANGED <<deps, nodes, depth, fetches>>

\* The item was visited, and what it lists is queued.
Visited(x, d) ==
  /\ ~Seen(x) /\ d <= MaxDepth
  /\ deps' = deps
  /\ nodes' \in [URLs -> {"none", "ok", "unknown"}]
  /\ nodes'[x] # "none" /\ \A v \in URLs \ {x} : nodes'[v] = nodes[v]
  /\ depth' = [depth EXCEPT ![x] = d]
  /\ fetches' = [fetches EXCEPT ![TrimRight[x]] = @ + 1]
  /\ \A v \in URLs \ {x} : Known'[v] = Known[v]
  /\ Known[x] = {}
  /\ \A w \in URLs : w \in Known'[x] =>
       \E i \in 1 .. Len(queue') : queue'[i] = [url |-> w, depth |-> d + 1]

\* Skip passes over its item.
LEMMA SkipTakes ==
  ASSUME WalkTypes, NEW x \in URLs, NEW d \in 0 .. MaxDepth + 1,
         queue # <<>>, queue[1] = [url |-> x, depth |-> d], Skip
  PROVE  Taken(x, d) /\ Passed(x, d)
<1>1. item.url = x /\ item.depth = d
  BY DEF item, WalkTypes
<1>2. Passed(x, d)
  BY <1>1 DEF Skip, Passed, Seen, TooDeep, Known, Lists
<1>3. /\ Len(queue) \in Nat \ {0} /\ queue' \in Seq(Items) /\ Len(queue') = Len(queue) - 1
      /\ \A i \in 1 .. Len(queue) - 1 : queue'[i] = queue[i + 1]
  BY DEF Skip, Rest, WalkTypes
<1>4. Items \subseteq Entry
  BY DiscoveryAssumption DEF Items, Entry
<1>5. queue' \in Seq(Entry)
  BY <1>3, <1>4, SeqGrows
<1>6. Taken(x, d)
  BY <1>3, <1>5 DEF Taken
<1> QED
  BY <1>2, <1>6

\* A failed fetch visits its item, which lists nothing.
LEMMA FetchFailsTakes ==
  ASSUME WalkTypes, NEW x \in URLs, NEW d \in 0 .. MaxDepth + 1,
         queue # <<>>, queue[1] = [url |-> x, depth |-> d], FetchFails
  PROVE  Taken(x, d) /\ Visited(x, d)
<1>1. item.url = x /\ item.depth = d
  BY DEF item, WalkTypes
<1>2. /\ ~Seen(x) /\ d <= MaxDepth /\ deps' = deps
      /\ nodes' = [nodes EXCEPT ![x] = "unknown"]
      /\ depth' = [depth EXCEPT ![x] = d]
      /\ fetches' = [fetches EXCEPT ![TrimRight[x]] = @ + 1]
      /\ queue' = Tail(queue)
  BY <1>1, DiscoveryAssumption DEF FetchFails, Fetch, TooDeep, Rest
<1>3. /\ Len(queue) \in Nat \ {0} /\ queue' \in Seq(Items) /\ Len(queue') = Len(queue) - 1
      /\ \A i \in 1 .. Len(queue) - 1 : queue'[i] = queue[i + 1]
  BY <1>2 DEF WalkTypes
<1>4. Items \subseteq Entry
  BY DiscoveryAssumption DEF Items, Entry
<1>5. queue' \in Seq(Entry)
  BY <1>3, <1>4, SeqGrows
<1>6. Taken(x, d)
  BY <1>3, <1>5 DEF Taken
<1>7. /\ nodes' \in [URLs -> {"none", "ok", "unknown"}] /\ nodes'[x] = "unknown"
      /\ \A v \in URLs \ {x} : nodes'[v] = nodes[v]
  BY <1>2 DEF WalkTypes
<1>8. nodes[x] = "none"
  BY <1>2 DEF Seen
<1>9. Known'[x] = {} /\ Known[x] = {} /\ \A v \in URLs \ {x} : Known'[v] = Known[v]
  BY <1>2, <1>7, <1>8 DEF Known, Lists
<1>10. Visited(x, d)
  BY <1>2, <1>7, <1>9 DEF Visited
<1> QED
  BY <1>6, <1>10

\* A fetch visits its item, and queues the urls that the answer lists.
LEMMA FetchOKTakes ==
  ASSUME WalkTypes, NEW x \in URLs, NEW d \in 0 .. MaxDepth + 1,
         queue # <<>>, queue[1] = [url |-> x, depth |-> d], FetchOK
  PROVE  Taken(x, d) /\ Visited(x, d)
<1>1. item.url = x /\ item.depth = d
  BY DEF item, WalkTypes
<1>2. /\ ~Seen(x) /\ d <= MaxDepth /\ deps' = deps
      /\ nodes' = [nodes EXCEPT ![x] = "ok"]
      /\ depth' = [depth EXCEPT ![x] = d]
      /\ fetches' = [fetches EXCEPT ![TrimRight[x]] = @ + 1]
      /\ queue' = Tail(queue) \o Found
  BY <1>1, DiscoveryAssumption DEF FetchOK, Fetch, TooDeep, Rest, Push
<1>3. Lists(x) \in DependsOn
  BY DEF WalkTypes, Lists, Services
<1>4. Lists(x) \in Seq(ToSet(Lists(x)))
  BY <1>3, DiscoveryAssumption
<1>5. PICK q : q = Found
  OBVIOUS
<1>6. /\ q \in Seq(EntryAt(d + 1))
      /\ \A u \in URLs : u \in ToSet(Lists(x)) <=> \E j \in 1 .. Len(q) : q[j].url = u
  BY <1>1, <1>4, <1>5, FoundFacts DEF EntryAt
<1>7. PICK r : r = Tail(queue)
  OBVIOUS
<1>8. /\ Len(queue) \in Nat \ {0} /\ r \in Seq(Items) /\ Len(r) = Len(queue) - 1
      /\ \A i \in 1 .. Len(queue) - 1 : r[i] = queue[i + 1]
  BY <1>7 DEF WalkTypes
<1>9. Items \subseteq Entry /\ EntryAt(d + 1) \subseteq Entry
  BY DiscoveryAssumption DEF Items, Entry, EntryAt
<1>10. \A j \in 1 .. Len(q) : q[j] \in EntryAt(d + 1)
  <2>1. q \in [1 .. Len(q) -> EntryAt(d + 1)]
    BY <1>6
  <2> QED
    BY <2>1
<1>11. q \in Seq(Entry) /\ r \in Seq(Entry)
  BY <1>6, <1>8, <1>9, SeqGrows
<1>12. queue' = r \o q
  BY <1>2, <1>5, <1>7
<1>13. /\ queue' \in Seq(Entry) /\ Len(queue') = Len(r) + Len(q) /\ Len(q) \in Nat /\ Len(r) \in Nat
       /\ \A i \in 1 .. Len(r) : queue'[i] = r[i]
       /\ \A i \in Len(r) + 1 .. Len(r) + Len(q) : queue'[i] = q[i - Len(r)]
  BY <1>11, <1>12
<1>14. /\ nodes' \in [URLs -> {"none", "ok", "unknown"}] /\ nodes'[x] = "ok"
       /\ \A v \in URLs \ {x} : nodes'[v] = nodes[v]
  BY <1>2 DEF WalkTypes
<1>15. nodes[x] = "none"
  BY <1>2 DEF Seen
<1>16. /\ Known'[x] = ToSet(Lists(x)) /\ Known[x] = {}
       /\ \A v \in URLs \ {x} : Known'[v] = Known[v]
  BY <1>2, <1>14, <1>15 DEF Known, Lists
<1>17. ASSUME NEW i \in Len(queue) .. Len(queue')
       PROVE  queue'[i].depth = d + 1 /\ queue'[i].url \in Known'[x]
  <2>1. i - Len(r) \in 1 .. Len(q) /\ queue'[i] = q[i - Len(r)]
    BY <1>8, <1>13
  <2>2. q[i - Len(r)].depth = d + 1 /\ q[i - Len(r)].url \in URLs
    BY <1>10, <2>1 DEF EntryAt
  <2> QED
    BY <1>6, <1>16, <2>1, <2>2
<1>18. Taken(x, d)
  BY <1>2, <1>8, <1>13, <1>17 DEF Taken
<1>19. ASSUME NEW w \in URLs, w \in Known'[x]
       PROVE  \E i \in 1 .. Len(queue') : queue'[i] = [url |-> w, depth |-> d + 1]
  <2>1. PICK j \in 1 .. Len(q) : q[j].url = w
    BY <1>6, <1>16, <1>19
  <2>2. q[j] = [url |-> w, depth |-> d + 1]
    BY <1>10, <2>1 DEF EntryAt
  <2>3. /\ j + Len(r) \in Len(r) + 1 .. Len(r) + Len(q) /\ j + Len(r) \in 1 .. Len(queue')
        /\ (j + Len(r)) - Len(r) = j
    BY <1>13
  <2>4. queue'[j + Len(r)] = q[j]
    BY <1>13, <2>3
  <2> QED
    BY <2>2, <2>3, <2>4
<1>20. Visited(x, d)
  BY <1>2, <1>14, <1>16, <1>19 DEF Visited
<1> QED
  BY <1>18, <1>20

\* A visit adds one spelling of one service, and one request to it.
LEMMA OneMoreSpelling ==
  ASSUME WalkTypes, NEW x \in URLs, NEW d \in 0 .. MaxDepth + 1, Visited(x, d),
         NEW s \in Services
  PROVE  /\ fetches' \in [Services -> Nat]
         /\ IsFiniteSet(Spellings(s)')
         /\ fetches'[s] = Cardinality(Spellings(s)')
<1>1. PICK S : S = Spellings(s)
  OBVIOUS
<1>2. IsFiniteSet(S) /\ fetches[s] = Cardinality(S) /\ x \notin S
  BY <1>1 DEF WalkTypes, Visited, Spellings, Seen
<1>3. TrimRight[x] \in Services
  BY DEF Services
<1>4. /\ fetches' \in [Services -> Nat]
      /\ fetches'[s] = IF TrimRight[x] = s THEN fetches[s] + 1 ELSE fetches[s]
  BY <1>3 DEF WalkTypes, Visited
<1>5. Spellings(s)' = IF TrimRight[x] = s THEN S \cup {x} ELSE S
  BY <1>1 DEF Spellings, Seen, Visited
<1>6. IsFiniteSet(S \cup {x}) /\ Cardinality(S \cup {x}) = Cardinality(S) + 1
  BY <1>2, FS_AddElement
<1> QED
  BY <1>2, <1>4, <1>5, <1>6

\* What a step preserves of the values, when the new queue is within the limit.
LEMMA TypesKept ==
  ASSUME WalkTypes, NEW x \in URLs, NEW d \in 0 .. MaxDepth + 1, Taken(x, d),
         Passed(x, d) \/ Visited(x, d)
  PROVE  WalkTypes'
<1>0. MaxDepth \in Nat
  BY DiscoveryAssumption
<1>1. ASSUME NEW i \in 1 .. Len(queue') PROVE queue'[i] \in Items
  <2>1. queue'[i] \in Entry
    BY EntryFacts DEF Taken
  <2>2. CASE i <= Len(queue) - 1
    <3>1. i \in 1 .. Len(queue) - 1 /\ i + 1 \in 1 .. Len(queue)
      BY <2>2 DEF Taken
    <3>2. queue'[i] = queue[i + 1]
      BY <3>1 DEF Taken
    <3>3. queue[i + 1] \in Items
      BY <3>1 DEF WalkTypes
    <3> QED
      BY <3>2, <3>3
  <2>3. CASE ~(i <= Len(queue) - 1)
    <3>1. i \in Len(queue) .. Len(queue')
      BY <2>3 DEF Taken
    <3>2. queue'[i].depth = d + 1 /\ d <= MaxDepth
      BY <3>1 DEF Taken
    <3>3. d + 1 \in 0 .. MaxDepth + 1
      BY <1>0, <3>2
    <3> QED
      BY <2>1, <3>2, <3>3 DEF Items, Entry
  <2> QED
    BY <2>2, <2>3
<1>2. queue' \in Seq(Items)
  <2>1. queue' \in [1 .. Len(queue') -> Entry] /\ Len(queue') \in Nat
    BY DEF Taken
  <2>2. queue' \in [1 .. Len(queue') -> Items]
    BY <1>1, <2>1
  <2> QED
    BY <2>1, <2>2
<1>3. CASE Passed(x, d)
  BY <1>2, <1>3 DEF WalkTypes, Passed, Seen, Spellings
<1>4. CASE Visited(x, d)
  <2>1. d \in 0 .. MaxDepth
    BY <1>0, <1>4 DEF Visited
  <2>2. depth' \in [URLs -> 0 .. MaxDepth]
    BY <1>4, <2>1 DEF Visited, WalkTypes
  <2>3. TrimRight[x] \in Services
    BY DEF Services
  <2>4. /\ fetches' \in [Services -> Nat]
        /\ \A s \in Services : IsFiniteSet(Spellings(s)') /\ fetches'[s] = Cardinality(Spellings(s)')
    BY <1>4, <2>3, OneMoreSpelling
  <2> QED
    BY <1>2, <1>4, <2>2, <2>4 DEF WalkTypes, Visited
<1> QED
  BY <1>3, <1>4

\* The depths of the new queue: those of the old one, then one more than was taken.
LEMMA DepthsTaken ==
  ASSUME WalkTypes, QueueInv, NEW x \in URLs, NEW d \in 0 .. MaxDepth + 1, Taken(x, d)
  PROVE  \A i \in 1 .. Len(queue') :
           /\ queue'[i].depth \in Nat /\ d <= queue'[i].depth /\ queue'[i].depth <= d + 1
           /\ i <= Len(queue) - 1 => i + 1 \in 1 .. Len(queue) /\ queue'[i] = queue[i + 1]
           /\ ~(i <= Len(queue) - 1) => queue'[i].depth = d + 1
<1> SUFFICES ASSUME NEW i \in 1 .. Len(queue')
             PROVE  /\ queue'[i].depth \in Nat /\ d <= queue'[i].depth /\ queue'[i].depth <= d + 1
                    /\ i <= Len(queue) - 1 => i + 1 \in 1 .. Len(queue) /\ queue'[i] = queue[i + 1]
                    /\ ~(i <= Len(queue) - 1) => queue'[i].depth = d + 1
  OBVIOUS
<1>0. MaxDepth \in Nat /\ d \in Nat /\ queue[1].depth = d /\ 1 \in 1 .. Len(queue)
  BY DiscoveryAssumption DEF Taken
<1>1. queue'[i].depth \in Nat
  BY EntryFacts DEF Taken
<1>2. CASE i <= Len(queue) - 1
  <2>1. i \in 1 .. Len(queue) - 1 /\ i + 1 \in 1 .. Len(queue) /\ 1 <= i + 1
    BY <1>2 DEF Taken
  <2>2. queue'[i] = queue[i + 1]
    BY <2>1 DEF Taken
  <2>3. queue[1].depth <= queue[i + 1].depth /\ queue[i + 1].depth <= queue[1].depth + 1
    BY <1>0, <2>1 DEF QueueInv
  <2> QED
    BY <1>0, <1>1, <1>2, <2>1, <2>2, <2>3
<1>3. CASE ~(i <= Len(queue) - 1)
  <2>1. i \in Len(queue) .. Len(queue')
    BY <1>3 DEF Taken
  <2>2. queue'[i].depth = d + 1
    BY <2>1 DEF Taken
  <2> QED
    BY <1>0, <1>1, <1>3, <2>2
<1> QED
  BY <1>2, <1>3

\* The queue stays sorted.
LEMMA QueueKept ==
  ASSUME WalkTypes, QueueInv, NEW x \in URLs, NEW d \in 0 .. MaxDepth + 1, Taken(x, d),
         Passed(x, d) \/ Visited(x, d)
  PROVE  QueueInv'
<1>0. MaxDepth \in Nat /\ d \in Nat /\ queue[1].depth = d /\ 1 \in 1 .. Len(queue)
  BY DiscoveryAssumption DEF Taken
<1>1. ASSUME NEW i \in 1 .. Len(queue'), NEW j \in 1 .. Len(queue'), i <= j
      PROVE  queue'[i].depth <= queue'[j].depth
  <2>1. CASE j <= Len(queue) - 1
    <3>1. i <= Len(queue) - 1 /\ i + 1 <= j + 1
      BY <1>1, <2>1 DEF Taken
    <3>2. /\ queue'[i] = queue[i + 1] /\ queue'[j] = queue[j + 1]
          /\ i + 1 \in 1 .. Len(queue) /\ j + 1 \in 1 .. Len(queue)
      BY <2>1, <3>1, DepthsTaken
    <3> QED
      BY <3>1, <3>2 DEF QueueInv
  <2>2. CASE ~(j <= Len(queue) - 1)
    BY <2>2, DepthsTaken
  <2> QED
    BY <2>1, <2>2
<1>2. ASSUME NEW i \in 1 .. Len(queue'), NEW j \in 1 .. Len(queue')
      PROVE  queue'[j].depth <= queue'[i].depth + 1
  <2>1. /\ queue'[i].depth \in Nat /\ queue'[j].depth \in Nat
        /\ d <= queue'[i].depth /\ queue'[j].depth <= d + 1
    BY DepthsTaken
  <2> QED
    BY <1>0, <2>1
<1>3. ASSUME NEW i \in 1 .. Len(queue'), NEW u \in URLs, Seen(u)'
      PROVE  depth'[u] <= queue'[i].depth
  <2>1. queue'[i].depth \in Nat /\ d <= queue'[i].depth
    BY DepthsTaken
  <2>2. depth'[u] <= d /\ depth'[u] \in Nat
    <3>0. depth[u] \in Nat /\ (Seen(u) => depth[u] <= d)
      BY <1>0 DEF QueueInv, WalkTypes
    <3>1. CASE Passed(x, d)
      BY <1>3, <3>0, <3>1 DEF Passed, Seen
    <3>2. CASE Visited(x, d)
      <4>1. CASE u = x
        BY <1>0, <3>2, <4>1 DEF Visited, WalkTypes
      <4>2. CASE u # x
        BY <1>3, <3>0, <3>2, <4>2 DEF Visited, WalkTypes, Seen
      <4> QED
        BY <4>1, <4>2
    <3> QED
      BY <3>1, <3>2
  <2> QED
    BY <1>0, <2>1, <2>2
<1> QED
  BY <1>1, <1>2, <1>3 DEF QueueInv

\* The root is the first to be visited.
LEMMA RootKept ==
  ASSUME WalkTypes, RootInv, NEW x \in URLs, NEW d \in 0 .. MaxDepth + 1, Taken(x, d),
         Passed(x, d) \/ Visited(x, d)
  PROVE  RootInv'
<1>0. MaxDepth \in Nat /\ Root \in URLs
  BY DiscoveryAssumption
<1>1. ~Seen(Root) => x = Root /\ d = 0
  <2>1. ASSUME ~Seen(Root) PROVE x = Root /\ d = 0
    <3>1. queue[1] = [url |-> Root, depth |-> 0]
      BY <2>1 DEF RootInv
    <3>2. queue[1].url = x /\ queue[1].depth = d
      BY DEF Taken
    <3> QED
      BY <3>1, <3>2
  <2> QED
    BY <2>1
<1>2. CASE Passed(x, d)
  <2>1. Seen(Root)
    BY <1>0, <1>1, <1>2 DEF Passed
  <2> QED
    BY <1>2, <2>1 DEF Passed, RootInv, Seen
<1>3. CASE Visited(x, d)
  <2>1. Seen(Root)' /\ depth'[Root] = 0
    <3>1. CASE x = Root
      <4>1. ~Seen(Root)
        BY <1>3, <3>1 DEF Visited
      <4> QED
        BY <1>0, <1>1, <1>3, <3>1, <4>1 DEF Visited, WalkTypes, Seen
    <3>2. CASE x # Root
      BY <1>0, <1>1, <1>3, <3>2 DEF Visited, RootInv, WalkTypes, Seen
    <3> QED
      BY <3>1, <3>2
  <2> QED
    BY <2>1 DEF RootInv
<1> QED
  BY <1>2, <1>3

\* No edge of a visited node is forgotten.
LEMMA EdgesKept ==
  ASSUME WalkTypes, QueueInv, EdgeInv, NEW x \in URLs, NEW d \in 0 .. MaxDepth + 1, Taken(x, d),
         Passed(x, d) \/ Visited(x, d)
  PROVE  EdgeInv'
<1>0. MaxDepth \in Nat /\ d \in Nat /\ queue[1] = [url |-> x, depth |-> d] /\ 1 \in 1 .. Len(queue)
  BY DiscoveryAssumption DEF Taken
<1>1. ASSUME NEW i \in 1 .. Len(queue), i # 1
      PROVE  \E j \in 1 .. Len(queue') : queue'[j] = queue[i]
  <2>1. i - 1 \in 1 .. Len(queue) - 1 /\ i - 1 \in 1 .. Len(queue') /\ (i - 1) + 1 = i
    BY <1>1 DEF Taken
  <2>2. queue'[i - 1] = queue[i]
    BY <2>1 DEF Taken
  <2> QED
    BY <2>1, <2>2
<1>2. ASSUME NEW v \in URLs, NEW w \in URLs, w \in Known'[v], Passed(x, d)
      PROVE  /\ Seen(w)' => depth'[w] <= depth'[v] + 1
             /\ \/ Seen(w)' \/ depth'[v] = MaxDepth
                \/ \E i \in 1 .. Len(queue') : queue'[i] = [url |-> w, depth |-> depth'[v] + 1]
  <2>1. Known' = Known /\ nodes' = nodes /\ depth' = depth /\ (Seen(x) \/ d > MaxDepth)
    BY <1>2 DEF Passed
  <2>2. /\ Seen(w) => depth[w] <= depth[v] + 1
        /\ \/ Seen(w) \/ depth[v] = MaxDepth
           \/ \E i \in 1 .. Len(queue) : queue[i] = [url |-> w, depth |-> depth[v] + 1]
    BY <1>2, <2>1 DEF EdgeInv
  <2>3. ASSUME ~Seen(w), depth[v] # MaxDepth
        PROVE  \E i \in 1 .. Len(queue') : queue'[i] = [url |-> w, depth |-> depth[v] + 1]
    <3>1. PICK i \in 1 .. Len(queue) : queue[i] = [url |-> w, depth |-> depth[v] + 1]
      BY <2>2, <2>3
    <3>2. i # 1
      <4> SUFFICES ASSUME i = 1 PROVE FALSE
        OBVIOUS
      <4>1. x = w /\ d = depth[v] + 1
        BY <1>0, <3>1
      <4>2. depth[v] \in 0 .. MaxDepth
        BY DEF WalkTypes
      <4> QED
        BY <1>0, <2>1, <2>3, <4>1, <4>2
    <3> QED
      BY <1>1, <3>1, <3>2
  <2> QED
    BY <2>1, <2>2, <2>3 DEF Seen
<1>3. ASSUME NEW v \in URLs, NEW w \in URLs, w \in Known'[v], Visited(x, d)
      PROVE  /\ Seen(w)' => depth'[w] <= depth'[v] + 1
             /\ \/ Seen(w)' \/ depth'[v] = MaxDepth
                \/ \E i \in 1 .. Len(queue') : queue'[i] = [url |-> w, depth |-> depth'[v] + 1]
  <2>0. /\ depth \in [URLs -> 0 .. MaxDepth] /\ depth'[x] = d
        /\ \A u \in URLs \ {x} : depth'[u] = depth[u] /\ (Seen(u)' <=> Seen(u))
        /\ Seen(x)' /\ ~Seen(x) /\ d <= MaxDepth
    BY <1>3 DEF Visited, WalkTypes, Seen
  <2>1. CASE v = x
    <3>1. \E i \in 1 .. Len(queue') : queue'[i] = [url |-> w, depth |-> d + 1]
      BY <1>3, <2>1 DEF Visited
    <3>2. Seen(w)' => depth'[w] <= d + 1
      <4>1. CASE w = x
        BY <1>0, <2>0, <4>1
      <4>2. CASE w # x
        <5>1. Seen(w) => depth[w] <= queue[1].depth
          BY <1>0 DEF QueueInv
        <5>2. queue[1].depth = d /\ depth[w] \in Nat
          BY <1>0, <2>0
        <5> QED
          BY <1>0, <2>0, <4>2, <5>1, <5>2
      <4> QED
        BY <4>1, <4>2
    <3> QED
      BY <2>0, <2>1, <3>1, <3>2
  <2>2. CASE v # x
    <3>1. w \in Known[v] /\ depth'[v] = depth[v]
      BY <1>3, <2>0, <2>2 DEF Visited
    <3>2. /\ Seen(w) => depth[w] <= depth[v] + 1
          /\ \/ Seen(w) \/ depth[v] = MaxDepth
             \/ \E i \in 1 .. Len(queue) : queue[i] = [url |-> w, depth |-> depth[v] + 1]
      BY <3>1 DEF EdgeInv
    <3>3. CASE w = x
      <4>1. CASE depth[v] = MaxDepth
        BY <1>0, <2>0, <3>1, <3>3, <4>1
      <4>2. CASE depth[v] # MaxDepth
        <5>1. PICK i \in 1 .. Len(queue) : queue[i] = [url |-> w, depth |-> depth[v] + 1]
          BY <2>0, <3>2, <3>3, <4>2
        <5>2. queue[1].depth <= queue[i].depth
          BY <1>0 DEF QueueInv
        <5>3. d <= depth[v] + 1
          BY <1>0, <5>1, <5>2
        <5> QED
          BY <2>0, <3>1, <3>3, <5>3
      <4> QED
        BY <4>1, <4>2
    <3>4. CASE w # x
      <4>1. (Seen(w)' <=> Seen(w)) /\ depth'[w] = depth[w]
        BY <2>0, <3>4
      <4>2. ASSUME ~Seen(w), depth[v] # MaxDepth
            PROVE  \E i \in 1 .. Len(queue') : queue'[i] = [url |-> w, depth |-> depth[v] + 1]
        <5>1. PICK i \in 1 .. Len(queue) : queue[i] = [url |-> w, depth |-> depth[v] + 1]
          BY <3>2, <4>2
        <5>2. i # 1
          BY <1>0, <3>4, <5>1
        <5> QED
          BY <1>1, <5>1, <5>2
      <4> QED
        BY <3>1, <3>2, <4>1, <4>2
    <3> QED
      BY <3>3, <3>4
  <2> QED
    BY <2>1, <2>2
<1>4. ASSUME NEW v \in URLs, NEW w \in URLs, w \in Known'[v]
      PROVE  /\ Seen(w)' => depth'[w] <= depth'[v] + 1
             /\ \/ Seen(w)' \/ depth'[v] = MaxDepth
                \/ \E i \in 1 .. Len(queue') : queue'[i] = [url |-> w, depth |-> depth'[v] + 1]
  BY <1>2, <1>3, <1>4
<1> QED
  BY <1>4 DEF EdgeInv

\* What was visited or queued stays in reach.
LEMMA PathsKept ==
  ASSUME WalkTypes, QueueInv, PathInv, NEW x \in URLs, NEW d \in 0 .. MaxDepth + 1, Taken(x, d),
         Passed(x, d) \/ Visited(x, d)
  PROVE  PathInv'
<1>0. MaxDepth \in Nat /\ d \in Nat /\ queue[1] = [url |-> x, depth |-> d] /\ 1 \in 1 .. Len(queue)
  BY DiscoveryAssumption DEF Taken
<1>1. \A v \in URLs : Known[v] \subseteq Known'[v]
  <2>1. CASE Passed(x, d)
    BY <2>1 DEF Passed
  <2>2. CASE Visited(x, d)
    <3>1. Known[x] = {} /\ \A v \in URLs \ {x} : Known'[v] = Known[v]
      BY <2>2 DEF Visited
    <3> QED
      BY <3>1
  <2> QED
    BY <2>1, <2>2
<1>2. PICK g : g = Known
  OBVIOUS
<1>3. PICK h : h = Known'
  OBVIOUS
<1>4. \A n \in Nat : \A u \in URLs : Reach(g, u, n) => Reach(h, u, n)
  BY <1>1, <1>2, <1>3, ReachKept
<1>5. Reach(h, x, d)
  <2>1. Reach(Known, queue[1].url, queue[1].depth)
    BY <1>0 DEF PathInv
  <2>2. Reach(g, x, d)
    BY <1>0, <1>2, <2>1
  <2> QED
    BY <1>0, <1>4, <2>2
<1>6. ASSUME NEW u \in URLs, Seen(u)' PROVE Reach(h, u, depth'[u])
  <2>0. depth[u] \in Nat
    BY <1>0 DEF WalkTypes
  <2>1. Seen(u) => Reach(h, u, depth[u])
    BY <1>2, <1>4, <2>0 DEF PathInv
  <2>2. CASE Passed(x, d)
    BY <1>6, <2>1, <2>2 DEF Passed, Seen
  <2>3. CASE Visited(x, d)
    <3>1. CASE u = x
      <4>1. depth'[x] = d
        BY <2>3 DEF Visited, WalkTypes
      <4> QED
        BY <1>5, <3>1, <4>1
    <3>2. CASE u # x
      <4>1. depth'[u] = depth[u] /\ nodes'[u] = nodes[u]
        BY <2>3, <3>2 DEF Visited, WalkTypes
      <4> QED
        BY <1>6, <2>1, <4>1 DEF Seen
    <3> QED
      BY <3>1, <3>2
  <2> QED
    BY <2>2, <2>3
<1>7. ASSUME NEW i \in 1 .. Len(queue') PROVE Reach(h, queue'[i].url, queue'[i].depth)
  <2>1. queue'[i].url \in URLs /\ queue'[i].depth \in Nat
    BY EntryFacts DEF Taken
  <2>2. CASE i <= Len(queue) - 1
    <3>1. i + 1 \in 1 .. Len(queue) /\ queue'[i] = queue[i + 1]
      BY <2>2, DepthsTaken
    <3>2. Reach(Known, queue[i + 1].url, queue[i + 1].depth)
      BY <3>1 DEF PathInv
    <3>3. Reach(g, queue'[i].url, queue'[i].depth)
      BY <1>2, <3>1, <3>2
    <3> QED
      BY <1>4, <2>1, <3>3
  <2>3. CASE ~(i <= Len(queue) - 1)
    <3>1. i \in Len(queue) .. Len(queue')
      BY <2>3 DEF Taken
    <3>2. queue'[i].depth = d + 1 /\ queue'[i].url \in h[x]
      BY <1>3, <3>1 DEF Taken
    <3>3. Reach(h, queue'[i].url, d + 1)
      BY <1>0, <1>5, <2>1, <3>2, PathExtends
    <3> QED
      BY <3>2, <3>3
  <2> QED
    BY <2>2, <2>3
<1> QED
  BY <1>3, <1>6, <1>7 DEF PathInv

\* The invariant holds at the start of the walk.
LEMMA WalkInit == Init => WalkInv
<1> SUFFICES ASSUME Init PROVE WalkInv
  OBVIOUS
<1> DEFINE e == [url |-> Root, depth |-> 0]
<1>0. Root \in URLs /\ MaxDepth \in Nat /\ queue = <<e>>
  BY DiscoveryAssumption DEF Init
<1>1. e \in Items /\ e.url = Root /\ e.depth = 0
  BY <1>0 DEF Items
<1> HIDE DEF e
<1>2. /\ Len(queue) = 1 /\ queue[1] = e /\ queue \in Seq(Items)
      /\ \A i \in 1 .. Len(queue) : queue[i] = e
  BY <1>0, <1>1
<1>3. \A u \in URLs : ~Seen(u) /\ nodes[u] = "none"
  BY DEF Init, Seen
<1>4. WalkTypes
  <2>1. ASSUME NEW s \in Services PROVE Spellings(s) = {}
    BY <1>3 DEF Spellings
  <2>2. \A s \in Services : IsFiniteSet(Spellings(s)) /\ Cardinality(Spellings(s)) = 0
    BY <2>1, FS_EmptySet
  <2>3. fetches = [s \in Services |-> 0]
    BY DEF Init
  <2> QED
    BY <1>0, <1>2, <2>2, <2>3 DEF Init, WalkTypes
<1>5. QueueInv
  BY <1>1, <1>2, <1>3 DEF QueueInv
<1>6. RootInv
  BY <1>0, <1>3 DEF RootInv, e
<1>7. EdgeInv
  BY <1>3 DEF EdgeInv, Known
<1>8. Reach(Known, Root, 0)
  BY <1>0, PathZero
<1>9. PathInv
  BY <1>1, <1>2, <1>3, <1>8 DEF PathInv
<1> QED
  BY <1>4, <1>5, <1>6, <1>7, <1>9 DEF WalkInv

\* Every step of the loop preserves it.
LEMMA WalkStep == WalkInv /\ [Next]_vars => WalkInv'
<1> SUFFICES ASSUME WalkInv, [Next]_vars PROVE WalkInv'
  OBVIOUS
<1>1. CASE Next
  <2>0. queue # <<>> /\ queue \in Seq(Items)
    BY <1>1 DEF Next, Skip, FetchOK, FetchFails, Fetch, WalkInv, WalkTypes
  <2>1. queue[1] \in Items
    BY <2>0
  <2>2. PICK x \in URLs : \E d \in 0 .. MaxDepth + 1 : queue[1] = [url |-> x, depth |-> d]
    BY <2>1 DEF Items
  <2>3. PICK d \in 0 .. MaxDepth + 1 : queue[1] = [url |-> x, depth |-> d]
    BY <2>2
  <2>4. Taken(x, d) /\ (Passed(x, d) \/ Visited(x, d))
    <3>1. CASE Skip
      BY <2>0, <2>3, <3>1, SkipTakes DEF WalkInv
    <3>2. CASE FetchOK
      BY <2>0, <2>3, <3>2, FetchOKTakes DEF WalkInv
    <3>3. CASE FetchFails
      BY <2>0, <2>3, <3>3, FetchFailsTakes DEF WalkInv
    <3> QED
      BY <1>1, <3>1, <3>2, <3>3 DEF Next
  <2> QED
    BY <2>4, TypesKept, QueueKept, RootKept, EdgesKept, PathsKept DEF WalkInv
<1>2. CASE UNCHANGED vars
  BY <1>2 DEF vars, WalkInv, WalkTypes, QueueInv, RootInv, EdgeInv, PathInv, Seen, Known,
                  Lists, Spellings
<1> QED
  BY <1>1, <1>2

\* The walk keeps it.
LEMMA WalkHolds == Spec => []WalkInv
  BY WalkInit, WalkStep, PTL DEF Spec

-----------------------------------------------------------------------------
(* The results.                                                             *)

\* What lists something was visited.
LEMMA KnownSeen == \A v \in URLs : \A w \in Known[v] : Seen(v)
  BY DEF Known, Seen

\* No node of a path was visited at a greater depth than the path has it.
LEMMA DepthAlongPath ==
  ASSUME WalkInv, NEW k \in Nat, NEW p \in [0 .. k -> URLs], NEW u, Path(Known, p, k, u)
  PROVE  \A i \in 0 .. k : Seen(p[i]) => depth[p[i]] <= i
<1> DEFINE Bad == {i \in 0 .. k : ~(Seen(p[i]) => depth[p[i]] <= i)}
<1> SUFFICES ASSUME Bad # {} PROVE FALSE
  OBVIOUS
<1>1. PICK m \in Bad : \A i \in Bad : m <= i
  <2>1. Bad \subseteq Nat
    OBVIOUS
  <2> HIDE DEF Bad
  <2> QED
    BY <2>1, LeastNatural
<1>2. m \in 0 .. k /\ Seen(p[m]) /\ ~(depth[p[m]] <= m)
  OBVIOUS
<1>3. m # 0
  BY <1>2 DEF WalkInv, RootInv, Path
<1>4. m - 1 \in 0 .. k - 1 /\ m - 1 \in 0 .. k /\ (m - 1) + 1 = m /\ ~(m <= m - 1)
  BY <1>2, <1>3
<1>5. p[m] \in Known[p[m - 1]] /\ p[m] \in URLs /\ p[m - 1] \in URLs
  BY <1>2, <1>4 DEF Path
<1>6. Seen(p[m - 1])
  BY <1>5, KnownSeen
<1>7. depth[p[m - 1]] <= m - 1
  BY <1>1, <1>4, <1>6
<1>8. depth[p[m]] <= depth[p[m - 1]] + 1
  BY <1>2, <1>5 DEF WalkInv, EdgeInv
<1>9. depth[p[m]] \in Nat /\ depth[p[m - 1]] \in Nat
  BY <1>5, DiscoveryAssumption DEF WalkInv, WalkTypes
<1> QED
  BY <1>2, <1>4, <1>7, <1>8, <1>9

\* The invariant shows the types.
LEMMA WalkInvTypes == WalkInv => TypeOK
<1> SUFFICES ASSUME WalkInv PROVE TypeOK
  OBVIOUS
<1>1. queue \in Seq(Items)
  BY DEF WalkInv, WalkTypes
<1>2. \A j \in 1 .. Len(queue) : queue[j] \in Items
  BY <1>1
<1>3. ToSet(queue) \subseteq Items
  BY <1>2 DEF ToSet
<1> QED
  BY <1>3 DEF WalkInv, WalkTypes, TypeOK

\* The invariant shows that depths are distances.
LEMMA WalkInvDepths == WalkInv => DepthIsDistance
<1> SUFFICES ASSUME WalkInv, NEW u \in URLs, Seen(u)
             PROVE  u \in Within[depth[u]] /\ (depth[u] > 0 => u \notin Within[depth[u] - 1])
  BY DEF DepthIsDistance
<1>1. PICK d \in Nat : d = depth[u]
  BY DiscoveryAssumption DEF WalkInv, WalkTypes
<1>2. u \in Within[d]
  <2>1. Reach(Known, u, d)
    BY <1>1 DEF WalkInv, PathInv
  <2> QED
    BY <2>1, WithinIsReach
<1>3. ASSUME d > 0, u \in Within[d - 1] PROVE FALSE
  <2>1. d - 1 \in Nat
    BY <1>3
  <2>2. Reach(Known, u, d - 1)
    BY <1>3, <2>1, WithinIsReach
  <2>3. PICK k \in 0 .. d - 1 : \E p \in [0 .. k -> URLs] : Path(Known, p, k, u)
    BY <2>2 DEF Reach
  <2>4. PICK p \in [0 .. k -> URLs] : Path(Known, p, k, u)
    BY <2>3
  <2>5. k \in Nat /\ k \in 0 .. k /\ ~(d <= k)
    OBVIOUS
  <2>6. Seen(p[k]) => depth[p[k]] <= k
    BY <2>4, <2>5, DepthAlongPath
  <2>7. p[k] = u
    BY <2>4 DEF Path
  <2> QED
    BY <1>1, <2>5, <2>6, <2>7
<1> QED
  BY <1>1, <1>2, <1>3

\* The invariant shows that the graph is complete when the queue is empty.
LEMMA WalkInvFinds == WalkInv => FindsAllWithinDepth
<1> SUFFICES ASSUME WalkInv, queue = <<>>
             PROVE  {u \in URLs : Seen(u)} = Within[MaxDepth]
  BY DEF FindsAllWithinDepth, Done
<1>0. MaxDepth \in Nat /\ Root \in URLs
  BY DiscoveryAssumption
<1>1. Within[MaxDepth] = {u \in URLs : Reach(Known, u, MaxDepth)}
  BY <1>0, WithinIsReach
<1>2. ASSUME NEW u \in URLs, Seen(u) PROVE Reach(Known, u, MaxDepth)
  <2>1. depth[u] \in Nat /\ depth[u] <= MaxDepth
    BY <1>0 DEF WalkInv, WalkTypes
  <2>2. Reach(Known, u, depth[u])
    BY <1>2 DEF WalkInv, PathInv
  <2> QED
    BY <1>0, <2>1, <2>2, ReachGrows
<1>3. ASSUME NEW u \in URLs, Reach(Known, u, MaxDepth) PROVE Seen(u)
  <2>1. PICK k \in 0 .. MaxDepth : \E p \in [0 .. k -> URLs] : Path(Known, p, k, u)
    BY <1>3 DEF Reach
  <2>2. PICK p \in [0 .. k -> URLs] : Path(Known, p, k, u)
    BY <2>1
  <2>3. CASE k = 0
    <3>1. u = Root
      BY <2>2, <2>3 DEF Path
    <3>2. Seen(Root)
      <4>1. << [url |-> Root, depth |-> 0] >> # <<>>
        OBVIOUS
      <4> QED
        BY <4>1 DEF WalkInv, RootInv
    <3> QED
      BY <3>1, <3>2
  <2>4. CASE k # 0
    <3>1. k \in Nat /\ k - 1 \in 0 .. k - 1 /\ k - 1 \in 0 .. k /\ (k - 1) + 1 = k
      BY <1>0, <2>4
    <3>2. u \in Known[p[k - 1]] /\ p[k - 1] \in URLs
      BY <2>2, <3>1 DEF Path
    <3>3. depth[p[k - 1]] <= k - 1
      BY <2>2, <3>1, <3>2, KnownSeen, DepthAlongPath
    <3>4. depth[p[k - 1]] # MaxDepth
      BY <1>0, <3>3
    <3>5. Len(queue) = 0
      OBVIOUS
    <3> QED
      BY <3>2, <3>4, <3>5 DEF WalkInv, EdgeInv
  <2> QED
    BY <2>3, <2>4
<1> QED
  BY <1>1, <1>2, <1>3

\* The variables of the walk keep their types: whatever the services list, nothing is
\* queued more than one level below the limit, and a service is asked exactly once for
\* each spelling of its url that DiscoverGraph visited.
THEOREM TypeCorrect == Spec => []TypeOK
  BY WalkHolds, WalkInvTypes, PTL

\* However the services refer to each other and whichever fetches fail, DiscoverGraph
\* visits each at its distance from the root in the graph known so far.
THEOREM DepthsAreDistances == Spec => []DepthIsDistance
  BY WalkHolds, WalkInvDepths, PTL

\* When the loop of DiscoverGraph ends, the graph has exactly the urls that are within
\* maxDepth of the root.
THEOREM FindsExactlyTheNear == Spec => []FindsAllWithinDepth
  BY WalkHolds, WalkInvFinds, PTL
=============================================================================
