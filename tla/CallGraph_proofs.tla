--------------------------- MODULE CallGraph_proofs ---------------------------
(***************************************************************************)
(* The walk of tool_callgraph on every program, however large: an answer   *)
(* that is not flagged is the whole call graph within the depth limit, and *)
(* depths are distances, because the queue is first in, first out.         *)
(***************************************************************************)
EXTENDS CallGraph, SequenceTheorems, WellFoundedInduction, TLAPS

-----------------------------------------------------------------------------
\* A set of numbers has a least one: induction over distances.
LEMMA Least ==
    ASSUME NEW T \in SUBSET Nat, T # {}
    PROVE  \E m \in T : \A k \in T : m <= k
<1>1. PICK m \in T : \A k \in T : ~(<<k, m>> \in OpToRel(<, Nat))
  BY NatLessThanWellFounded, WFMin, Zenon
<1>2. \A k \in T : ~(k < m)
  BY <1>1 DEF OpToRel
<1> QED
  BY <1>2

\* A step that leaves the program and the request alone leaves distances alone.
LEMMA InputKept ==
    ASSUME UNCHANGED input
    PROVE  Within' = Within
  BY DEF input, Within, Callees

-----------------------------------------------------------------------------
\* One step of Within, and functions that follow it up to n.
OneCallMore(S) == S \cup UNION {Callees(f) : f \in S \cap Func}
Levels(g, n) == g[0] = {root} /\ \A i \in 1 .. n : g[i] = OneCallMore(g[i - 1])

\* Sets of functions within k calls exist up to any number of calls.
LEMMA LevelsExist == \A n \in Nat : \E g : Levels(g, n)
<1> DEFINE T == {n \in Nat : ~\E g : Levels(g, n)}
<1> SUFFICES ASSUME T # {} PROVE FALSE
  OBVIOUS
<1>1. PICK n \in T : \A k \in T : n <= k
  BY Least
<1>2. n # 0
  <2>1. Levels([i \in {0} |-> {root}], 0)
    BY DEF Levels
  <2> QED
    BY <2>1
<1>3. n - 1 \in Nat \ T
  BY <1>1, <1>2
<1>4. PICK g : Levels(g, n - 1)
  BY <1>3
<1> DEFINE h == [i \in 0 .. n |-> IF i < n THEN g[i] ELSE OneCallMore(g[n - 1])]
<1>5. h[0] = {root}
  BY <1>2, <1>4 DEF Levels
<1>6. ASSUME NEW i \in 1 .. n PROVE h[i] = OneCallMore(h[i - 1])
  <2>1. h[i - 1] = g[i - 1]
    OBVIOUS
  <2>2. CASE i = n
    BY <2>1, <2>2
  <2>3. CASE i < n
    <3>1. h[i] = g[i] /\ i \in 1 .. n - 1
      BY <2>3
    <3> QED
      BY <1>4, <2>1, <3>1 DEF Levels
  <2> QED
    BY <2>2, <2>3
<1>7. Levels(h, n)
  BY <1>5, <1>6 DEF Levels
<1> QED
  BY <1>7

\* And there is one choice of them only.
LEMMA LevelsAgree ==
    ASSUME NEW g, NEW h, NEW n \in Nat, Levels(g, n), Levels(h, n)
    PROVE  g[n] = h[n]
<1> DEFINE T == {k \in 0 .. n : g[k] # h[k]}
<1> SUFFICES ASSUME T # {} PROVE FALSE
  OBVIOUS
<1>0. T \in SUBSET Nat
  OBVIOUS
<1>1. PICK k \in T : \A i \in T : k <= i
  <2> HIDE DEF T
  <2> QED
    BY <1>0, Least
<1>2. k # 0
  BY DEF Levels
<1>3. k - 1 \in (0 .. n) \ T /\ k \in 1 .. n
  BY <1>1, <1>2
<1>4. g[k - 1] = h[k - 1]
  BY <1>3
<1>5. g[k] = OneCallMore(g[k - 1]) /\ h[k] = OneCallMore(h[k - 1])
  BY <1>3 DEF Levels
<1> QED
  BY <1>4, <1>5

\* Within satisfies the equation it is defined by.
LEMMA WithinDef ==
    /\ Within[0] = {root}
    /\ \A d \in Nat \ {0} : Within[d] = OneCallMore(Within[d - 1])
<1> DEFINE Eq(g) == g = [d \in Nat |-> IF d = 0 THEN {root} ELSE OneCallMore(g[d - 1])]
           L(d) == CHOOSE g : Levels(g, d)
           F == [d \in Nat |-> L(d)[d]]
<1>1. \A d \in Nat : Levels(L(d), d)
  BY LevelsExist
<1> HIDE DEF L
<1>2. F[0] = {root}
  BY <1>1 DEF Levels
<1>3. ASSUME NEW d \in Nat \ {0} PROVE F[d] = OneCallMore(F[d - 1])
  <2>1. Levels(L(d), d - 1) /\ L(d)[d] = OneCallMore(L(d)[d - 1])
    BY <1>1 DEF Levels
  <2>2. d - 1 \in Nat /\ Levels(L(d - 1), d - 1)
    BY <1>1
  <2>3. L(d)[d - 1] = L(d - 1)[d - 1]
    BY <2>1, <2>2, LevelsAgree
  <2>4. F[d] = L(d)[d] /\ F[d - 1] = L(d - 1)[d - 1]
    BY <2>2
  <2> QED
    BY <2>1, <2>3, <2>4
<1>4. Eq(F)
  <2> DEFINE G == [d \in Nat |-> IF d = 0 THEN {root} ELSE OneCallMore(F[d - 1])]
  <2>1. \A d \in Nat : F[d] = G[d]
    BY <1>2, <1>3
  <2>2. F = [d \in Nat |-> F[d]] /\ G = [d \in Nat |-> G[d]]
    OBVIOUS
  <2> HIDE DEF F, G
  <2>3. F = G
    BY <2>1, <2>2
  <2> QED
    BY <2>3 DEF G
<1>5. Within = CHOOSE g : Eq(g)
  BY DEF Within, OneCallMore
<1>6. Eq(Within)
  <2> HIDE DEF Eq, F
  <2> QED
    BY <1>4, <1>5
<1> HIDE DEF F
<1> QED
  BY <1>6

\* What is within d calls is within more.
LEMMA WithinGrows ==
    ASSUME NEW d \in Nat, NEW e \in Nat, d <= e
    PROVE  Within[d] \subseteq Within[e]
<1> DEFINE T == {k \in Nat : d <= k /\ ~(Within[d] \subseteq Within[k])}
<1> SUFFICES ASSUME T # {} PROVE FALSE
  OBVIOUS
<1>0. T \in SUBSET Nat
  OBVIOUS
<1>1. PICK k \in T : \A i \in T : k <= i
  <2> HIDE DEF T
  <2> QED
    BY <1>0, Least
<1>2. k # d /\ k >= d /\ k \in Nat \ {0}
  OBVIOUS
<1>3. k - 1 \in Nat \ T /\ d <= k - 1
  BY <1>1, <1>2
<1>4. Within[d] \subseteq Within[k - 1]
  BY <1>3
<1>5. Within[k - 1] \subseteq Within[k]
  BY <1>2, WithinDef DEF OneCallMore
<1> QED
  BY <1>4, <1>5

\* A callee is one call further away than its caller.
LEMMA WithinCall ==
    ASSUME NEW d \in Nat, NEW f \in Within[d] \cap Func, NEW n \in Callees(f)
    PROVE  n \in Within[d + 1]
<1>1. d + 1 \in Nat \ {0} /\ d + 1 - 1 = d
  OBVIOUS
<1>2. Within[d + 1] = OneCallMore(Within[d])
  BY <1>1, WithinDef
<1> QED
  BY <1>2 DEF OneCallMore

-----------------------------------------------------------------------------
TypeInv == TypeOK /\ limit.depth >= 1

Queued(n) == \E j \in DOMAIN bfs_queue : bfs_queue[j][1] = n

\* The queue holds nodes with their depths, each once, and not the function that
\* is being scanned.
WalkInv ==
    /\ phase = "start" => DOMAIN nodes = {} /\ edges = <<>>
    /\ phase \in {"start", "walk"} => limit_reason = "none"
    /\ phase # "walk" => cur[1] = None
    /\ phase = "walk" => root \in DOMAIN nodes /\ nodes[root] = 0
    /\ cur[1] # None => /\ cur[1] \in Func \cap DOMAIN nodes
                        /\ cur[2] = nodes[cur[1]] /\ cur[2] < limit.depth
                        /\ phase = "walk" => ~Queued(cur[1])
    /\ phase = "walk" =>
          \A j \in DOMAIN bfs_queue :
              /\ bfs_queue[j][1] \in DOMAIN nodes
              /\ bfs_queue[j][2] = nodes[bfs_queue[j][1]]
              /\ \A k \in DOMAIN bfs_queue : bfs_queue[j][1] = bfs_queue[k][1] => j = k

\* A node was reached by a path as long as its depth.
DepthInv == \A n \in DOMAIN nodes : nodes[n] <= limit.depth /\ n \in Within[nodes[n]]

\* What is queued is d or d + 1 calls deep, and nothing is deeper.
Front(d) ==
    /\ \A j \in DOMAIN bfs_queue : d <= bfs_queue[j][2] /\ bfs_queue[j][2] <= d + 1
    /\ \A n \in DOMAIN nodes : nodes[n] <= d + 1

\* First in, first out: the queue is sorted by depth, and the function that is
\* scanned, or the head, is at its front.
QueueInv ==
    phase = "walk" =>
        /\ \A j, k \in DOMAIN bfs_queue : j <= k => bfs_queue[j][2] <= bfs_queue[k][2]
        /\ cur[1] # None => Front(cur[2])
        /\ cur[1] = None /\ bfs_queue # <<>> => Front(bfs_queue[1][2])

\* The call of n by f is in the graph, with n at most one call deeper.
Drawn(f, n) == \E i \in DOMAIN edges : edges[i] = <<f, n>>
Handled(f, n) == n \in DOMAIN nodes /\ nodes[n] <= nodes[f] + 1 /\ Drawn(f, n)

\* Unless a function was capped, the calls of every function that has been
\* scanned are in the graph, and so are the calls passed in the current one.
ScanInv ==
    phase = "walk" =>
        /\ cur[1] # None =>
              \A i \in DOMAIN calls[cur[1]] : i < at => calls[cur[1]][i] \in seen
        /\ ~per_func_capped =>
              /\ cur[1] # None => \A n \in seen : Handled(cur[1], n)
              /\ \A f \in Func \cap DOMAIN nodes :
                    f # cur[1] /\ ~Queued(f) /\ nodes[f] < limit.depth =>
                        \A n \in Callees(f) : Handled(f, n)

\* An edge is a call of a function that has been scanned, or is being scanned and
\* remembers it; no call is drawn twice.
EdgeInv ==
    /\ \A i \in DOMAIN edges :
          /\ edges[i][1] \in Func \cap DOMAIN nodes
          /\ nodes[edges[i][1]] < limit.depth
          /\ edges[i][2] \in Callees(edges[i][1])
          /\ phase = "walk" =>
                /\ edges[i][2] \in DOMAIN nodes
                /\ ~Queued(edges[i][1])
                /\ edges[i][1] = cur[1] => edges[i][2] \in seen
    /\ \A i, j \in DOMAIN edges : edges[i] = edges[j] => i = j

Core == TypeInv /\ WalkInv /\ DepthInv /\ QueueInv /\ ScanInv /\ EdgeInv /\ EdgesMeetNodes
Inv == Core /\ DepthIsDistance /\ UnflaggedIsWhole

-----------------------------------------------------------------------------
\* As far as everything shallower has been scanned, the graph is complete.
LEMMA CompleteUpTo ==
    ASSUME TypeInv, WalkInv, ScanInv, phase = "walk", ~per_func_capped,
           NEW d \in Nat, d <= limit.depth,
           \A j \in DOMAIN bfs_queue : d <= bfs_queue[j][2],
           cur[1] # None => d <= cur[2]
    PROVE  \A k \in 0 .. d : \A n \in Within[k] : n \in DOMAIN nodes /\ nodes[n] <= k
<1> DEFINE Shown(k) == \A n \in Within[k] : n \in DOMAIN nodes /\ nodes[n] <= k
           T == {k \in 0 .. d : ~Shown(k)}
<1> SUFFICES ASSUME T # {} PROVE FALSE
  OBVIOUS
<1>0. T \in SUBSET Nat
  OBVIOUS
<1>1. PICK k \in T : \A i \in T : k <= i
  <2> HIDE DEF T
  <2> QED
    BY <1>0, Least
<1>2. Shown(0)
  BY WithinDef DEF WalkInv
<1>3. k \in Nat \ {0} /\ k <= d /\ ~Shown(k)
  BY <1>2
<1>4. Shown(k - 1)
  <2>1. k - 1 \in (0 .. d) \ T
    BY <1>1, <1>3
  <2> QED
    BY <2>1
<1>5. Within[k] = Within[k - 1] \cup UNION {Callees(f) : f \in Within[k - 1] \cap Func}
  BY <1>3, WithinDef DEF OneCallMore
<1>6. \A n \in DOMAIN nodes : nodes[n] \in Nat
  BY DEF TypeInv, TypeOK
<1>7. limit.depth \in Int
  BY DEF TypeInv, TypeOK, Limit
<1>8. ASSUME NEW n \in Within[k] PROVE n \in DOMAIN nodes /\ nodes[n] <= k
  <2>1. CASE n \in Within[k - 1]
    BY <1>3, <1>4, <1>6, <2>1
  <2>2. ASSUME NEW f \in Within[k - 1] \cap Func, n \in Callees(f)
        PROVE  n \in DOMAIN nodes /\ nodes[n] <= k
    <3>1. f \in DOMAIN nodes /\ nodes[f] <= k - 1
      BY <1>4
    <3>2. nodes[f] < d
      BY <1>3, <1>6, <3>1
    <3>3. ~Queued(f)
      BY <3>2, <1>6, <3>1 DEF Queued, WalkInv
    <3>4. f # cur[1]
      <4> SUFFICES ASSUME f = cur[1] PROVE FALSE
        OBVIOUS
      <4>1. cur[1] # None
        BY CallGraphAssumption DEF Node
      <4>2. cur[2] = nodes[f] /\ d <= cur[2]
        BY <4>1 DEF WalkInv
      <4> QED
        BY <1>6, <3>1, <3>2, <4>2
    <3>5. nodes[f] < limit.depth
      BY <1>6, <1>7, <3>1, <3>2
    <3>6. Handled(f, n)
      BY <2>2, <3>1, <3>3, <3>4, <3>5 DEF ScanInv
    <3> QED
      BY <1>3, <1>6, <3>1, <3>6 DEF Handled
  <2> QED
    BY <1>5, <2>1, <2>2
<1> QED
  BY <1>3, <1>8

\* While the walk goes on, every depth is a distance.
LEMMA WalkDepths ==
    ASSUME TypeInv, WalkInv, DepthInv, QueueInv, ScanInv, phase = "walk", ~per_func_capped
    PROVE  \A n \in DOMAIN nodes : AtDistance(n, nodes[n])
<1> DEFINE d == IF cur[1] # None THEN cur[2]
                ELSE IF bfs_queue # <<>> THEN bfs_queue[1][2] ELSE limit.depth
<1>0. \A n \in DOMAIN nodes : nodes[n] \in Nat
  BY DEF TypeInv, TypeOK
<1>1. limit.depth \in Nat /\ cur[2] \in Nat
      /\ DOMAIN bfs_queue = 1 .. Len(bfs_queue) /\ Len(bfs_queue) \in Nat
      /\ \A j \in DOMAIN bfs_queue : bfs_queue[j][2] \in Nat
  BY LenProperties DEF TypeInv, TypeOK, Limit
<1>2. bfs_queue # <<>> => 1 \in DOMAIN bfs_queue
  BY <1>1, EmptySeq DEF TypeInv, TypeOK
<1>3. d \in Nat /\ d <= limit.depth
  <2>1. bfs_queue # <<>> => bfs_queue[1][2] <= limit.depth
    BY <1>2 DEF WalkInv, DepthInv
  <2> QED
    BY <1>1, <1>2, <2>1 DEF WalkInv
<1>4. /\ \A j \in DOMAIN bfs_queue : d <= bfs_queue[j][2]
      /\ cur[1] # None => d <= cur[2]
      /\ \A n \in DOMAIN nodes : nodes[n] <= d + 1
  <2>1. CASE cur[1] # None
    BY <1>0, <1>1, <2>1 DEF QueueInv, Front
  <2>2. CASE cur[1] = None /\ bfs_queue # <<>>
    <3>1. Front(bfs_queue[1][2]) /\ d = bfs_queue[1][2]
      BY <2>2 DEF QueueInv
    <3> QED
      BY <2>2, <3>1 DEF Front
  <2>3. CASE cur[1] = None /\ bfs_queue = <<>>
    <3>1. d = limit.depth /\ DOMAIN bfs_queue = {}
      BY <2>3
    <3>2. \A n \in DOMAIN nodes : nodes[n] <= limit.depth /\ nodes[n] \in Nat
      BY <1>0 DEF DepthInv
    <3>3. limit.depth <= limit.depth + 1 /\ limit.depth \in Nat
      BY <1>1
    <3>4. ASSUME NEW n \in DOMAIN nodes PROVE nodes[n] <= limit.depth + 1
      <4>1. nodes[n] <= limit.depth /\ nodes[n] \in Nat
        BY <3>2
      <4> QED
        BY <3>3, <4>1
    <3> QED
      BY <2>3, <3>1, <3>4
  <2> QED
    BY <2>1, <2>2, <2>3
<1> HIDE DEF d
<1>5. \A k \in 0 .. d : \A n \in Within[k] : n \in DOMAIN nodes /\ nodes[n] <= k
  BY <1>3, <1>4, CompleteUpTo
<1> SUFFICES ASSUME NEW n \in DOMAIN nodes, nodes[n] > 0, n \in Within[nodes[n] - 1]
             PROVE  FALSE
  BY DEF AtDistance, DepthInv
<1>6. nodes[n] \in Nat /\ nodes[n] <= d + 1
  BY <1>0, <1>4
<1>7. nodes[n] - 1 \in 0 .. d
  BY <1>3, <1>6
<1>8. nodes[n] <= nodes[n] - 1
  BY <1>5, <1>7
<1> QED
  BY <1>6, <1>8

\* When nothing is left to scan, the graph is whole.
LEMMA WalkWhole ==
    ASSUME TypeInv, WalkInv, DepthInv, ScanInv, EdgeInv, phase = "walk", ~per_func_capped,
           cur[1] = None, bfs_queue = <<>>
    PROVE  IsWholeGraph
<1>1. limit.depth \in Nat \ {0} /\ \A n \in DOMAIN nodes : nodes[n] \in Nat
  BY DEF TypeInv, TypeOK, Limit
<1>2. DOMAIN bfs_queue = {}
  OBVIOUS
<1>3. \A k \in 0 .. limit.depth : \A n \in Within[k] : n \in DOMAIN nodes /\ nodes[n] <= k
  BY <1>1, <1>2, CompleteUpTo
<1>4. ASSUME NEW n \in DOMAIN nodes PROVE n \in Within[limit.depth]
  <2>1. nodes[n] \in Nat /\ nodes[n] <= limit.depth /\ n \in Within[nodes[n]]
    BY <1>1 DEF DepthInv
  <2> QED
    BY <1>1, <2>1, WithinGrows
<1>5. DOMAIN nodes = Within[limit.depth]
  <2>1. limit.depth \in 0 .. limit.depth
    BY <1>1
  <2>2. \A n \in Within[limit.depth] : n \in DOMAIN nodes
    BY <1>3, <2>1
  <2> HIDE DEF Within
  <2> QED
    BY <1>4, <2>2
<1> DEFINE Whole == UNION {{f} \X Callees(f) : f \in Within[limit.depth - 1] \cap Func}
<1>6. ASSUME NEW i \in DOMAIN edges PROVE edges[i] \in Whole
  <2>1. edges[i][1] \in Func \cap DOMAIN nodes /\ nodes[edges[i][1]] < limit.depth
        /\ edges[i][2] \in Callees(edges[i][1])
    BY DEF EdgeInv
  <2>2. edges[i] = <<edges[i][1], edges[i][2]>>
    BY DEF TypeInv, TypeOK
  <2>3. limit.depth - 1 \in Nat /\ nodes[edges[i][1]] <= limit.depth - 1
    BY <1>1, <2>1
  <2>4. edges[i][1] \in Within[limit.depth - 1]
    BY <1>1, <2>1, <2>3, WithinGrows DEF DepthInv
  <2> QED
    BY <2>1, <2>2, <2>4
<1>7. ASSUME NEW e \in Whole PROVE \E i \in DOMAIN edges : edges[i] = e
  <2>1. PICK f \in Within[limit.depth - 1] \cap Func : e \in {f} \X Callees(f)
    OBVIOUS
  <2>2. PICK n \in Callees(f) : e = <<f, n>>
    BY <2>1
  <2>3. f \in DOMAIN nodes /\ nodes[f] <= limit.depth - 1
    BY <1>1, <1>3, <2>1
  <2>4. nodes[f] < limit.depth /\ ~Queued(f) /\ f # cur[1]
    BY <1>1, <1>2, <2>1, <2>3, CallGraphAssumption DEF Queued, Node
  <2>5. Handled(f, n)
    BY <2>1, <2>3, <2>4 DEF ScanInv
  <2> QED
    BY <2>2, <2>5 DEF Handled, Drawn
<1>8. {edges[i] : i \in DOMAIN edges} = Whole
  BY <1>6, <1>7
<1> QED
  BY <1>5, <1>8 DEF IsWholeGraph, EdgeInv

-----------------------------------------------------------------------------
\* The queue as a sequence, before and after its head is taken.
LEMMA QueueFacts ==
    ASSUME TypeInv
    PROVE  /\ Len(bfs_queue) \in Nat /\ DOMAIN bfs_queue = 1 .. Len(bfs_queue)
           /\ \A j \in DOMAIN bfs_queue :
                 /\ bfs_queue[j] \in Node \X Nat /\ bfs_queue[j][2] \in Nat
                 /\ bfs_queue[j] = <<bfs_queue[j][1], bfs_queue[j][2]>>
           /\ bfs_queue # <<>> => 1 \in DOMAIN bfs_queue /\ Head(bfs_queue) = bfs_queue[1]
<1>1. Len(bfs_queue) \in Nat /\ bfs_queue \in [1 .. Len(bfs_queue) -> Node \X Nat]
      /\ DOMAIN bfs_queue = 1 .. Len(bfs_queue)
  BY LenProperties DEF TypeInv, TypeOK
<1>2. bfs_queue # <<>> => 1 \in DOMAIN bfs_queue /\ Head(bfs_queue) = bfs_queue[1]
  BY <1>1, EmptySeq DEF TypeInv, TypeOK
<1> QED
  BY <1>1, <1>2

\* The queue without its head, element by element.
LEMMA TailFacts ==
    ASSUME TypeInv, bfs_queue # <<>>, bfs_queue' = Tail(bfs_queue)
    PROVE  /\ bfs_queue' \in Seq(Node \X Nat) /\ DOMAIN bfs_queue' = 1 .. Len(bfs_queue')
           /\ bfs_queue' # <<>> => 1 \in DOMAIN bfs_queue'
           /\ \A j \in DOMAIN bfs_queue' :
                 j \in Nat \ {0} /\ j + 1 \in DOMAIN bfs_queue /\ bfs_queue'[j] = bfs_queue[j + 1]
           /\ \A j \in DOMAIN bfs_queue \ {1} :
                 j - 1 \in DOMAIN bfs_queue' /\ bfs_queue'[j - 1] = bfs_queue[j]
<1> DEFINE S == Node \X Nat
           t == Tail(bfs_queue)
<1>1. /\ bfs_queue \in Seq(S) /\ Len(bfs_queue) \in Nat
      /\ DOMAIN bfs_queue = 1 .. Len(bfs_queue)
  BY QueueFacts DEF TypeInv, TypeOK
<1> HIDE DEF S
<1>2. /\ t \in Seq(S) /\ Len(t) = Len(bfs_queue) - 1
      /\ \A j \in 1 .. Len(t) : t[j] = bfs_queue[j + 1]
  BY <1>1, HeadTailProperties
<1>3. DOMAIN t = 1 .. Len(t) /\ Len(t) \in Nat /\ (t # <<>> => 1 \in 1 .. Len(t))
  BY <1>2, LenProperties, EmptySeq
<1> HIDE DEF t
<1>4. \A j \in DOMAIN t : j \in Nat \ {0} /\ j + 1 \in DOMAIN bfs_queue /\ t[j] = bfs_queue[j + 1]
  BY <1>1, <1>2, <1>3
<1>5. \A j \in DOMAIN bfs_queue \ {1} : j - 1 \in DOMAIN t /\ t[j - 1] = bfs_queue[j]
  <2> TAKE j \in DOMAIN bfs_queue \ {1}
  <2>1. j - 1 \in 1 .. Len(t) /\ j - 1 + 1 = j
    BY <1>1, <1>2
  <2> QED
    BY <1>2, <1>3, <2>1
<1>6. t = bfs_queue'
  BY DEF t
<1> QED
  BY <1>2, <1>3, <1>4, <1>5, <1>6 DEF S

\* Steps that leave the graph alone keep what is said of its nodes, and the
\* edges as calls.
LEMMA GraphKept ==
    ASSUME Core, UNCHANGED <<input, nodes, edges>>
    PROVE  /\ DepthInv'
           /\ \A f, n : Handled(f, n)' = Handled(f, n)
           /\ \A f : Callees(f)' = Callees(f)
<1>1. Within' = Within
  BY InputKept
<1>2. limit' = limit /\ calls' = calls
  BY DEF input
<1>3. DepthInv'
  BY <1>1, <1>2 DEF Core, DepthInv
<1> QED
  BY <1>2, <1>3 DEF Handled, Drawn, Callees

\* Taking the next function keeps the types.
LEMMA DequeueType == Core /\ Dequeue => TypeInv'
<1> SUFFICES ASSUME Core, Dequeue PROVE TypeInv'
  OBVIOUS
<1>1. bfs_queue' \in Seq(Node \X Nat)
  BY TailFacts DEF Dequeue, Core
<1>2. Head(bfs_queue) \in Node \X Nat
  BY QueueFacts DEF Dequeue, Core
<1>3. cur' \in (Func \cup {None}) \X Nat
  BY <1>2 DEF Dequeue, Expandable, scan, Core, TypeInv, TypeOK
<1> QED
  BY <1>1, <1>3 DEF Dequeue, scan, input, Core, TypeInv, TypeOK

\* Taking the next function: it was at the front, and is not scanned yet.
LEMMA DequeueStep == Core /\ Dequeue => Core'
<1> SUFFICES ASSUME Core, Dequeue PROVE Core'
  OBVIOUS
<1> USE DEF Core
<1>1. /\ phase = "walk" /\ phase' = "walk" /\ cur[1] = None /\ None \notin Func
      /\ bfs_queue # <<>> /\ bfs_queue' = Tail(bfs_queue)
      /\ UNCHANGED <<input, nodes, edges, limit_reason, per_func_capped>>
      /\ UNCHANGED <<calls, root, limit>>
  BY CallGraphAssumption DEF Dequeue, Idle, input, Node
<1>2. Head(bfs_queue) = bfs_queue[1] /\ 1 \in DOMAIN bfs_queue
      /\ \A j \in DOMAIN bfs_queue : j \in Nat
  BY <1>1, QueueFacts
<1>3. /\ \A j \in DOMAIN bfs_queue' :
            j \in Nat \ {0} /\ j + 1 \in DOMAIN bfs_queue /\ bfs_queue'[j] = bfs_queue[j + 1]
      /\ \A j \in DOMAIN bfs_queue \ {1} :
            j - 1 \in DOMAIN bfs_queue' /\ bfs_queue'[j - 1] = bfs_queue[j]
      /\ bfs_queue' # <<>> => 1 \in DOMAIN bfs_queue'
  BY <1>1, TailFacts
<1>4. \/ /\ Expandable(bfs_queue[1]) /\ cur' = bfs_queue[1]
         /\ at' = 1 /\ seen' = {}
      \/ ~Expandable(bfs_queue[1]) /\ UNCHANGED <<cur, at, seen>>
  BY <1>2 DEF Dequeue, scan
<1>5. \A n : Queued(n)' => Queued(n)
  BY <1>3 DEF Queued
<1>6. \A n : Queued(n) => Queued(n)' \/ n = bfs_queue[1][1]
  BY <1>3 DEF Queued
<1>7. \A n : n = bfs_queue[1][1] => ~Queued(n)'
  <2> SUFFICES ASSUME NEW j \in DOMAIN bfs_queue', bfs_queue'[j][1] = bfs_queue[1][1]
               PROVE  FALSE
    BY DEF Queued
  <2>1. j \in Nat \ {0} /\ j + 1 \in DOMAIN bfs_queue /\ bfs_queue'[j] = bfs_queue[j + 1]
    BY <1>3
  <2>2. j + 1 = 1
    BY <1>1, <1>2, <2>1 DEF WalkInv
  <2> QED
    BY <2>1, <2>2
<1>w. WalkInv'
  <2>1. cur'[1] # None =>
           /\ cur'[1] \in Func \cap DOMAIN nodes
           /\ cur'[2] = nodes[cur'[1]] /\ cur'[2] < limit.depth /\ ~Queued(cur[1])'
    BY <1>1, <1>2, <1>4, <1>7 DEF Expandable, WalkInv
  <2>2. ASSUME NEW j \in DOMAIN bfs_queue'
        PROVE  /\ bfs_queue'[j][1] \in DOMAIN nodes
               /\ bfs_queue'[j][2] = nodes[bfs_queue'[j][1]]
               /\ \A k \in DOMAIN bfs_queue' : bfs_queue'[j][1] = bfs_queue'[k][1] => j = k
    <3>1. j \in Nat /\ j + 1 \in DOMAIN bfs_queue /\ bfs_queue'[j] = bfs_queue[j + 1]
      BY <1>3
    <3>2. ASSUME NEW k \in DOMAIN bfs_queue', bfs_queue'[j][1] = bfs_queue'[k][1] PROVE j = k
      <4>1. k \in Nat /\ k + 1 \in DOMAIN bfs_queue /\ bfs_queue'[k] = bfs_queue[k + 1]
        BY <1>3
      <4>2. j + 1 = k + 1
        BY <1>1, <3>1, <3>2, <4>1 DEF WalkInv
      <4> QED
        BY <3>1, <4>1, <4>2
    <3> QED
      BY <1>1, <3>1, <3>2 DEF WalkInv
  <2> QED
    BY <1>1, <2>1, <2>2 DEF WalkInv
<1>q. QueueInv'
  <2>0. \A j \in DOMAIN bfs_queue : bfs_queue[j][2] \in Nat
    BY QueueFacts
  <2>n. \A n \in DOMAIN nodes : nodes[n] \in Nat
    BY DEF TypeInv, TypeOK
  <2>1. Front(bfs_queue[1][2])
    BY <1>1 DEF QueueInv
  <2>2. ASSUME NEW j \in DOMAIN bfs_queue', NEW k \in DOMAIN bfs_queue', j <= k
        PROVE  bfs_queue'[j][2] <= bfs_queue'[k][2]
    <3>1. j + 1 \in DOMAIN bfs_queue /\ k + 1 \in DOMAIN bfs_queue /\ j + 1 <= k + 1
      BY <1>3, <2>2
    <3>2. bfs_queue[j + 1][2] <= bfs_queue[k + 1][2]
      BY <1>1, <3>1 DEF QueueInv
    <3> QED
      BY <1>3, <3>2
  <2>3. CASE cur' = bfs_queue[1] /\ cur'[1] # None
    <3>1. Front(cur[2])'
      BY <1>1, <1>3, <2>1, <2>3 DEF Front
    <3> QED
      BY <2>2, <2>3, <3>1 DEF QueueInv
  <2>4. CASE cur' = cur
    <3>1. ASSUME bfs_queue' # <<>> PROVE Front(bfs_queue[1][2])'
      <4>1. 1 \in DOMAIN bfs_queue' /\ bfs_queue'[1] = bfs_queue[2] /\ 2 \in DOMAIN bfs_queue
        BY <1>3, <3>1
      <4>2. bfs_queue[1][2] <= bfs_queue[2][2]
        BY <1>1, <1>2, <4>1 DEF QueueInv
      <4>3. ASSUME NEW j \in DOMAIN bfs_queue'
            PROVE  bfs_queue[2][2] <= bfs_queue'[j][2] /\ bfs_queue'[j][2] <= bfs_queue[2][2] + 1
        <5>1. j + 1 \in DOMAIN bfs_queue /\ bfs_queue'[j] = bfs_queue[j + 1] /\ 2 <= j + 1
          BY <1>3
        <5>2. bfs_queue[2][2] <= bfs_queue[j + 1][2]
              /\ bfs_queue[j + 1][2] <= bfs_queue[1][2] + 1
          BY <1>1, <2>1, <4>1, <5>1 DEF QueueInv, Front
        <5>3. /\ bfs_queue[1][2] \in Nat /\ bfs_queue[2][2] \in Nat
              /\ bfs_queue[j + 1][2] \in Nat
          BY <1>2, <2>0, <4>1, <5>1
        <5>4. bfs_queue[j + 1][2] <= bfs_queue[2][2] + 1
          BY <4>2, <5>2, <5>3
        <5> QED
          BY <5>1, <5>2, <5>4
      <4>4. ASSUME NEW n \in DOMAIN nodes PROVE nodes[n] <= bfs_queue[2][2] + 1
        <5>1. nodes[n] \in Nat /\ bfs_queue[1][2] \in Nat /\ bfs_queue[2][2] \in Nat
          BY <1>2, <2>0, <2>n, <4>1
        <5>2. nodes[n] <= bfs_queue[1][2] + 1
          BY <2>1 DEF Front
        <5> QED
          BY <4>2, <5>1, <5>2
      <4> QED
        BY <1>1, <4>1, <4>3, <4>4 DEF Front
    <3> QED
      BY <1>1, <2>2, <2>4, <3>1 DEF QueueInv
  <2>5. bfs_queue[1][1] \in Func => bfs_queue[1][1] # None
    BY <1>1
  <2> QED
    BY <1>4, <2>3, <2>4, <2>5 DEF Expandable
<1>s. ScanInv'
  <2>1. CASE cur' = bfs_queue[1] /\ at' = 1 /\ seen' = {}
    <3>1. ASSUME NEW f \in Func \cap DOMAIN nodes, f # cur'[1], ~Queued(f)',
                 nodes[f] < limit.depth, ~per_func_capped
          PROVE  \A n \in Callees(f) : Handled(f, n)
      <4>1. f # cur[1] /\ ~Queued(f)
        BY <1>1, <1>6, <2>1, <3>1
      <4> QED
        BY <1>1, <3>1, <4>1 DEF ScanInv
    <3>2. ASSUME cur'[1] # None
          PROVE  \A i \in DOMAIN calls[cur'[1]] : ~(i < 1)
      <4>1. calls[cur'[1]] \in Seq(Node)
        BY <1>w, <3>2, <1>1 DEF TypeInv, TypeOK, WalkInv
      <4>2. DOMAIN calls[cur'[1]] = 1 .. Len(calls[cur'[1]]) /\ Len(calls[cur'[1]]) \in Nat
        BY <4>1, LenProperties
      <4> QED
        BY <4>2
    <3> QED
      BY <1>1, <2>1, <3>1, <3>2, GraphKept DEF ScanInv
  <2>2. CASE ~Expandable(bfs_queue[1]) /\ UNCHANGED <<cur, at, seen>>
    <3>1. ASSUME NEW f \in Func \cap DOMAIN nodes, ~Queued(f)',
                 nodes[f] < limit.depth, ~per_func_capped
          PROVE  \A n \in Callees(f) : Handled(f, n)
      <4>1. f # bfs_queue[1][1]
        BY <1>1, <1>2, <2>2, <3>1 DEF WalkInv, Expandable
      <4>2. f # cur[1] /\ ~Queued(f)
        BY <1>1, <1>6, <3>1, <4>1
      <4> QED
        BY <1>1, <3>1, <4>2 DEF ScanInv
    <3> QED
      BY <1>1, <2>2, <3>1, GraphKept DEF ScanInv
  <2> QED
    BY <1>4, <2>1, <2>2
<1>e. EdgeInv'
  <2>1. ASSUME NEW i \in DOMAIN edges
        PROVE  ~Queued(edges[i][1])' /\ (edges[i][1] = cur'[1] => edges[i][2] \in seen')
    <3>1. ~Queued(edges[i][1]) /\ edges[i][1] # None
      BY <1>1 DEF EdgeInv
    <3>2. Queued(bfs_queue[1][1])
      BY <1>2 DEF Queued
    <3> QED
      BY <1>1, <1>4, <1>5, <3>1, <3>2
  <2> QED
    BY <1>1, <2>1, GraphKept DEF EdgeInv
<1>m. EdgesMeetNodes'
  BY <1>1 DEF EdgesMeetNodes
<1> QED
  BY <1>1, <1>w, <1>q, <1>s, <1>e, <1>m, DequeueType, GraphKept

\* The calls of the function being scanned.
LEMMA ScanFacts ==
    ASSUME TypeInv, WalkInv, Scanning
    PROVE  /\ cur[1] \in Func \cap DOMAIN nodes /\ cur[2] \in Nat /\ at \in Nat \ {0}
           /\ calls[cur[1]] \in Seq(Node)
           /\ DOMAIN calls[cur[1]] = 1 .. Len(calls[cur[1]]) /\ Len(calls[cur[1]]) \in Nat
           /\ AtCall => at \in DOMAIN calls[cur[1]] /\ Target \in Node /\ Target \in Callees(cur[1])
<1>1. cur[1] \in Func \cap DOMAIN nodes
  BY DEF Scanning, WalkInv
<1>2. calls[cur[1]] \in Seq(Node) /\ cur[2] \in Nat /\ at \in Nat \ {0}
  BY <1>1 DEF TypeInv, TypeOK
<1>3. /\ DOMAIN calls[cur[1]] = 1 .. Len(calls[cur[1]]) /\ Len(calls[cur[1]]) \in Nat
      /\ \A i \in DOMAIN calls[cur[1]] : calls[cur[1]][i] \in Node
  BY <1>2, LenProperties
<1>4. ASSUME AtCall
      PROVE  at \in DOMAIN calls[cur[1]] /\ Target \in Node /\ Target \in Callees(cur[1])
  <2>1. at \in DOMAIN calls[cur[1]]
    BY <1>2, <1>3, <1>4 DEF AtCall
  <2> QED
    BY <1>3, <2>1 DEF Target, Callees
<1> QED
  BY <1>1, <1>2, <1>3, <1>4

\* The end of a function: all it calls has been handled.
LEMMA EndFuncStep == Core /\ EndFunc => Core'
<1> SUFFICES ASSUME Core, EndFunc PROVE Core'
  OBVIOUS
<1> USE DEF Core
<1>1. /\ phase = "walk" /\ phase' = "walk" /\ cur[1] # None /\ Scanning
      /\ at > Len(calls[cur[1]]) /\ cur' = <<None, 0>>
      /\ UNCHANGED <<input, nodes, edges, bfs_queue, at, seen, limit_reason, per_func_capped>>
      /\ UNCHANGED <<calls, root, limit>>
  BY DEF EndFunc, Scanning, input
<1>2. /\ cur[1] \in Func \cap DOMAIN nodes /\ cur[2] \in Nat /\ at \in Nat
      /\ DOMAIN calls[cur[1]] = 1 .. Len(calls[cur[1]]) /\ Len(calls[cur[1]]) \in Nat
  BY <1>1, ScanFacts
<1>t. TypeInv'
  BY <1>1 DEF EndFunc, TypeInv, TypeOK
<1>w. WalkInv'
  BY <1>1 DEF WalkInv, Queued
<1>q. QueueInv'
  <2>1. Front(cur[2])
    BY <1>1 DEF QueueInv
  <2>2. ASSUME bfs_queue # <<>> PROVE Front(bfs_queue[1][2])
    <3>1. /\ 1 \in DOMAIN bfs_queue /\ bfs_queue[1][2] \in Nat
          /\ \A j \in DOMAIN bfs_queue : j >= 1 /\ bfs_queue[j][2] \in Nat
      BY <2>2, QueueFacts
    <3>2. cur[2] <= bfs_queue[1][2]
      BY <2>1, <3>1 DEF Front
    <3>3. ASSUME NEW j \in DOMAIN bfs_queue
          PROVE  bfs_queue[1][2] <= bfs_queue[j][2] /\ bfs_queue[j][2] <= bfs_queue[1][2] + 1
      <4>1. bfs_queue[1][2] <= bfs_queue[j][2] /\ bfs_queue[j][2] <= cur[2] + 1
        BY <1>1, <2>1, <3>1 DEF QueueInv, Front
      <4>2. bfs_queue[j][2] \in Nat /\ bfs_queue[1][2] \in Nat
        BY <3>1
      <4> QED
        BY <1>2, <3>2, <4>1, <4>2
    <3>4. ASSUME NEW n \in DOMAIN nodes PROVE nodes[n] <= bfs_queue[1][2] + 1
      <4>1. nodes[n] \in Nat
        BY DEF TypeInv, TypeOK
      <4>2. nodes[n] <= cur[2] + 1
        BY <2>1 DEF Front
      <4> QED
        BY <1>2, <3>1, <3>2, <4>1, <4>2
    <3> QED
      BY <3>3, <3>4 DEF Front
  <2> QED
    BY <1>1, <2>2 DEF QueueInv, Front
<1>s. ScanInv'
  <2>1. ASSUME NEW n \in Callees(cur[1]) PROVE n \in seen
    <3>1. PICK i \in DOMAIN calls[cur[1]] : n = calls[cur[1]][i]
      BY DEF Callees
    <3>2. i < at
      BY <1>1, <1>2
    <3> QED
      BY <1>1, <3>1, <3>2 DEF ScanInv
  <2>2. ASSUME ~per_func_capped, NEW f \in Func \cap DOMAIN nodes, ~Queued(f),
               nodes[f] < limit.depth
        PROVE  \A n \in Callees(f) : Handled(f, n)
    BY <1>1, <2>1, <2>2 DEF ScanInv
  <2>3. \A f : Queued(f)' = Queued(f)
    BY <1>1 DEF Queued
  <2> QED
    BY <1>1, <2>2, <2>3, GraphKept DEF ScanInv
<1>e. EdgeInv'
  <2>1. \A i \in DOMAIN edges : edges[i][1] # None
    BY CallGraphAssumption DEF EdgeInv, Node
  <2> QED
    BY <1>1, <2>1, GraphKept DEF EdgeInv, Queued
<1>m. EdgesMeetNodes'
  BY <1>1 DEF EdgesMeetNodes
<1> QED
  BY <1>1, <1>t, <1>w, <1>q, <1>s, <1>e, <1>m, GraphKept

\* Steps within a scan that leave graph and queue alone.
LEMMA ScanOn ==
    ASSUME Core, Scanning,
           UNCHANGED <<input, nodes, edges, bfs_queue, cur, limit_reason, phase>>
    PROVE  WalkInv' /\ QueueInv' /\ EdgesMeetNodes' /\ (seen \subseteq seen' => EdgeInv')
<1> USE DEF Core
<1>1. UNCHANGED <<calls, root, limit>> /\ phase = "walk"
  BY DEF input, Scanning
<1>2. WalkInv' /\ EdgesMeetNodes'
  BY <1>1 DEF WalkInv, Queued, EdgesMeetNodes
<1>3. QueueInv'
  BY DEF QueueInv, Front
<1>4. seen \subseteq seen' => EdgeInv'
  BY <1>1, GraphKept DEF EdgeInv, Queued
<1> QED
  BY <1>2, <1>3, <1>4

\* A callee that has been seen has been handled.
LEMMA SkipSeenStep == Core /\ SkipSeen => Core'
<1> SUFFICES ASSUME Core, SkipSeen PROVE Core'
  OBVIOUS
<1> USE DEF Core
<1>1. /\ Scanning /\ AtCall /\ phase = "walk" /\ cur[1] # None /\ Target \in seen /\ at' = at + 1
      /\ UNCHANGED <<input, nodes, edges, bfs_queue, cur, seen, limit_reason, per_func_capped, phase>>
      /\ UNCHANGED <<calls, root, limit>>
  BY DEF SkipSeen, AtCall, Scanning, input
<1>2. at \in Nat \ {0} /\ \A i \in DOMAIN calls[cur[1]] : i \in Nat
  BY <1>1, ScanFacts
<1>t. TypeInv'
  BY <1>1, <1>2 DEF SkipSeen, TypeInv, TypeOK
<1>s. ScanInv'
  <2>1. ASSUME NEW i \in DOMAIN calls[cur[1]], i < at + 1 PROVE calls[cur[1]][i] \in seen
    <3>1. CASE i = at
      BY <1>1, <3>1 DEF Target
    <3>2. CASE i < at
      BY <1>1, <3>2 DEF ScanInv
    <3> QED
      BY <1>2, <2>1, <3>1, <3>2
  <2>2. \A f : Queued(f)' = Queued(f)
    BY <1>1 DEF Queued
  <2> QED
    BY <1>1, <2>1, <2>2, GraphKept DEF ScanInv
<1> QED
  BY <1>1, <1>t, <1>s, ScanOn, GraphKept

\* A function over its limit of edges sets the flag.
LEMMA CapFuncStep == Core /\ CapFunc => Core'
<1> SUFFICES ASSUME Core, CapFunc PROVE Core'
  OBVIOUS
<1> USE DEF Core
<1>1. /\ Scanning /\ AtCall /\ phase = "walk" /\ cur[1] # None
      /\ seen' = seen \cup {Target} /\ per_func_capped' = TRUE
      /\ UNCHANGED <<input, nodes, edges, bfs_queue, cur, at, limit_reason, phase>>
      /\ UNCHANGED <<calls, root, limit>>
  BY DEF CapFunc, AtNewTarget, AtCall, Scanning, input
<1>t. TypeInv'
  <2>1. Target \in Node
    BY <1>1, ScanFacts
  <2> QED
    BY <1>1, <2>1 DEF CapFunc, TypeInv, TypeOK
<1>s. ScanInv'
  BY <1>1 DEF ScanInv
<1> QED
  BY <1>1, <1>t, <1>s, ScanOn, GraphKept

\* The queue is empty.
LEMMA FinishStep == Core /\ Finish => Core'
<1> SUFFICES ASSUME Core, Finish PROVE Core'
  OBVIOUS
<1> USE DEF Core
<1>1. /\ phase = "walk" /\ phase' = "done" /\ cur[1] = None
      /\ UNCHANGED <<input, nodes, edges, bfs_queue, cur, at, seen, limit_reason, per_func_capped>>
      /\ UNCHANGED <<calls, root, limit>>
  BY DEF Finish, Idle, input, scan
<1>t. TypeInv'
  BY <1>1 DEF Finish, scan, TypeInv, TypeOK
<1>w. WalkInv'
  BY <1>1 DEF WalkInv
<1>e. EdgeInv'
  BY <1>1, GraphKept DEF EdgeInv
<1>m. EdgesMeetNodes' /\ QueueInv' /\ ScanInv'
  BY <1>1 DEF EdgesMeetNodes, QueueInv, ScanInv
<1> QED
  BY <1>1, <1>t, <1>w, <1>e, <1>m, GraphKept

\* The limit of edges ends the walk, with the edge not drawn.
LEMMA EdgeLimitStep == Core /\ EdgeLimit => Core'
<1> SUFFICES ASSUME Core, EdgeLimit PROVE Core'
  OBVIOUS
<1> USE DEF Core
<1>1. /\ Scanning /\ AtCall /\ phase = "walk" /\ phase' = "done" /\ cur' = <<None, 0>>
      /\ limit_reason = "none" /\ limit_reason' = "max_edges" /\ seen' = seen \cup {Target}
      /\ UNCHANGED <<input, nodes, edges, bfs_queue, at, count, per_func_capped>>
      /\ UNCHANGED <<calls, root, limit>>
  BY DEF EdgeLimit, AtNewTarget, AtCall, Scanning, Truncate, input, WalkInv
<1>t. TypeInv'
  <2>1. Target \in Node
    BY <1>1, ScanFacts
  <2> QED
    BY <1>1, <2>1 DEF TypeInv, TypeOK, Reason
<1>w. WalkInv'
  BY <1>1 DEF WalkInv
<1>e. EdgeInv'
  BY <1>1, GraphKept DEF EdgeInv
<1>m. EdgesMeetNodes' /\ QueueInv' /\ ScanInv'
  BY <1>1 DEF EdgesMeetNodes, QueueInv, ScanInv
<1> QED
  BY <1>1, <1>t, <1>w, <1>e, <1>m, GraphKept

-----------------------------------------------------------------------------
\* Drawing an edge: one entry more, which no earlier entry equals.
LEMMA DrawFacts ==
    ASSUME Core, DrawEdge
    PROVE  /\ Scanning /\ AtCall /\ phase = "walk" /\ cur[1] # None
           /\ Target \notin seen /\ seen' = seen \cup {Target} /\ count' \in Nat
           /\ edges' \in Seq(Func \X Node) /\ Len(edges') = Len(edges) + 1
           /\ DOMAIN edges' = 1 .. Len(edges')
           /\ edges'[Len(edges')] = <<cur[1], Target>> /\ Len(edges') \in DOMAIN edges'
           /\ \A i \in DOMAIN edges : i \in DOMAIN edges' /\ edges'[i] = edges[i]
           /\ \A i \in DOMAIN edges' : i # Len(edges') => i \in DOMAIN edges
           /\ \A i, j \in DOMAIN edges' : edges'[i] = edges'[j] => i = j
<1> USE DEF Core
<1>1. /\ Scanning /\ AtCall /\ phase = "walk" /\ cur[1] # None
      /\ Target \notin seen /\ seen' = seen \cup {Target} /\ count' \in Nat
      /\ edges' = Append(edges, <<cur[1], Target>>)
  BY DEF DrawEdge, AtNewTarget, AtCall, Scanning, TypeInv, TypeOK
<1> DEFINE E == Func \X Node
           e == <<cur[1], Target>>
<1>2. e \in E /\ edges \in Seq(E)
  BY <1>1, ScanFacts DEF TypeInv, TypeOK
<1> HIDE DEF E, e
<1>3. /\ edges' \in Seq(E) /\ Len(edges') = Len(edges) + 1
      /\ \A i \in 1 .. Len(edges) : edges'[i] = edges[i]
      /\ edges'[Len(edges) + 1] = e
  <2>1. edges' = Append(edges, e)
    BY <1>1 DEF e
  <2> QED
    BY <1>2, <2>1, AppendProperties
<1>4. /\ Len(edges) \in Nat /\ DOMAIN edges = 1 .. Len(edges)
      /\ DOMAIN edges' = 1 .. Len(edges')
  BY <1>2, <1>3, LenProperties
<1>5. /\ \A i \in DOMAIN edges : i \in DOMAIN edges' /\ edges'[i] = edges[i]
      /\ \A i \in DOMAIN edges' : i # Len(edges') => i \in DOMAIN edges
      /\ Len(edges') \in DOMAIN edges' /\ edges'[Len(edges')] = e
  BY <1>3, <1>4
<1>6. \A i \in DOMAIN edges : edges[i] # e
  <2> SUFFICES ASSUME NEW i \in DOMAIN edges, edges[i] = e PROVE FALSE
    OBVIOUS
  <2>1. edges[i][1] = cur[1] /\ edges[i][2] = Target
    BY DEF e
  <2> QED
    BY <1>1, <2>1 DEF EdgeInv
<1>7. \A i, j \in DOMAIN edges' : edges'[i] = edges'[j] => i = j
  <2> SUFFICES ASSUME NEW i \in DOMAIN edges', NEW j \in DOMAIN edges',
                      edges'[i] = edges'[j], i # j
               PROVE  FALSE
    OBVIOUS
  <2>1. CASE i \in DOMAIN edges /\ j \in DOMAIN edges
    BY <1>5, <2>1 DEF EdgeInv
  <2>2. CASE i \in DOMAIN edges /\ j = Len(edges')
    BY <1>5, <1>6, <2>2
  <2>3. CASE j \in DOMAIN edges /\ i = Len(edges')
    BY <1>5, <1>6, <2>3
  <2> QED
    BY <1>5, <2>1, <2>2, <2>3
<1> QED
  BY <1>1, <1>3, <1>4, <1>5, <1>7 DEF E, e

\* What drawing an edge means for the edges, when nodes keep their depths and the
\* queue takes at most the target.
LEMMA DrawEdges ==
    ASSUME Core, DrawEdge, UNCHANGED input,
           \A n \in DOMAIN nodes : n \in DOMAIN nodes' /\ nodes'[n] = nodes[n],
           phase' = "walk" => /\ Target \in DOMAIN nodes' /\ cur' = cur
                              /\ \A n : Queued(n)' => Queued(n) \/ n \notin DOMAIN nodes
    PROVE  EdgeInv' /\ \A f, n : Drawn(f, n)' <=> Drawn(f, n) \/ (f = cur[1] /\ n = Target)
<1> USE DEF Core
<1>1. /\ Scanning /\ AtCall /\ phase = "walk" /\ cur[1] # None
      /\ seen' = seen \cup {Target}
      /\ edges'[Len(edges')] = <<cur[1], Target>> /\ Len(edges') \in DOMAIN edges'
      /\ \A i \in DOMAIN edges : i \in DOMAIN edges' /\ edges'[i] = edges[i]
      /\ \A i \in DOMAIN edges' : i # Len(edges') => i \in DOMAIN edges
      /\ \A i, j \in DOMAIN edges' : edges'[i] = edges'[j] => i = j
  BY DrawFacts
<1>2. /\ cur[1] \in Func \cap DOMAIN nodes /\ nodes[cur[1]] < limit.depth /\ ~Queued(cur[1])
      /\ Target \in Callees(cur[1])
  BY <1>1, ScanFacts DEF WalkInv
<1>3. UNCHANGED <<calls, limit>> /\ \A f : Callees(f)' = Callees(f)
  BY DEF input, Callees
<1>4. ASSUME NEW i \in DOMAIN edges'
      PROVE  /\ edges'[i][1] \in Func \cap DOMAIN nodes'
             /\ nodes'[edges'[i][1]] < limit'.depth
             /\ edges'[i][2] \in Callees(edges[i][1])'
             /\ phase' = "walk" =>
                   /\ edges'[i][2] \in DOMAIN nodes'
                   /\ ~Queued(edges[i][1])'
                   /\ edges'[i][1] = cur'[1] => edges'[i][2] \in seen'
  <2> DEFINE f == edges'[i][1]
             n == edges'[i][2]
  <2>1. /\ f \in Func \cap DOMAIN nodes /\ nodes[f] < limit.depth
        /\ n \in Callees(f) /\ ~Queued(f) /\ (f = cur[1] => n \in seen')
        /\ phase' = "walk" => n \in DOMAIN nodes'
    <3>1. CASE i = Len(edges')
      BY <1>1, <1>2, <3>1
    <3>2. CASE i # Len(edges')
      <4>1. i \in DOMAIN edges /\ edges'[i] = edges[i]
        BY <1>1, <3>2
      <4> QED
        BY <1>1, <4>1 DEF EdgeInv
    <3> QED
      BY <3>1, <3>2
  <2>2. n \in Callees(edges[i][1])'
    BY <1>3, <2>1 DEF Callees
  <2>3. phase' = "walk" => ~Queued(edges[i][1])'
    <3>1. ASSUME phase' = "walk", NEW j \in DOMAIN bfs_queue', bfs_queue'[j][1] = f PROVE FALSE
      <4>1. \A m : m = f => Queued(m)'
        BY <3>1 DEF Queued
      <4>2. \A m : m = f => Queued(m) \/ m \notin DOMAIN nodes
        BY <3>1, <4>1
      <4> QED
        BY <2>1, <4>2
    <3> QED
      BY <3>1 DEF Queued
  <2> QED
    BY <1>3, <2>1, <2>2, <2>3
<1>5. EdgeInv'
  BY <1>1, <1>4 DEF EdgeInv
<1>6. ASSUME NEW f, NEW n PROVE Drawn(f, n)' <=> Drawn(f, n) \/ (f = cur[1] /\ n = Target)
  BY <1>1 DEF Drawn
<1> QED
  BY <1>5, <1>6

\* The limit of nodes ends the walk: the last edge alone leads to no node.
LEMMA NodeLimitStep == Core /\ NodeLimit => Core'
<1> SUFFICES ASSUME Core, NodeLimit PROVE Core'
  OBVIOUS
<1> USE DEF Core
<1>1. /\ DrawEdge /\ phase' = "done" /\ cur' = <<None, 0>>
      /\ limit_reason' = "max_nodes"
      /\ UNCHANGED <<input, nodes, bfs_queue, at, per_func_capped>>
      /\ UNCHANGED <<calls, root, limit>>
  BY DEF NodeLimit, Truncate, input
<1>2. /\ Scanning /\ AtCall /\ phase = "walk" /\ seen' = seen \cup {Target} /\ count' \in Nat
      /\ edges' \in Seq(Func \X Node) /\ limit_reason = "none"
      /\ edges'[Len(edges')] = <<cur[1], Target>>
      /\ \A i \in DOMAIN edges' : i # Len(edges') => i \in DOMAIN edges /\ edges'[i] = edges[i]
  BY <1>1, DrawFacts DEF WalkInv
<1>3. cur[1] \in Func \cap DOMAIN nodes /\ Target \in Node
  BY <1>2, ScanFacts
<1>t. TypeInv'
  BY <1>1, <1>2, <1>3 DEF TypeInv, TypeOK, Reason
<1>w. WalkInv'
  BY <1>1 DEF WalkInv
<1>d. DepthInv'
  <2>1. Within' = Within
    BY <1>1, InputKept
  <2> QED
    BY <1>1, <2>1 DEF DepthInv
<1>e. EdgeInv'
  BY <1>1, DrawEdges
<1>m. EdgesMeetNodes'
  <2>1. ASSUME NEW i \in DOMAIN edges'
        PROVE  /\ edges'[i][1] \in DOMAIN nodes
               /\ edges'[i][2] \in DOMAIN nodes \/ i = Len(edges')
    BY <1>2, <1>3 DEF EdgeInv
  <2> QED
    BY <1>1, <2>1 DEF EdgesMeetNodes
<1>q. QueueInv' /\ ScanInv'
  BY <1>1 DEF QueueInv, ScanInv
<1> QED
  BY <1>t, <1>w, <1>d, <1>e, <1>m, <1>q

\* What was handled stays handled, and the call just drawn is handled.
LEMMA DrawScan ==
    ASSUME Core, DrawEdge, UNCHANGED <<input, cur, per_func_capped>>, phase' = "walk", at' = at + 1,
           \A n \in DOMAIN nodes : n \in DOMAIN nodes' /\ nodes'[n] = nodes[n],
           Target \in DOMAIN nodes', nodes'[Target] <= cur[2] + 1,
           \A n \in DOMAIN nodes' : n \in DOMAIN nodes \/ Queued(n)',
           \A n : Queued(n) => Queued(n)',
           \A f, n : Drawn(f, n)' <=> Drawn(f, n) \/ (f = cur[1] /\ n = Target)
    PROVE  ScanInv'
<1> USE DEF Core
<1>1. /\ Scanning /\ AtCall /\ phase = "walk" /\ cur[1] # None /\ seen' = seen \cup {Target}
      /\ UNCHANGED <<calls, limit>>
  BY DrawFacts DEF input
<1>2. /\ cur[1] \in Func \cap DOMAIN nodes /\ cur[2] = nodes[cur[1]]
      /\ at \in Nat \ {0} /\ \A i \in DOMAIN calls[cur[1]] : i \in Nat
  BY <1>1, ScanFacts DEF WalkInv
<1>3. \A f : Callees(f)' = Callees(f)
  BY <1>1 DEF Callees
<1>4. ASSUME NEW i \in DOMAIN calls[cur[1]], i < at + 1 PROVE calls[cur[1]][i] \in seen'
  <2>1. CASE i = at
    BY <1>1, <2>1 DEF Target
  <2>2. CASE i < at
    BY <1>1, <2>2 DEF ScanInv
  <2> QED
    BY <1>2, <1>4, <2>1, <2>2
<1>5. ASSUME NEW f \in DOMAIN nodes, NEW n, Handled(f, n) PROVE Handled(f, n)'
  BY <1>5 DEF Handled
<1>6. ASSUME ~per_func_capped, NEW n \in seen' PROVE \A f : f = cur[1] => Handled(f, n)'
  <2>1. CASE n \in seen
    BY <1>1, <1>2, <1>5, <1>6, <2>1 DEF ScanInv
  <2>2. CASE n = Target
    BY <1>2, <2>2 DEF Handled
  <2> QED
    BY <1>1, <2>1, <2>2
<1>7. ASSUME ~per_func_capped, NEW f \in Func \cap DOMAIN nodes', f # cur[1], ~Queued(f)',
             nodes'[f] < limit.depth, NEW n \in Callees(f)
      PROVE  Handled(f, n)'
  <2>1. f \in DOMAIN nodes /\ ~Queued(f) /\ nodes'[f] = nodes[f]
    BY <1>7
  <2> QED
    BY <1>1, <1>5, <1>7, <2>1 DEF ScanInv
<1>8. ~per_func_capped => \A n \in seen' : Handled(cur[1], n)'
  BY <1>6 DEF Handled, Drawn
<1> QED
  BY <1>1, <1>3, <1>4, <1>7, <1>8 DEF ScanInv

\* An edge to a node of the graph, which is at most one call deeper.
LEMMA EdgeToNodeStep == Core /\ EdgeToNode => Core'
<1> SUFFICES ASSUME Core, EdgeToNode PROVE Core'
  OBVIOUS
<1> USE DEF Core
<1>1. /\ DrawEdge /\ Target \in DOMAIN nodes /\ at' = at + 1
      /\ UNCHANGED <<input, nodes, bfs_queue, cur, limit_reason, per_func_capped, phase>>
      /\ UNCHANGED <<calls, root, limit>>
  BY DEF EdgeToNode, input
<1>2. /\ Scanning /\ AtCall /\ phase = "walk" /\ cur[1] # None
      /\ seen' = seen \cup {Target} /\ count' \in Nat
      /\ edges' \in Seq(Func \X Node) /\ limit_reason = "none"
  BY <1>1, DrawFacts DEF WalkInv
<1>3. /\ cur[1] \in Func \cap DOMAIN nodes /\ at \in Nat \ {0} /\ Target \in Node
  BY <1>2, ScanFacts
<1>4. \A f : Queued(f)' = Queued(f)
  BY <1>1 DEF Queued
<1>t. TypeInv'
  BY <1>1, <1>2, <1>3 DEF TypeInv, TypeOK
<1>w. WalkInv'
  BY <1>1, <1>2 DEF WalkInv, Queued
<1>d. DepthInv'
  <2>1. Within' = Within
    BY <1>1, InputKept
  <2> QED
    BY <1>1, <2>1 DEF DepthInv
<1>q. QueueInv'
  BY <1>1 DEF QueueInv, Front
<1>e. EdgeInv' /\ \A f, n : Drawn(f, n)' <=> Drawn(f, n) \/ (f = cur[1] /\ n = Target)
  BY <1>1, <1>4, DrawEdges
<1>s. ScanInv'
  <2>1. nodes[Target] <= cur[2] + 1
    BY <1>1, <1>2 DEF QueueInv, Front
  <2> QED
    BY <1>1, <1>2, <1>4, <1>e, <2>1, DrawScan
<1>m. EdgesMeetNodes'
  BY <1>1, <1>2, <1>e DEF EdgeInv, EdgesMeetNodes
<1> QED
  BY <1>t, <1>w, <1>d, <1>e, <1>m, <1>q, <1>s

\* An edge to a new node, one call deeper, at the end of the queue.
LEMMA EdgeToNewStep == Core /\ EdgeToNew => Core'
<1> SUFFICES ASSUME Core, EdgeToNew PROVE Core'
  OBVIOUS
<1> USE DEF Core
<1> DEFINE e == <<Target, cur[2] + 1>>
           S == Node \X Nat
<1>1. /\ DrawEdge /\ Target \notin DOMAIN nodes /\ at' = at + 1
      /\ nodes' = [n \in DOMAIN nodes \cup {Target} |->
                      IF n = Target THEN cur[2] + 1 ELSE nodes[n]]
      /\ bfs_queue' = Append(bfs_queue, e)
      /\ UNCHANGED <<input, cur, limit_reason, per_func_capped, phase>>
      /\ UNCHANGED <<calls, root, limit>>
  BY DEF EdgeToNew, input
<1>2. /\ Scanning /\ AtCall /\ phase = "walk" /\ cur[1] # None
      /\ seen' = seen \cup {Target} /\ count' \in Nat
      /\ edges' \in Seq(Func \X Node) /\ limit_reason = "none"
  BY <1>1, DrawFacts DEF WalkInv
<1>3. /\ cur[1] \in Func \cap DOMAIN nodes /\ cur[2] \in Nat /\ at \in Nat \ {0}
      /\ Target \in Node /\ Target \in Callees(cur[1])
      /\ cur[2] = nodes[cur[1]] /\ cur[2] < limit.depth /\ ~Queued(cur[1])
  BY <1>2, ScanFacts DEF WalkInv
<1>4. /\ DOMAIN nodes' = DOMAIN nodes \cup {Target} /\ nodes'[Target] = cur[2] + 1
      /\ \A n \in DOMAIN nodes : n \in DOMAIN nodes' /\ nodes'[n] = nodes[n]
  BY <1>1
<1>5. /\ bfs_queue' \in Seq(S) /\ Len(bfs_queue') = Len(bfs_queue) + 1
      /\ \A j \in 1 .. Len(bfs_queue) : bfs_queue'[j] = bfs_queue[j]
      /\ bfs_queue'[Len(bfs_queue) + 1] = e
  <2>1. e \in S /\ bfs_queue \in Seq(S)
    BY <1>3 DEF TypeInv, TypeOK
  <2> HIDE DEF S, e
  <2> QED
    BY <1>1, <2>1, AppendProperties
<1> HIDE DEF S
<1>6. /\ Len(bfs_queue) \in Nat /\ DOMAIN bfs_queue = 1 .. Len(bfs_queue)
      /\ DOMAIN bfs_queue' = 1 .. Len(bfs_queue')
  BY <1>5, QueueFacts, LenProperties
<1> DEFINE last == Len(bfs_queue')
<1>7. /\ \A j \in DOMAIN bfs_queue : j \in DOMAIN bfs_queue' /\ bfs_queue'[j] = bfs_queue[j]
      /\ \A j \in DOMAIN bfs_queue' : j = last \/ (j \in DOMAIN bfs_queue /\ j < last)
      /\ last \in DOMAIN bfs_queue' /\ bfs_queue'[last] = e
      /\ \A j \in DOMAIN bfs_queue' : j <= last /\ j \in Nat /\ last \in Nat
  BY <1>5, <1>6
<1> HIDE DEF last
<1>8. /\ \A n : Queued(n) => Queued(n)'
      /\ \A n : Queued(n)' => Queued(n) \/ n = Target
      /\ \A n : n = Target => Queued(n)'
  BY <1>7 DEF Queued
<1>9. ~Queued(Target)
  BY <1>1, <1>2 DEF Queued, WalkInv
<1>t. TypeInv'
  <2>1. nodes' \in [DOMAIN nodes' -> Nat] /\ DOMAIN nodes' \subseteq Node
    BY <1>1, <1>3 DEF TypeInv, TypeOK
  <2>2. bfs_queue' \in Seq(Node \X Nat)
    BY <1>5 DEF S
  <2> QED
    BY <1>1, <1>2, <1>3, <2>1, <2>2 DEF TypeInv, TypeOK
<1>w. WalkInv'
  <2>1. ASSUME NEW j \in DOMAIN bfs_queue'
        PROVE  /\ bfs_queue'[j][1] \in DOMAIN nodes'
               /\ bfs_queue'[j][2] = nodes'[bfs_queue'[j][1]]
    <3>1. CASE j = last
      BY <1>4, <1>7, <3>1
    <3>2. CASE j \in DOMAIN bfs_queue
      BY <1>2, <1>4, <1>7, <3>2 DEF WalkInv
    <3> QED
      BY <1>7, <3>1, <3>2
  <2>2. ASSUME NEW j \in DOMAIN bfs_queue', NEW k \in DOMAIN bfs_queue',
               bfs_queue'[j][1] = bfs_queue'[k][1]
        PROVE  j = k
    <3>1. \A i \in DOMAIN bfs_queue : bfs_queue'[i][1] # Target
      BY <1>7, <1>9 DEF Queued
    <3>2. bfs_queue'[last][1] = Target
      BY <1>7
    <3>3. CASE j \in DOMAIN bfs_queue /\ k \in DOMAIN bfs_queue
      BY <1>2, <1>7, <2>2, <3>3 DEF WalkInv
    <3> QED
      BY <1>7, <2>2, <3>1, <3>2, <3>3
  <2>3. cur[1] # Target /\ ~Queued(cur[1])'
    <3>1. \A n : n = cur[1] => ~Queued(n)'
      BY <1>1, <1>3, <1>8
    <3> QED
      BY <1>1, <1>3, <3>1 DEF Queued
  <2>4. root \in DOMAIN nodes' /\ nodes'[root] = 0
    BY <1>2, <1>4 DEF WalkInv
  <2> QED
    BY <1>1, <1>2, <1>3, <1>4, <2>1, <2>2, <2>3, <2>4 DEF WalkInv
<1>d. DepthInv'
  <2>1. Within' = Within
    BY <1>1, InputKept
  <2>2. cur[1] \in Within[cur[2]]
    BY <1>3 DEF DepthInv
  <2>3. Target \in Within[cur[2] + 1]
    BY <1>3, <2>2, WithinCall
  <2>4. cur[2] + 1 <= limit.depth
    BY <1>3 DEF TypeInv, TypeOK, Limit
  <2>5. ASSUME NEW n \in DOMAIN nodes' PROVE nodes'[n] <= limit.depth /\ n \in Within[nodes'[n]]
    <3>1. CASE n = Target
      BY <1>4, <2>3, <2>4, <3>1
    <3>2. CASE n \in DOMAIN nodes
      BY <1>4, <3>2 DEF DepthInv
    <3> QED
      BY <1>4, <3>1, <3>2
  <2> QED
    BY <1>1, <2>1, <2>5 DEF DepthInv
<1>q. QueueInv'
  <2>0. \A j \in DOMAIN bfs_queue : bfs_queue[j][2] \in Nat
    BY QueueFacts
  <2>1. Front(cur[2])
    BY <1>2 DEF QueueInv
  <2>2. \A j \in DOMAIN bfs_queue' : cur[2] <= bfs_queue'[j][2] /\ bfs_queue'[j][2] <= cur[2] + 1
    <3> TAKE j \in DOMAIN bfs_queue'
    <3>1. CASE j = last
      BY <1>3, <1>7, <3>1
    <3>2. CASE j \in DOMAIN bfs_queue
      BY <1>7, <2>1, <3>2 DEF Front
    <3> QED
      BY <1>7, <3>1, <3>2
  <2>3. \A n \in DOMAIN nodes' : nodes'[n] <= cur[2] + 1
    <3> TAKE n \in DOMAIN nodes'
    <3>1. CASE n = Target
      BY <1>3, <1>4, <3>1
    <3>2. CASE n \in DOMAIN nodes
      BY <1>4, <2>1, <3>2 DEF Front
    <3> QED
      BY <1>4, <3>1, <3>2
  <2>4. ASSUME NEW j \in DOMAIN bfs_queue', NEW k \in DOMAIN bfs_queue', j <= k
        PROVE  bfs_queue'[j][2] <= bfs_queue'[k][2]
    <3>1. CASE k = last
      BY <1>7, <2>2, <3>1
    <3>2. CASE k \in DOMAIN bfs_queue /\ k < last
      <4>1. j \in DOMAIN bfs_queue
        BY <1>7, <2>4, <3>2
      <4> QED
        BY <1>2, <1>7, <2>4, <3>2, <4>1 DEF QueueInv
    <3> QED
      BY <1>7, <3>1, <3>2
  <2> QED
    BY <1>1, <1>2, <2>2, <2>3, <2>4 DEF QueueInv, Front
<1>e. EdgeInv' /\ \A f, n : Drawn(f, n)' <=> Drawn(f, n) \/ (f = cur[1] /\ n = Target)
  BY <1>1, <1>4, <1>8, DrawEdges
<1>s. ScanInv'
  <2>1. cur[2] + 1 <= cur[2] + 1
    BY <1>3
  <2>2. \A n \in DOMAIN nodes' : n \in DOMAIN nodes \/ Queued(n)'
    BY <1>4, <1>8
  <2> QED
    BY <1>1, <1>2, <1>4, <1>8, <1>e, <2>1, <2>2, DrawScan
<1>m. EdgesMeetNodes'
  BY <1>1, <1>2, <1>e DEF EdgeInv, EdgesMeetNodes
<1> QED
  BY <1>t, <1>w, <1>d, <1>e, <1>m, <1>q, <1>s

-----------------------------------------------------------------------------
\* The root is the first node, and the first of the queue.
LEMMA BeginStep == Core /\ Begin => Core'
<1> SUFFICES ASSUME Core, Begin PROVE Core'
  OBVIOUS
<1> USE DEF Core
<1>1. /\ phase = "start" /\ cur[1] = None /\ DOMAIN nodes = {} /\ edges = <<>> /\ limit_reason = "none"
      /\ UNCHANGED <<input, edges, cur, at, seen, count, limit_reason, per_func_capped>>
      /\ UNCHANGED <<calls, root, limit>>
      /\ Within' = Within /\ DOMAIN edges = {}
  BY InputKept DEF Begin, input, scan, WalkInv
<1>2. CASE root \in Func
  <2>1. /\ phase' = "walk" /\ bfs_queue' = <<<<root, 0>>>>
        /\ DOMAIN nodes' = {root} /\ nodes'[root] = 0 /\ nodes' = [n \in {root} |-> 0]
    BY <1>2 DEF Begin
  <2>2. DOMAIN bfs_queue' = {1} /\ bfs_queue'[1] = <<root, 0>>
    BY <2>1
  <2>t. TypeInv'
    <3>1. bfs_queue' \in Seq(Node \X Nat)
      BY <1>2, <2>1 DEF Node
    <3>2. DOMAIN nodes' \subseteq Node /\ nodes' \in [DOMAIN nodes' -> Nat]
      BY <1>2, <2>1 DEF Node
    <3> QED
      BY <1>1, <2>1, <3>1, <3>2 DEF TypeInv, TypeOK
  <2>w. WalkInv'
    BY <1>1, <2>1, <2>2 DEF WalkInv
  <2>d. DepthInv'
    <3>1. root \in Within[0] /\ 0 <= limit.depth
      BY WithinDef DEF TypeInv, TypeOK, Limit
    <3> QED
      BY <1>1, <2>1, <3>1 DEF DepthInv
  <2>q. QueueInv'
    BY <1>1, <2>1, <2>2 DEF QueueInv, Front
  <2>s. ScanInv'
    <3>1. \A f : f = root => Queued(f)'
      BY <2>2 DEF Queued
    <3> QED
      BY <1>1, <2>1, <3>1 DEF ScanInv
  <2>e. EdgeInv' /\ EdgesMeetNodes'
    BY <1>1 DEF EdgeInv, EdgesMeetNodes
  <2> QED
    BY <2>t, <2>w, <2>d, <2>q, <2>s, <2>e
<1>3. CASE root \notin Func
  <2>1. phase' = "error" /\ UNCHANGED <<nodes, bfs_queue>>
    BY <1>3 DEF Begin
  <2>2. TypeInv'
    BY <1>1, <2>1 DEF TypeInv, TypeOK
  <2> QED
    BY <1>1, <2>1, <2>2 DEF WalkInv, DepthInv, QueueInv, ScanInv, EdgeInv, EdgesMeetNodes
<1> QED
  BY <1>2, <1>3

\* Init starts the walk with a program and limits as TypeOK has them.
LEMMA InitCore == Init => Core
<1> SUFFICES ASSUME Init PROVE Core
  OBVIOUS
<1>1. calls \in [Func -> Seq(Node)]
  <2>1. calls \in Program
    BY DEF Init
  <2>2. \A f \in Func : CallList(f) \subseteq Seq(Node)
    BY DEF CallList
  <2>3. calls \in [Func -> UNION {CallList(f) : f \in Func}]
    BY <2>1 DEF Program
  <2> QED
    BY <2>2, <2>3
<1>2. limit \in Limit /\ limit.depth >= 1
  <2>1. PICK r \in Request : limit = InForce(r)
    BY DEF Init
  <2>2. r \in Limit
    BY CallGraphAssumption
  <2> QED
    BY <2>1, <2>2, CallGraphAssumption DEF InForce, Clamped, Limit
<1>3. TypeInv
  <2>1. root \in Root /\ limit_reason \in Reason
    BY DEF Init, Reason
  <2>2. DOMAIN nodes \subseteq Node /\ nodes \in [DOMAIN nodes -> Nat]
    BY DEF Init
  <2>3. edges \in Seq(Func \X Node) /\ bfs_queue \in Seq(Node \X Nat)
    BY DEF Init
  <2>4. cur \in (Func \cup {None}) \X Nat /\ at \in Nat \ {0} /\ count \in Nat
    BY DEF Init
  <2> QED
    BY <1>1, <1>2, <2>1, <2>2, <2>3, <2>4 DEF Init, TypeInv, TypeOK
<1>4. DOMAIN nodes = {} /\ DOMAIN edges = {}
  BY DEF Init
<1> QED
  BY <1>3, <1>4
  DEF Init, Core, WalkInv, DepthInv, QueueInv, ScanInv, EdgeInv, EdgesMeetNodes

\* Every step keeps the part of the invariant that is inductive by itself.
LEMMA CoreStep == Core /\ [Next]_vars => Core'
<1> SUFFICES ASSUME Core, [Next]_vars PROVE Core'
  OBVIOUS
<1>1. CASE UNCHANGED vars
  <2>1. Within' = Within
    BY <1>1, InputKept DEF vars, input
  <2> QED
    BY <1>1, <2>1 DEF vars, Core, TypeInv, TypeOK, WalkInv, Queued, DepthInv, QueueInv, Front,
       ScanInv, Handled, Drawn, Callees, EdgeInv, EdgesMeetNodes
<1> QED
  BY <1>1, BeginStep, DequeueStep, EndFuncStep, SkipSeenStep, CapFuncStep, EdgeLimitStep,
     EdgeToNodeStep, EdgeToNewStep, NodeLimitStep, FinishStep
  DEF Next, Walk, Over

\* A step that ends the walk leaves the nodes as they are; only Finish ends it
\* without a reason, and leaves the edges too.
LEMMA ResultStep == Inv /\ [Next]_vars => DepthIsDistance' /\ UnflaggedIsWhole'
<1> SUFFICES ASSUME Inv, [Next]_vars, phase' = "done", ~per_func_capped'
             PROVE  /\ \A n \in DOMAIN nodes' : AtDistance(n, nodes[n])'
                    /\ limit_reason' = "none" => IsWholeGraph'
  BY DEF DepthIsDistance, UnflaggedIsWhole
<1>1. CASE UNCHANGED vars
  <2>1. Within' = Within
    BY <1>1, InputKept DEF vars, input
  <2> QED
    BY <1>1, <2>1 DEF vars, Inv, DepthIsDistance, UnflaggedIsWhole, IsWholeGraph, AtDistance, Callees
<1>2. CASE EdgeLimit \/ NodeLimit \/ Finish
  <2>1. /\ phase = "walk" /\ UNCHANGED <<input, nodes, per_func_capped>>
        /\ limit_reason' = "none" =>
              Finish /\ cur[1] = None /\ bfs_queue = <<>> /\ edges' = edges
    BY <1>2 DEF EdgeLimit, NodeLimit, Finish, DrawEdge, AtNewTarget, AtCall, Scanning, Idle, Truncate
  <2>2. Within' = Within /\ UNCHANGED <<calls, limit>>
    BY <2>1, InputKept DEF input
  <2>3. \A n \in DOMAIN nodes : AtDistance(n, nodes[n])
    BY <2>1, WalkDepths DEF Inv, Core
  <2>4. ASSUME limit_reason' = "none" PROVE IsWholeGraph'
    <3>1. IsWholeGraph
      BY <2>1, <2>4, WalkWhole DEF Inv, Core
    <3> QED
      BY <2>1, <2>2, <2>4, <3>1 DEF IsWholeGraph, Callees
  <2> QED
    BY <2>1, <2>2, <2>3, <2>4 DEF AtDistance
<1>3. Begin \/ Dequeue \/ EndFunc \/ SkipSeen \/ CapFunc \/ EdgeToNode \/ EdgeToNew => FALSE
  BY DEF Begin, Dequeue, EndFunc, SkipSeen, CapFunc, EdgeToNode, EdgeToNew,
     DrawEdge, AtNewTarget, AtCall, Scanning, Idle
<1> QED
  BY <1>1, <1>2, <1>3 DEF Next, Walk, Over

(***************************************************************************)
(* The invariant of tool_callgraph's walk: queue sorted by depth, scanned  *)
(* functions drawn with all their calls, and the two promises of its       *)
(* answer.                                                                 *)
(***************************************************************************)
THEOREM InvCorrect == Spec => []Inv
<1>1. Init => Inv
  BY InitCore DEF Init, Inv, DepthIsDistance, UnflaggedIsWhole
<1>2. Inv /\ [Next]_vars => Inv'
  BY CoreStep, ResultStep DEF Inv
<1> QED
  BY <1>1, <1>2, PTL DEF Spec

(***************************************************************************)
(* TypeOK is an invariant, for every program and every limit.              *)
(***************************************************************************)
THEOREM TypeCorrect == Spec => []TypeOK
<1>1. Inv => TypeOK
  BY DEF Inv, Core, TypeInv
<1> QED
  BY <1>1, InvCorrect, PTL

(***************************************************************************)
(* EdgesMeetNodes for every program: an edge of the answer joins two of    *)
(* its nodes, unless it is the one that ran into max_nodes.                *)
(***************************************************************************)
THEOREM EdgesMeetNodesAlways == Spec => []EdgesMeetNodes
<1>1. Inv => EdgesMeetNodes
  BY DEF Inv, Core
<1> QED
  BY <1>1, InvCorrect, PTL

(***************************************************************************)
(* DepthIsDistance for every program: also when tool_callgraph is cut      *)
(* short, the depth of a node is its distance from the root.               *)
(***************************************************************************)
THEOREM DepthIsDistanceAlways == Spec => []DepthIsDistance
<1>1. Inv => DepthIsDistance
  BY DEF Inv
<1> QED
  BY <1>1, InvCorrect, PTL

(***************************************************************************)
(* UnflaggedIsWhole for every program and every limit: an answer without   *)
(* truncation or cap is the whole call graph within max_depth.             *)
(***************************************************************************)
THEOREM UnflaggedIsWholeAlways == Spec => []UnflaggedIsWhole
<1>1. Inv => UnflaggedIsWhole
  BY DEF Inv
<1> QED
  BY <1>1, InvCorrect, PTL
=============================================================================
