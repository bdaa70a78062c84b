--------------------------- MODULE BuilderProofs ---------------------------
(***************************************************************************)
(* What GraphBuilder makes of any sessions, under any profile: no step     *)
(* turns a node into another, no edge is shorter than the distance or      *)
(* dangles, no clone is without the node that it is of.                    *)
(*                                                                         *)
(* The folds of the builder are recursive functions along 0 .. n; that     *)
(* they exist, and keep whatever each of their steps keeps, comes first.   *)
(* From that follows what set_edge, create_edges, flatten_member_nodes,    *)
(* the walk along a restriction and GraphChange::apply do to a graph, and  *)
(* from that, one action at a time, that the invariants are inductive.     *)
(* The last part compares the graph with the roads: which nodes are left   *)
(* without a way, and what the edges of clones cost.                       *)
(***************************************************************************)
EXTENDS RestrictedRoads, FiniteSetTheorems, WellFoundedInduction, TLAPS

---------------------------------------------------------------------------
(* Least and greatest numbers, and recursion *)

LEMMA LeastNatural ==
    ASSUME NEW T, T \subseteq Nat, T # {}
    PROVE  \E i \in T : \A j \in T : i <= j
<1> DEFINE R == OpToRel(<, Nat)
<1>1. PICK i \in T : \A j \in T : ~ (<<j, i>> \in R)
  <2>1. IsWellFoundedOn(R, Nat)
    BY NatLessThanWellFounded
  <2> HIDE DEF R
  <2> QED  BY <2>1, WFMin
<1>2. \A j \in T : ~ (j < i)
  BY <1>1 DEF OpToRel
<1>3. \A j \in T : i <= j
  BY <1>2
<1> QED  BY <1>3

LEMMA GreatestNatural ==
    ASSUME NEW n \in Nat, NEW T, T \subseteq 0 .. n, T # {}
    PROVE  \E i \in T : \A j \in T : i >= j
<1> DEFINE Rest == {n - i : i \in T}
<1>1. Rest \subseteq Nat /\ Rest # {}
  <2>1. \A i \in T : n - i \in Nat
    OBVIOUS
  <2>2. PICK i \in T : TRUE
    OBVIOUS
  <2>3. n - i \in Rest
    OBVIOUS
  <2> QED  BY <2>1, <2>3
<1>2. PICK rest \in Rest : \A r \in Rest : rest <= r
  BY <1>1, LeastNatural
<1>3. PICK i \in T : rest = n - i
  BY <1>2
<1>4. \A j \in T : n - i <= n - j
  BY <1>2, <1>3
<1>5. \A j \in T : i >= j
  BY <1>4
<1> QED  BY <1>5

\* What each value of f hands on to the next, all of them have.
LEMMA Induction ==
    ASSUME NEW n \in Nat, NEW D, NEW f, f[0] \in D,
           \A i \in 1 .. n : f[i - 1] \in D => f[i] \in D
    PROVE  \A i \in 0 .. n : f[i] \in D
<1> DEFINE Bad == {i \in 0 .. n : f[i] \notin D}
<1> SUFFICES ASSUME Bad # {}
             PROVE  FALSE
  OBVIOUS
<1>1. PICK b \in Bad : \A j \in Bad : b <= j
  <2>1. Bad \subseteq Nat
    OBVIOUS
  <2> HIDE DEF Bad
  <2> QED  BY <2>1, LeastNatural
<1>2. b \in 1 .. n
  OBVIOUS
<1>3. b - 1 \in 0 .. n /\ b - 1 \notin Bad
  BY <1>1, <1>2
<1>4. f[b] \in D
  BY <1>2, <1>3
<1> QED  BY <1>4

\* f is defined along 0 .. n by its first value and by the step to the next.
IsRun(f, n, base, step) == f[0] = base /\ \A i \in 1 .. n : f[i] = step[<<f[i - 1], i>>]

\* A recursive function along 0 .. n exists.
LEMMA Recursion ==
    ASSUME NEW n \in Nat, NEW D, NEW base \in D, NEW step \in [D \X (1 .. n) -> D]
    PROVE  \E f \in [0 .. n -> D] : IsRun(f, n, base, step)
<1> DEFINE Long == {j \in 0 .. n : \E f \in [0 .. j -> D] : IsRun(f, j, base, step)}
           longs == [j \in 0 .. n |-> j]
<1>1. longs[0] \in Long
  <2> DEFINE f == [i \in 0 .. 0 |-> base]
  <2>1. f \in [0 .. 0 -> D] /\ IsRun(f, 0, base, step)
    BY DEF IsRun
  <2> QED  BY <2>1
<1>2. ASSUME NEW j \in 1 .. n, longs[j - 1] \in Long
      PROVE  longs[j] \in Long
  <2>1. j - 1 \in 0 .. n /\ j \in 0 .. n /\ j - 1 \in Long
    BY <1>2
  <2>2. PICK f \in [0 .. j - 1 -> D] : IsRun(f, j - 1, base, step)
    BY <2>1
  <2> DEFINE g == [i \in 0 .. j |-> IF i = j THEN step[<<f[j - 1], j>>] ELSE f[i]]
  <2>3. f[j - 1] \in D
    OBVIOUS
  <2>4. step[<<f[j - 1], j>>] \in D
    BY <2>3
  <2>5. g \in [0 .. j -> D]
    BY <2>4
  <2>6. \A i \in 0 .. j - 1 : g[i] = f[i]
    OBVIOUS
  <2>7. g[j] = step[<<g[j - 1], j>>]
    <3>1. j - 1 \in 0 .. j - 1 /\ j \in 0 .. j
      OBVIOUS
    <3>2. g[j] = step[<<f[j - 1], j>>]
      BY <3>1
    <3> HIDE DEF g
    <3> QED  BY <2>6, <3>1, <3>2
  <2> HIDE DEF g
  <2>8. g[0] = base
    BY <2>2, <2>6, 0 \in 0 .. j - 1 DEF IsRun
  <2>9. \A i \in 1 .. j : g[i] = step[<<g[i - 1], i>>]
    <3>1. ASSUME NEW i \in 1 .. j, i # j
          PROVE  g[i] = step[<<g[i - 1], i>>]
      <4>1. i \in 1 .. j - 1 /\ i \in 0 .. j - 1 /\ i - 1 \in 0 .. j - 1
        BY <3>1
      <4> QED  BY <2>2, <2>6, <4>1 DEF IsRun
    <3> QED  BY <2>7, <3>1
  <2>10. j \in Long
    BY <2>1, <2>5, <2>8, <2>9 DEF IsRun
  <2> QED  BY <2>1, <2>10
<1>3. longs[n] = n
  OBVIOUS
<1> HIDE DEF Long, longs
<1>4. \A j \in 0 .. n : longs[j] \in Long
  BY <1>1, <1>2, Induction
<1>5. n \in Long
  BY <1>3, <1>4
<1> QED  BY <1>5 DEF Long

---------------------------------------------------------------------------
(* What each step of a fold keeps, the fold keeps. *)

\* set_edge, edge by edge.
LEMMA SetEdgesKeeps ==
    ASSUME NEW D, NEW g, NEW edges, Len(edges) \in Nat,
           g \in D,
           \A h \in D : \A i \in 1 .. Len(edges) : SetEdge(h, edges[i].from, [to |-> edges[i].to, cost |-> edges[i].cost]) \in D
    PROVE  SetEdges(g, edges) \in D
<1> DEFINE N == Len(edges)
           Step(h, i) == SetEdge(h, edges[i].from, [to |-> edges[i].to, cost |-> edges[i].cost])
           step == [x \in D \X (1 .. N) |-> Step(x[1], x[2])]
           IsThis(f) == f = [n \in 0 .. N |-> IF n = 0 THEN g ELSE Step(f[n - 1], n)]
           run == CHOOSE f : IsThis(f)
<1>1. \A h \in D, i \in 1 .. N : step[<<h, i>>] = Step(h, i)
  OBVIOUS
<1>2. step \in [D \X (1 .. N) -> D]
  OBVIOUS
<1>3. SetEdges(g, edges) = run[N]
  BY DEF SetEdges
<1>4. N \in Nat
  OBVIOUS
<1>5. \A h \in D : \A i \in 1 .. N : Step(h, i) \in D
  OBVIOUS
<1> HIDE DEF step, Step, N
<1>6. PICK f \in [0 .. N -> D] : IsRun(f, N, g, step)
  BY <1>2, <1>4, Recursion, Zenon
<1>7. IsThis(f)
  <2>1. ASSUME NEW n \in 0 .. N, n # 0
        PROVE  f[n] = Step(f[n - 1], n)
    BY <1>1, <1>4, <1>6, <2>1, n - 1 \in 0 .. N, n \in 1 .. N DEF IsRun
  <2> QED  BY <1>6, <2>1 DEF IsRun
<1>8. IsThis(run)
  BY <1>7
<1> HIDE DEF run
<1>9. run[0] = g /\ \A i \in 1 .. N : run[i] = Step(run[i - 1], i)
  BY <1>4, <1>8
<1> HIDE DEF IsThis
<1>10. \A i \in 1 .. N : run[i - 1] \in D => run[i] \in D
  BY <1>5, <1>9
<1>11. run[0] \in D
  BY <1>9
<1>12. \A i \in 0 .. N : run[i] \in D
  BY <1>4, <1>10, <1>11, Induction
<1> QED  BY <1>3, <1>4, <1>12

\* create_edges, pair by pair.
LEMMA CreateEdgesRun ==
    ASSUME NEW D, NEW g, NEW w, Len(WayNodes(g, w)) \in Nat \ {0},
           g \in D,
           \A h \in D : \A i \in 1 .. Len(WayNodes(g, w)) - 1 : Linked(g, w, h, i) \in D
    PROVE  LET N == Len(WayNodes(g, w)) - 1 IN
           \E run : /\ CreateEdges(g, w) = run[N] /\ run[0] = g
                    /\ \A i \in 0 .. N : run[i] \in D
                    /\ \A i \in 1 .. N : run[i] = Linked(g, w, run[i - 1], i)
<1> DEFINE N == Len(WayNodes(g, w)) - 1
           Step(h, i) == Linked(g, w, h, i)
           step == [x \in D \X (1 .. N) |-> Step(x[1], x[2])]
           IsThis(f) == f = [n \in 0 .. N |-> IF n = 0 THEN g ELSE Step(f[n - 1], n)]
           run == CHOOSE f : IsThis(f)
<1>1. \A h \in D, i \in 1 .. N : step[<<h, i>>] = Step(h, i)
  OBVIOUS
<1>2. step \in [D \X (1 .. N) -> D]
  OBVIOUS
<1>3. CreateEdges(g, w) = run[N]
  BY DEF CreateEdges
<1>4. N \in Nat
  OBVIOUS
<1>5. \A h \in D : \A i \in 1 .. N : Step(h, i) \in D
  OBVIOUS
<1> HIDE DEF step, Step, N
<1>6. PICK f \in [0 .. N -> D] : IsRun(f, N, g, step)
  BY <1>2, <1>4, Recursion, Zenon
<1>7. IsThis(f)
  <2>1. ASSUME NEW n \in 0 .. N, n # 0
        PROVE  f[n] = Step(f[n - 1], n)
    BY <1>1, <1>4, <1>6, <2>1, n - 1 \in 0 .. N, n \in 1 .. N DEF IsRun
  <2> QED  BY <1>6, <2>1 DEF IsRun
<1>8. IsThis(run)
  BY <1>7
<1> HIDE DEF run
<1>9. run[0] = g /\ \A i \in 1 .. N : run[i] = Step(run[i - 1], i)
  BY <1>4, <1>8
<1> HIDE DEF IsThis
<1>10. \A i \in 1 .. N : run[i - 1] \in D => run[i] \in D
  BY <1>5, <1>9
<1>11. run[0] \in D
  BY <1>9
<1>12. \A i \in 0 .. N : run[i] \in D
  BY <1>4, <1>10, <1>11, Induction
<1>13. \A i \in 1 .. N : run[i] = Linked(g, w, run[i - 1], i)
  BY <1>9 DEF Step
<1> QED  BY <1>3, <1>9, <1>12, <1>13 DEF N

LEMMA CreateEdgesKeeps ==
    ASSUME NEW D, NEW g, NEW w, Len(WayNodes(g, w)) \in Nat \ {0},
           g \in D,
           \A h \in D : \A i \in 1 .. Len(WayNodes(g, w)) - 1 : Linked(g, w, h, i) \in D
    PROVE  CreateEdges(g, w) \in D
<1>1. Len(WayNodes(g, w)) - 1 \in 0 .. Len(WayNodes(g, w)) - 1
  OBVIOUS
<1> QED  BY <1>1, CreateEdgesRun

\* filter, element by element.
LEMMA KeptRun ==
    ASSUME NEW D, NEW seq, NEW S, Len(seq) \in Nat,
           << >> \in D,
           \A h \in D : \A i \in 1 .. Len(seq) : (IF seq[i] \in S THEN Append(h, seq[i]) ELSE h) \in D
    PROVE  \E run : /\ Kept(seq, S) = run[Len(seq)] /\ run[0] = << >>
                    /\ \A i \in 0 .. Len(seq) : run[i] \in D
                    /\ \A i \in 1 .. Len(seq) :
                          run[i] = IF seq[i] \in S THEN Append(run[i - 1], seq[i]) ELSE run[i - 1]
<1> DEFINE N == Len(seq)
           Step(h, i) == IF seq[i] \in S THEN Append(h, seq[i]) ELSE h
           step == [x \in D \X (1 .. N) |-> Step(x[1], x[2])]
           IsThis(f) == f = [n \in 0 .. N |-> IF n = 0 THEN << >> ELSE Step(f[n - 1], n)]
           run == CHOOSE f : IsThis(f)
<1>1. \A h \in D, i \in 1 .. N : step[<<h, i>>] = Step(h, i)
  OBVIOUS
<1>2. step \in [D \X (1 .. N) -> D]
  OBVIOUS
<1>3. Kept(seq, S) = run[N]
  BY DEF Kept
<1>4. N \in Nat
  OBVIOUS
<1>5. \A h \in D : \A i \in 1 .. N : Step(h, i) \in D
  OBVIOUS
<1> HIDE DEF step, Step, N
<1>6. PICK f \in [0 .. N -> D] : IsRun(f, N, << >>, step)
  BY <1>2, <1>4, Recursion, Zenon
<1>7. IsThis(f)
  <2>1. ASSUME NEW n \in 0 .. N, n # 0
        PROVE  f[n] = Step(f[n - 1], n)
    BY <1>1, <1>4, <1>6, <2>1, n - 1 \in 0 .. N, n \in 1 .. N DEF IsRun
  <2> QED  BY <1>6, <2>1 DEF IsRun
<1>8. IsThis(run)
  BY <1>7
<1> HIDE DEF run
<1>9. run[0] = << >> /\ \A i \in 1 .. N : run[i] = Step(run[i - 1], i)
  BY <1>4, <1>8
<1> HIDE DEF IsThis
<1>10. \A i \in 1 .. N : run[i - 1] \in D => run[i] \in D
  BY <1>5, <1>9
<1>11. run[0] \in D
  BY <1>9
<1>12. \A i \in 0 .. N : run[i] \in D
  BY <1>4, <1>10, <1>11, Induction
<1>13. \A i \in 1 .. N : run[i] = IF seq[i] \in S THEN Append(run[i - 1], seq[i]) ELSE run[i - 1]
  BY <1>9 DEF Step
<1> QED  BY <1>3, <1>9, <1>12, <1>13 DEF N

LEMMA KeptKeeps ==
    ASSUME NEW D, NEW seq, NEW S, Len(seq) \in Nat,
           << >> \in D,
           \A h \in D : \A i \in 1 .. Len(seq) : (IF seq[i] \in S THEN Append(h, seq[i]) ELSE h) \in D
    PROVE  Kept(seq, S) \in D
<1>1. Len(seq) \in 0 .. Len(seq)
  OBVIOUS
<1> QED  BY <1>1, KeptRun

\* flatten_member_nodes, member by member.
LEMMA FlattenedKeeps ==
    ASSUME NEW D, NEW lists, Len(lists) \in Nat,
           << >> \in D,
           \A h \in D : \A i \in 1 .. Len(lists) : Extended(lists, i, h) \in D
    PROVE  Flattened(lists) \in D
<1> DEFINE N == Len(lists)
           Step(h, i) == Extended(lists, i, h)
           step == [x \in D \X (1 .. N) |-> Step(x[1], x[2])]
           IsThis(f) == f = [n \in 0 .. N |-> IF n = 0 THEN << >> ELSE Step(f[n - 1], n)]
           run == CHOOSE f : IsThis(f)
<1>1. \A h \in D, i \in 1 .. N : step[<<h, i>>] = Step(h, i)
  OBVIOUS
<1>2. step \in [D \X (1 .. N) -> D]
  OBVIOUS
<1>3. Flattened(lists) = run[N]
  BY DEF Flattened
<1>4. N \in Nat
  OBVIOUS
<1>5. \A h \in D : \A i \in 1 .. N : Step(h, i) \in D
  OBVIOUS
<1> HIDE DEF step, Step, N
<1>6. PICK f \in [0 .. N -> D] : IsRun(f, N, << >>, step)
  BY <1>2, <1>4, Recursion, Zenon
<1>7. IsThis(f)
  <2>1. ASSUME NEW n \in 0 .. N, n # 0
        PROVE  f[n] = Step(f[n - 1], n)
    BY <1>1, <1>4, <1>6, <2>1, n - 1 \in 0 .. N, n \in 1 .. N DEF IsRun
  <2> QED  BY <1>6, <2>1 DEF IsRun
<1>8. IsThis(run)
  BY <1>7
<1> HIDE DEF run
<1>9. run[0] = << >> /\ \A i \in 1 .. N : run[i] = Step(run[i - 1], i)
  BY <1>4, <1>8
<1> HIDE DEF IsThis
<1>10. \A i \in 1 .. N : run[i - 1] \in D => run[i] \in D
  BY <1>5, <1>9
<1>11. run[0] \in D
  BY <1>9
<1>12. \A i \in 0 .. N : run[i] \in D
  BY <1>4, <1>10, <1>11, Induction
<1> QED  BY <1>3, <1>4, <1>12

\* restriction_as_cloned_nodes, node by node.
LEMMA ClonedNodesRun ==
    ASSUME NEW D, NEW g, NEW counter, NEW nodes, Len(nodes) \in Nat \ {0},
           NoWalk(counter, nodes) \in D,
           \A h \in D : \A i \in 1 .. Len(nodes) - 1 : Walked(g, nodes, h, i + 1) \in D
    PROVE  LET N == Len(nodes) - 1 IN
           \E run : /\ ClonedNodes(g, counter, nodes) = run[N] /\ run[0] = NoWalk(counter, nodes)
                    /\ \A i \in 0 .. N : run[i] \in D
                    /\ \A i \in 1 .. N : run[i] = Walked(g, nodes, run[i - 1], i + 1)
<1> DEFINE N == Len(nodes) - 1
           Step(h, i) == Walked(g, nodes, h, i + 1)
           step == [x \in D \X (1 .. N) |-> Step(x[1], x[2])]
           IsThis(f) == f = [n \in 0 .. N |-> IF n = 0 THEN NoWalk(counter, nodes) ELSE Step(f[n - 1], n)]
           run == CHOOSE f : IsThis(f)
<1>1. \A h \in D, i \in 1 .. N : step[<<h, i>>] = Step(h, i)
  OBVIOUS
<1>2. step \in [D \X (1 .. N) -> D]
  OBVIOUS
<1>3. ClonedNodes(g, counter, nodes) = run[N]
  BY DEF ClonedNodes
<1>4. N \in Nat
  OBVIOUS
<1>5. \A h \in D : \A i \in 1 .. N : Step(h, i) \in D
  OBVIOUS
<1> HIDE DEF step, Step, N
<1>6. PICK f \in [0 .. N -> D] : IsRun(f, N, NoWalk(counter, nodes), step)
  BY <1>2, <1>4, Recursion, Zenon
<1>7. IsThis(f)
  <2>1. ASSUME NEW n \in 0 .. N, n # 0
        PROVE  f[n] = Step(f[n - 1], n)
    BY <1>1, <1>4, <1>6, <2>1, n - 1 \in 0 .. N, n \in 1 .. N DEF IsRun
  <2> QED  BY <1>6, <2>1 DEF IsRun
<1>8. IsThis(run)
  BY <1>7
<1> HIDE DEF run
<1>9. run[0] = NoWalk(counter, nodes) /\ \A i \in 1 .. N : run[i] = Step(run[i - 1], i)
  BY <1>4, <1>8
<1> HIDE DEF IsThis
<1>10. \A i \in 1 .. N : run[i - 1] \in D => run[i] \in D
  BY <1>5, <1>9
<1>11. run[0] \in D
  BY <1>9
<1>12. \A i \in 0 .. N : run[i] \in D
  BY <1>4, <1>10, <1>11, Induction
<1>13. \A i \in 1 .. N : run[i] = Walked(g, nodes, run[i - 1], i + 1)
  BY <1>9 DEF Step
<1> QED  BY <1>3, <1>9, <1>12, <1>13 DEF N

LEMMA ClonedNodesKeeps ==
    ASSUME NEW D, NEW g, NEW counter, NEW nodes, Len(nodes) \in Nat \ {0},
           NoWalk(counter, nodes) \in D,
           \A h \in D : \A i \in 1 .. Len(nodes) - 1 : Walked(g, nodes, h, i + 1) \in D
    PROVE  ClonedNodes(g, counter, nodes) \in D
<1>1. Len(nodes) - 1 \in 0 .. Len(nodes) - 1
  OBVIOUS
<1> QED  BY <1>1, ClonedNodesRun

---------------------------------------------------------------------------
(* Graphs, and what the operations of graph.rs do to them *)

Edge == [to : Int, cost : Nat]

\* No two edges of a list lead to the same node.
OneEdgePerTarget(es) == \A i, j \in DOMAIN es : es[i].to = es[j].to => i = j

EdgeLists == {es \in Seq(Edge) : OneEdgePerTarget(es)}

Nodes == [osm_id : Int, pos : Positions, edges : EdgeLists]

IsGraph(g) == DOMAIN g \subseteq Int /\ g \in [DOMAIN g -> Nodes]

EdgesOf(g, id) == ToSet(g[id].edges)

\* The same nodes, whatever their edges are.
SameNodes(g, h) ==
    /\ h \in [DOMAIN g -> Nodes]
    /\ \A id \in DOMAIN g : h[id].osm_id = g[id].osm_id /\ h[id].pos = g[id].pos

LEMMA EdgesOfGraph ==
    ASSUME NEW g, IsGraph(g)
    PROVE  /\ \A id \in DOMAIN g : /\ id \in Int
                                   /\ g[id] \in Nodes
                                   /\ g[id].edges \in EdgeLists
                                   /\ GetEdges(g, id) = g[id].edges
                                   /\ EdgesOf(g, id) \subseteq Edge
           /\ \A id : id \notin DOMAIN g => GetEdges(g, id) = << >>
<1>1. ASSUME NEW id \in DOMAIN g
      PROVE  id \in Int /\ g[id] \in Nodes /\ g[id].edges \in EdgeLists
  BY DEF IsGraph, Nodes
<1>2. ASSUME NEW es \in EdgeLists
      PROVE  ToSet(es) \subseteq Edge
  BY DEF EdgeLists, ToSet
<1> QED  BY <1>1, <1>2 DEF GetEdges, HasNode, EdgesOf

\* get_edges answers no edges for a node that does not exist.
LEMMA GetEdgesIsList ==
    ASSUME NEW g, IsGraph(g), NEW id
    PROVE  /\ GetEdges(g, id) \in Seq(Edge)
           /\ id \in DOMAIN g => GetEdges(g, id) = g[id].edges
           /\ id \notin DOMAIN g => GetEdges(g, id) = << >>
<1>1. CASE id \in DOMAIN g
  BY <1>1, EdgesOfGraph DEF EdgeLists
<1>2. CASE id \notin DOMAIN g
  <2>1. GetEdges(g, id) = << >>
    BY <1>2, EdgesOfGraph
  <2> QED  BY <1>2, <2>1
<1> QED  BY <1>1, <1>2

LEMMA FirstEdgeIsThere ==
    ASSUME NEW es \in Seq(Edge), NEW to, EdgesTo(es, to) # {}
    PROVE  FirstEdgeTo(es, to) \in DOMAIN es /\ es[FirstEdgeTo(es, to)].to = to
<1>1. EdgesTo(es, to) \subseteq Nat
  BY DEF EdgesTo
<1>2. \E i \in EdgesTo(es, to) : \A j \in EdgesTo(es, to) : i <= j
  BY <1>1, LeastNatural
<1>3. FirstEdgeTo(es, to) \in EdgesTo(es, to)
  BY <1>2 DEF FirstEdgeTo
<1> QED  BY <1>3 DEF EdgesTo

LEMMA PutEdgeResult ==
    ASSUME NEW es \in EdgeLists, NEW e \in Edge
    PROVE  PutEdge(es, e) \in EdgeLists /\ ToSet(PutEdge(es, e)) \subseteq ToSet(es) \cup {e}
<1> DEFINE new == PutEdge(es, e)
<1>1. es \in Seq(Edge) /\ OneEdgePerTarget(es)
  BY DEF EdgeLists
<1>2. CASE EdgesTo(es, e.to) = {}
  <2>1. new = Append(es, e)
    BY <1>2 DEF PutEdge
  <2>2. /\ new \in Seq(Edge)
        /\ new[Len(es) + 1] = e
        /\ \A i \in 1 .. Len(es) : new[i] = es[i]
        /\ DOMAIN new = 1 .. Len(es) + 1
        /\ DOMAIN es = 1 .. Len(es)
        /\ Len(es) \in Nat
    BY <1>1, <2>1
  <2>3. \A i \in DOMAIN es : es[i].to # e.to
    BY <1>2 DEF EdgesTo
  <2>4. \A j \in DOMAIN new : j = Len(es) + 1 \/ j \in DOMAIN es
    BY <2>2
  <2>5. OneEdgePerTarget(new)
    BY <1>1, <2>2, <2>3, <2>4 DEF OneEdgePerTarget
  <2> QED  BY <2>2, <2>4, <2>5 DEF EdgeLists, ToSet
<1>3. CASE EdgesTo(es, e.to) # {}
  <2> DEFINE k == FirstEdgeTo(es, e.to)
  <2>1. k \in DOMAIN es /\ es[k].to = e.to
    BY <1>1, <1>3, FirstEdgeIsThere
  <2>2. new = [es EXCEPT ![k] = e]
    BY <1>3 DEF PutEdge
  <2> HIDE DEF k
  <2>3. /\ new \in Seq(Edge)
        /\ DOMAIN new = DOMAIN es
        /\ new[k] = e
        /\ \A j \in DOMAIN es : j # k => new[j] = es[j]
    BY <1>1, <2>1, <2>2
  <2>4. \A j \in DOMAIN es : j # k => es[j].to # e.to
    BY <1>1, <2>1 DEF OneEdgePerTarget
  <2>5. OneEdgePerTarget(new)
    BY <1>1, <2>3, <2>4 DEF OneEdgePerTarget
  <2> QED  BY <2>3, <2>5 DEF EdgeLists, ToSet
<1> QED  BY <1>2, <1>3

\* set_edge leaves an edge to the node there, and those to others as they are.
LEMMA PutEdgeLeaves ==
    ASSUME NEW es \in EdgeLists, NEW e \in Edge
    PROVE  /\ e \in ToSet(PutEdge(es, e))
           /\ \A x \in ToSet(es) : x.to # e.to => x \in ToSet(PutEdge(es, e))
<1> DEFINE new == PutEdge(es, e)
<1>1. es \in Seq(Edge)
  BY DEF EdgeLists
<1>2. CASE EdgesTo(es, e.to) = {}
  <2>1. new = Append(es, e)
    BY <1>2 DEF PutEdge
  <2>2. /\ Len(es) + 1 \in DOMAIN new /\ new[Len(es) + 1] = e
        /\ \A i \in DOMAIN es : i \in DOMAIN new /\ new[i] = es[i]
    BY <1>1, <2>1
  <2> QED  BY <2>2 DEF ToSet
<1>3. CASE EdgesTo(es, e.to) # {}
  <2> DEFINE k == FirstEdgeTo(es, e.to)
  <2>1. k \in DOMAIN es /\ es[k].to = e.to
    BY <1>1, <1>3, FirstEdgeIsThere
  <2>2. new = [es EXCEPT ![k] = e]
    BY <1>3 DEF PutEdge
  <2> HIDE DEF k
  <2>3. DOMAIN new = DOMAIN es /\ new[k] = e /\ \A j \in DOMAIN es : j # k => new[j] = es[j]
    BY <1>1, <2>1, <2>2
  <2> QED  BY <2>1, <2>3 DEF ToSet
<1> QED  BY <1>2, <1>3

LEMMA SwapRemoveResult ==
    ASSUME NEW es \in EdgeLists, NEW k \in DOMAIN es
    PROVE  /\ SwapRemove(es, k) \in EdgeLists /\ ToSet(SwapRemove(es, k)) \subseteq ToSet(es)
           /\ \A e \in ToSet(SwapRemove(es, k)) : e.to # es[k].to
<1> DEFINE new == SwapRemove(es, k)
           n == Len(es)
           at == [j \in 1 .. n - 1 |-> IF j = k THEN n ELSE j]
<1>1. n \in Nat /\ DOMAIN es = 1 .. n /\ k \in 1 .. n /\ es \in Seq(Edge) /\ OneEdgePerTarget(es)
  BY DEF EdgeLists
<1>2. /\ DOMAIN new = 1 .. n - 1
      /\ \A j \in 1 .. n - 1 : at[j] \in 1 .. n /\ new[j] = es[at[j]]
  BY <1>1 DEF SwapRemove
<1>3. \A i, j \in 1 .. n - 1 : at[i] = at[j] => i = j
  BY <1>1
<1>4. new \in Seq(Edge)
  <2>1. \A j \in 1 .. n - 1 : new[j] \in Edge
    BY <1>1, <1>2
  <2>2. n - 1 \in Nat
    BY <1>1
  <2>3. new = [j \in 1 .. n - 1 |-> new[j]]
    BY <1>2 DEF SwapRemove
  <2> QED  BY <2>1, <2>2, <2>3
<1>5. OneEdgePerTarget(new)
  BY <1>1, <1>2, <1>3 DEF OneEdgePerTarget
<1>6. \A j \in 1 .. n - 1 : at[j] # k
  BY <1>1
<1> HIDE DEF new, at, n
<1>7. ToSet(new) \subseteq ToSet(es)
  BY <1>1, <1>2 DEF ToSet
<1>8. \A e \in ToSet(new) : e.to # es[k].to
  BY <1>1, <1>2, <1>6 DEF ToSet, OneEdgePerTarget
<1> QED  BY <1>4, <1>5, <1>7, <1>8 DEF EdgeLists, new

\* A node of a graph gets other edges.
LEMMA EdgesReplaced ==
    ASSUME NEW g, IsGraph(g), NEW id \in DOMAIN g, NEW es \in EdgeLists
    PROVE  LET h == [g EXCEPT ![id].edges = es] IN
           /\ SameNodes(g, h)
           /\ h[id].edges = es
           /\ \A x \in DOMAIN g : x # id => h[x] = g[x]
<1> DEFINE h == [g EXCEPT ![id].edges = es]
<1>1. g \in [DOMAIN g -> Nodes]
  BY DEF IsGraph
<1>2. [g[id] EXCEPT !.edges = es] \in Nodes
  BY <1>1 DEF Nodes
<1>3. h \in [DOMAIN g -> Nodes]
  BY <1>1, <1>2
<1>4. h[id] = [g[id] EXCEPT !.edges = es] /\ \A x \in DOMAIN g : x # id => h[x] = g[x]
  BY <1>1
<1>5. h[id].osm_id = g[id].osm_id /\ h[id].pos = g[id].pos /\ h[id].edges = es
  BY <1>1, <1>4 DEF Nodes
<1> QED  BY <1>3, <1>4, <1>5 DEF SameNodes

LEMMA SetEdgeResult ==
    ASSUME NEW g, IsGraph(g), NEW from, NEW to, NEW cost \in Nat
    PROVE  LET h == SetEdge(g, from, [to |-> to, cost |-> cost]) IN
           /\ SameNodes(g, h)
           /\ \A id \in DOMAIN g : \A e \in EdgesOf(h, id) :
                 \/ e \in EdgesOf(g, id)
                 \/ e = [to |-> to, cost |-> cost] /\ from = id /\ to \in DOMAIN g
<1> DEFINE e == [to |-> to, cost |-> cost]
           h == SetEdge(g, from, e)
<1>1. CASE to \in DOMAIN g /\ from \in DOMAIN g
  <2>1. e \in Edge /\ e.to = to
    BY <1>1, EdgesOfGraph DEF Edge
  <2> HIDE DEF e
  <2>2. h = [g EXCEPT ![from].edges = PutEdge(g[from].edges, e)]
    BY <1>1, <2>1 DEF SetEdge, HasNode
  <2>3. g[from].edges \in EdgeLists
    BY <1>1, EdgesOfGraph
  <2>4. /\ PutEdge(g[from].edges, e) \in EdgeLists
        /\ ToSet(PutEdge(g[from].edges, e)) \subseteq ToSet(g[from].edges) \cup {e}
    BY <2>1, <2>3, PutEdgeResult
  <2> DEFINE es == PutEdge(g[from].edges, e)
  <2> HIDE DEF h, es
  <2>5. SameNodes(g, h) /\ h[from].edges = es /\ \A x \in DOMAIN g : x # from => h[x] = g[x]
    <3>1. h = [g EXCEPT ![from].edges = es] /\ es \in EdgeLists
      BY <2>2, <2>4 DEF es
    <3> QED  BY <1>1, <3>1, EdgesReplaced
  <2> QED  BY <1>1, <2>4, <2>5 DEF EdgesOf, e, es, h
<1>2. CASE ~ (to \in DOMAIN g /\ from \in DOMAIN g)
  <2>1. h = g
    BY <1>2 DEF SetEdge, HasNode
  <2> QED  BY <2>1 DEF SameNodes, IsGraph
<1> QED  BY <1>1, <1>2

LEMMA SetEdgeLeaves ==
    ASSUME NEW g, IsGraph(g), NEW from \in DOMAIN g, NEW to \in DOMAIN g, NEW cost \in Nat
    PROVE  LET h == SetEdge(g, from, [to |-> to, cost |-> cost]) IN
           /\ [to |-> to, cost |-> cost] \in EdgesOf(h, from)
           /\ \A id \in DOMAIN g : \A e \in EdgesOf(g, id) :
                 e \in EdgesOf(h, id) \/ (id = from /\ e.to = to)
<1> DEFINE e == [to |-> to, cost |-> cost]
           h == SetEdge(g, from, e)
           es == PutEdge(g[from].edges, e)
<1>1. e \in Edge /\ e.to = to
  BY EdgesOfGraph DEF Edge
<1> HIDE DEF e
<1>2. h = [g EXCEPT ![from].edges = PutEdge(g[from].edges, e)]
  BY <1>1 DEF SetEdge, HasNode
<1>3. g[from].edges \in EdgeLists
  BY EdgesOfGraph
<1>4. /\ PutEdge(g[from].edges, e) \in EdgeLists
      /\ e \in ToSet(es) /\ \A x \in ToSet(g[from].edges) : x.to # e.to => x \in ToSet(es)
  BY <1>1, <1>3, PutEdgeResult, PutEdgeLeaves
<1> HIDE DEF h, es
<1>5. h[from].edges = es /\ \A x \in DOMAIN g : x # from => h[x] = g[x]
  <2>1. h = [g EXCEPT ![from].edges = es] /\ es \in EdgeLists
    BY <1>2, <1>4 DEF es
  <2> QED  BY <2>1, EdgesReplaced
<1> QED  BY <1>1, <1>4, <1>5 DEF EdgesOf, e, h

LEMMA DeleteEdgeResult ==
    ASSUME NEW g, IsGraph(g), NEW from, NEW to
    PROVE  LET h == DeleteEdge(g, from, to) IN
           /\ SameNodes(g, h) /\ \A id \in DOMAIN g : EdgesOf(h, id) \subseteq EdgesOf(g, id)
           /\ from \in DOMAIN g => \A e \in EdgesOf(h, from) : e.to # to
<1> DEFINE h == DeleteEdge(g, from, to)
<1>1. CASE HasEdge(g, from, to)
  <2>1. from \in DOMAIN g
    BY <1>1 DEF HasEdge, GetEdges, EdgesTo, HasNode
  <2>2. g[from].edges \in EdgeLists /\ g[from].edges \in Seq(Edge)
    BY <2>1, EdgesOfGraph DEF EdgeLists
  <2> DEFINE k == FirstEdgeTo(g[from].edges, to)
  <2>3. k \in DOMAIN g[from].edges /\ g[from].edges[k].to = to
    BY <1>1, <2>1, <2>2, FirstEdgeIsThere, EdgesOfGraph DEF HasEdge
  <2>4. h = [g EXCEPT ![from].edges = SwapRemove(g[from].edges, k)]
    BY <1>1, <2>1 DEF DeleteEdge
  <2> HIDE DEF k
  <2>5. /\ SwapRemove(g[from].edges, k) \in EdgeLists
        /\ ToSet(SwapRemove(g[from].edges, k)) \subseteq ToSet(g[from].edges)
        /\ \A e \in ToSet(SwapRemove(g[from].edges, k)) : e.to # to
    BY <2>2, <2>3, SwapRemoveResult
  <2> DEFINE es == SwapRemove(g[from].edges, k)
  <2> HIDE DEF h, es
  <2>6. SameNodes(g, h) /\ h[from].edges = es /\ \A x \in DOMAIN g : x # from => h[x] = g[x]
    <3>1. h = [g EXCEPT ![from].edges = es] /\ es \in EdgeLists
      BY <2>4, <2>5 DEF es
    <3> QED  BY <2>1, <3>1, EdgesReplaced
  <2> QED  BY <2>5, <2>6 DEF EdgesOf, es, h
<1>2. CASE ~ HasEdge(g, from, to)
  <2>1. h = g
    BY <1>2 DEF DeleteEdge
  <2>2. \A e \in ToSet(GetEdges(g, from)) : e.to # to
    BY <1>2 DEF HasEdge, EdgesTo, ToSet
  <2>3. from \in DOMAIN g => \A e \in EdgesOf(g, from) : e.to # to
    BY <2>2 DEF GetEdges, HasNode, EdgesOf
  <2> QED  BY <2>1, <2>3 DEF SameNodes, IsGraph
<1> QED  BY <1>1, <1>2

LEMMA SameNodesFacts ==
    ASSUME NEW g, IsGraph(g)
    PROVE  /\ SameNodes(g, g)
           /\ \A h : SameNodes(g, h) => IsGraph(h) /\ DOMAIN h = DOMAIN g
           /\ \A h, k : SameNodes(g, h) /\ SameNodes(h, k) => SameNodes(g, k)
BY DEF SameNodes, IsGraph

\* An edge between existing nodes, of those that a step of a fold may have set.
IsSet(g, edges, id, e) ==
    \E i \in 1 .. Len(edges) :
        /\ edges[i].from = id /\ e = [to |-> edges[i].to, cost |-> edges[i].cost]
        /\ id \in DOMAIN g /\ edges[i].to \in DOMAIN g

LEMMA SetEdgesResult ==
    ASSUME NEW g, IsGraph(g), NEW edges, Len(edges) \in Nat,
           \A i \in 1 .. Len(edges) : edges[i].cost \in Nat
    PROVE  LET h == SetEdges(g, edges) IN
           /\ SameNodes(g, h)
           /\ \A id \in DOMAIN g : \A e \in EdgesOf(h, id) : e \in EdgesOf(g, id) \/ IsSet(g, edges, id, e)
<1> DEFINE New(h) == \A id \in DOMAIN g : \A e \in EdgesOf(h, id) :
                          e \in EdgesOf(g, id) \/ IsSet(g, edges, id, e)
           D == {h \in [DOMAIN g -> Nodes] : SameNodes(g, h) /\ New(h)}
           Step(h, i) == SetEdge(h, edges[i].from, [to |-> edges[i].to, cost |-> edges[i].cost])
<1>1. g \in D
  BY SameNodesFacts DEF IsGraph
<1>2. ASSUME NEW h \in D, NEW i \in 1 .. Len(edges)
      PROVE  Step(h, i) \in D
  <2>1. IsGraph(h) /\ DOMAIN h = DOMAIN g /\ edges[i].cost \in Nat
    BY SameNodesFacts
  <2> DEFINE k == Step(h, i)
  <2>2. /\ SameNodes(h, k)
        /\ \A id \in DOMAIN h : \A e \in EdgesOf(k, id) :
              \/ e \in EdgesOf(h, id)
              \/ /\ e = [to |-> edges[i].to, cost |-> edges[i].cost]
                 /\ edges[i].from = id /\ edges[i].to \in DOMAIN h
    BY <2>1, SetEdgeResult
  <2> HIDE DEF k
  <2>3. SameNodes(g, k)
    BY <2>2, SameNodesFacts
  <2>4. New(k)
    BY <2>1, <2>2 DEF IsSet
  <2>5. k \in [DOMAIN g -> Nodes]
    BY <2>3 DEF SameNodes
  <2>6. k \in D
    BY <2>3, <2>4, <2>5
  <2> QED  BY <2>6 DEF k
<1> HIDE DEF D
<1>3. SetEdges(g, edges) \in D
  BY <1>1, <1>2, SetEdgesKeeps
<1> QED  BY <1>3 DEF D

\* delete_edge, edge by edge.
LEMMA DeleteEdgesRun ==
    ASSUME NEW g, IsGraph(g), NEW edges, Len(edges) \in Nat
    PROVE  \E run : /\ DeleteEdges(g, edges) = run[Len(edges)] /\ run[0] = g
                    /\ \A i \in 0 .. Len(edges) :
                          SameNodes(g, run[i]) /\ \A id \in DOMAIN g : EdgesOf(run[i], id) \subseteq EdgesOf(g, id)
                    /\ \A i \in 1 .. Len(edges) :
                          run[i] = DeleteEdge(run[i - 1], edges[i].from, edges[i].to)
<1> DEFINE D == {h \in [DOMAIN g -> Nodes] :
                    SameNodes(g, h) /\ \A id \in DOMAIN g : EdgesOf(h, id) \subseteq EdgesOf(g, id)}
           N == Len(edges)
           Step(h, i) == DeleteEdge(h, edges[i].from, edges[i].to)
           step == [x \in D \X (1 .. N) |-> Step(x[1], x[2])]
           IsThis(f) == f = [n \in 0 .. N |-> IF n = 0 THEN g ELSE Step(f[n - 1], n)]
           run == CHOOSE f : IsThis(f)
<1>1. g \in D
  BY SameNodesFacts DEF IsGraph
<1>2. ASSUME NEW h \in D, NEW i \in 1 .. N
      PROVE  Step(h, i) \in D
  <2> DEFINE k == Step(h, i)
  <2>1. IsGraph(h) /\ DOMAIN h = DOMAIN g
    BY SameNodesFacts
  <2>2. SameNodes(h, k) /\ \A id \in DOMAIN h : EdgesOf(k, id) \subseteq EdgesOf(h, id)
    BY <2>1, DeleteEdgeResult
  <2> HIDE DEF k
  <2>3. SameNodes(g, k)
    BY <2>2, SameNodesFacts
  <2>4. k \in [DOMAIN g -> Nodes]
    BY <2>3 DEF SameNodes
  <2>5. k \in D
    BY <2>1, <2>2, <2>3, <2>4
  <2> QED  BY <2>5 DEF k
<1>3. \A h \in D : SameNodes(g, h) /\ \A id \in DOMAIN g : EdgesOf(h, id) \subseteq EdgesOf(g, id)
  OBVIOUS
<1> HIDE DEF D
<1>4. \A h \in D, i \in 1 .. N : step[<<h, i>>] = Step(h, i)
  OBVIOUS
<1>5. step \in [D \X (1 .. N) -> D]
  <2> HIDE DEF Step, N
  <2> QED  BY <1>2
<1>6. DeleteEdges(g, edges) = run[N] /\ N \in Nat
  BY DEF DeleteEdges
<1> HIDE DEF step, Step, N
<1>7. PICK f \in [0 .. N -> D] : IsRun(f, N, g, step)
  BY <1>1, <1>5, <1>6, Recursion, Zenon
<1>8. IsThis(f)
  <2>1. ASSUME NEW n \in 0 .. N, n # 0
        PROVE  f[n] = Step(f[n - 1], n)
    BY <1>4, <1>6, <1>7, <2>1, n - 1 \in 0 .. N, n \in 1 .. N DEF IsRun
  <2> QED  BY <1>7, <2>1 DEF IsRun
<1>9. IsThis(run)
  BY <1>8
<1> HIDE DEF run
<1>10. run[0] = g /\ \A i \in 1 .. N : run[i] = Step(run[i - 1], i)
  BY <1>6, <1>9
<1> HIDE DEF IsThis
<1>11. run[0] \in D /\ \A i \in 1 .. N : run[i - 1] \in D => run[i] \in D
  BY <1>1, <1>2, <1>10
<1>12. \A i \in 0 .. N : run[i] \in D
  BY <1>6, <1>11, Induction
<1>13. \A i \in 1 .. N : run[i] = DeleteEdge(run[i - 1], edges[i].from, edges[i].to)
  BY <1>10 DEF Step
<1> QED  BY <1>3, <1>6, <1>10, <1>12, <1>13 DEF N

LEMMA DeleteEdgesResult ==
    ASSUME NEW g, IsGraph(g), NEW edges, Len(edges) \in Nat
    PROVE  LET h == DeleteEdges(g, edges) IN
           /\ SameNodes(g, h) /\ \A id \in DOMAIN g : EdgesOf(h, id) \subseteq EdgesOf(g, id)
           /\ \A i \in 1 .. Len(edges) :
                 edges[i].from \in DOMAIN g => \A e \in EdgesOf(h, edges[i].from) : e.to # edges[i].to
<1>1. PICK run : /\ DeleteEdges(g, edges) = run[Len(edges)] /\ run[0] = g
                 /\ \A i \in 0 .. Len(edges) :
                       SameNodes(g, run[i]) /\ \A id \in DOMAIN g : EdgesOf(run[i], id) \subseteq EdgesOf(g, id)
                 /\ \A i \in 1 .. Len(edges) :
                       run[i] = DeleteEdge(run[i - 1], edges[i].from, edges[i].to)
  BY DeleteEdgesRun
<1>2. ASSUME NEW j \in 1 .. Len(edges), edges[j].from \in DOMAIN g,
             NEW e \in EdgesOf(run[Len(edges)], edges[j].from)
      PROVE  e.to # edges[j].to
\* Once an edge is deleted, no later step brings it back.
  <2> DEFINE Gone(i) == i >= j => \A d \in EdgesOf(run[i], edges[j].from) : d.to # edges[j].to
             Yes == {1}
             gone == [i \in 0 .. Len(edges) |-> IF Gone(i) THEN 1 ELSE 0]
  <2>1. Gone(0)
    OBVIOUS
  <2>2. ASSUME NEW i \in 1 .. Len(edges), Gone(i - 1)
        PROVE  Gone(i)
    <3>1. IsGraph(run[i - 1]) /\ DOMAIN run[i - 1] = DOMAIN g
      BY <1>1, SameNodesFacts
    <3>2. run[i] = DeleteEdge(run[i - 1], edges[i].from, edges[i].to)
      BY <1>1
    <3>3. /\ EdgesOf(run[i], edges[j].from) \subseteq EdgesOf(run[i - 1], edges[j].from)
          /\ i = j => \A d \in EdgesOf(run[i], edges[j].from) : d.to # edges[j].to
      BY <1>2, <3>1, <3>2, DeleteEdgeResult
    <3> QED  BY <2>2, <3>3
  <2>3. \A i \in 0 .. Len(edges) : gone[i] \in {1} <=> Gone(i)
    OBVIOUS
  <2> HIDE DEF Gone, gone
  <2>4. gone[0] \in Yes /\ \A i \in 1 .. Len(edges) : gone[i - 1] \in Yes => gone[i] \in Yes
    BY <2>1, <2>2, <2>3
  <2> HIDE DEF Yes
  <2>5. \A i \in 0 .. Len(edges) : gone[i] \in Yes
    BY <2>4, Induction
  <2>6. Gone(Len(edges))
    BY <2>3, <2>5, Len(edges) \in 0 .. Len(edges) DEF Yes
  <2> QED  BY <1>2, <2>6 DEF Gone
<1> QED  BY <1>1, <1>2, Len(edges) \in 0 .. Len(edges)

---------------------------------------------------------------------------
(* Ways *)

LEMMA KeptResult ==
    ASSUME NEW T, NEW seq \in Seq(T), NEW S
    PROVE  Kept(seq, S) \in Seq(T \cap S)
<1>1. ASSUME NEW h \in Seq(T \cap S), NEW i \in 1 .. Len(seq)
      PROVE  (IF seq[i] \in S THEN Append(h, seq[i]) ELSE h) \in Seq(T \cap S)
  OBVIOUS
<1>2. << >> \in Seq(T \cap S) /\ Len(seq) \in Nat
  OBVIOUS
<1> QED  BY <1>1, <1>2, KeptKeeps

\* Edge: "cost must be greater than the crow-flies distance".
Covers(g, id, e) == e.cost >= 100 * Distance[g[id].pos, g[e.to].pos]

LEMMA PenaltyTimesDistance ==
    ASSUME NEW p \in Int, p >= 100, NEW d \in Nat
    PROVE  p * d \in Nat /\ p * d >= 100 * d
<1>1. p - 100 \in Nat
  OBVIOUS
<1>2. (p - 100) * d \in Nat
  BY <1>1
<1>3. p * d = (p - 100) * d + 100 * d
  OBVIOUS
<1> QED  BY <1>2, <1>3

LEMMA DistanceFacts ==
    ASSUME NEW p \in Positions, NEW q \in Positions
    PROVE  Distance[p, q] \in Nat /\ Distance[q, p] = Distance[p, q]
<1>1. <<p, q>> \in Positions \X Positions
  OBVIOUS
<1>2. Distance \in [Positions \X Positions -> Nat]
  BY DistanceAssumption
<1>3. Distance[<<p, q>>] \in Nat
  BY <1>1, <1>2
<1>4. Distance[p, q] = Distance[q, p]
  BY DistanceAssumption
<1> QED  BY <1>3, <1>4

LEMMA WayCostResult ==
    ASSUME NEW g, IsGraph(g), NEW w, Routable(g, w), NEW a \in DOMAIN g, NEW b \in DOMAIN g
    PROVE  /\ WayCost(g, w, a, b) \in Nat
           /\ Covers(g, a, [to |-> b, cost |-> WayCost(g, w, a, b)])
           /\ Covers(g, b, [to |-> a, cost |-> WayCost(g, w, a, b)])
<1> DEFINE p == WayPenalty(profile, w.tags)
           d == Distance[g[a].pos, g[b].pos]
<1>1. p \in Int /\ p >= 100
  BY DEF Routable
<1>2. g[a].pos \in Positions /\ g[b].pos \in Positions
  BY EdgesOfGraph DEF Nodes
<1>3. d \in Nat /\ Distance[g[b].pos, g[a].pos] = d
  BY <1>2, DistanceFacts
<1>4. WayCost(g, w, a, b) = p * d
  BY DEF WayCost, Pos
<1> HIDE DEF p, d
<1>5. p * d \in Nat /\ p * d >= 100 * d
  BY <1>1, <1>3, PenaltyTimesDistance
<1> QED  BY <1>3, <1>4, <1>5 DEF Covers, d

\* create_edges adds edges among the nodes of the way, none shorter than the distance.
IsWayEdge(g, w, id, e) ==
    id \in ToSet(WayNodes(g, w)) /\ e.to \in ToSet(WayNodes(g, w)) /\ Covers(g, id, e)

LEMMA CreateEdgesResult ==
    ASSUME NEW g, IsGraph(g), NEW w, w.nodes \in Seq(Int), Routable(g, w)
    PROVE  LET h == CreateEdges(g, w) IN
           /\ WayNodes(g, w) \in Seq(DOMAIN g) /\ Len(WayNodes(g, w)) >= 2
           /\ SameNodes(g, h)
           /\ \A id \in DOMAIN g : \A e \in EdgesOf(h, id) :
                 e \in EdgesOf(g, id) \/ IsWayEdge(g, w, id, e)
<1> DEFINE nodes == WayNodes(g, w)
           N == Len(nodes) - 1
           New(h) == \A id \in DOMAIN g : \A e \in EdgesOf(h, id) :
                         e \in EdgesOf(g, id) \/ IsWayEdge(g, w, id, e)
           D == {h \in [DOMAIN g -> Nodes] : SameNodes(g, h) /\ New(h)}
<1>1. nodes \in Seq(Int \cap DOMAIN g)
  BY KeptResult DEF WayNodes
<1>2. nodes \in Seq(DOMAIN g) /\ Len(nodes) >= 2 /\ Len(nodes) \in Nat
  BY <1>1 DEF Routable
<1>3. g \in D
  BY SameNodesFacts DEF IsGraph
<1>4. ASSUME NEW h \in D, NEW a \in ToSet(nodes), NEW b \in ToSet(nodes), NEW c \in Nat,
             Covers(g, a, [to |-> b, cost |-> c])
      PROVE  SetEdge(h, a, [to |-> b, cost |-> c]) \in D
  <2>1. IsGraph(h) /\ DOMAIN h = DOMAIN g
    BY SameNodesFacts
  <2> DEFINE k == SetEdge(h, a, [to |-> b, cost |-> c])
  <2>2. /\ SameNodes(h, k)
        /\ \A id \in DOMAIN h : \A e \in EdgesOf(k, id) :
              e \in EdgesOf(h, id) \/ (e = [to |-> b, cost |-> c] /\ a = id /\ b \in DOMAIN h)
    BY <2>1, SetEdgeResult
  <2> HIDE DEF k
  <2>3. SameNodes(g, k)
    BY <2>2, SameNodesFacts
  <2>4. IsWayEdge(g, w, a, [to |-> b, cost |-> c])
    BY <1>4 DEF IsWayEdge
  <2>5. New(k)
    BY <2>1, <2>2, <2>4
  <2>6. k \in [DOMAIN g -> Nodes]
    BY <2>3 DEF SameNodes
  <2>7. k \in D
    BY <2>3, <2>5, <2>6
  <2> QED  BY <2>7 DEF k
<1>5. ASSUME NEW h \in D, NEW i \in 1 .. N
      PROVE  Linked(g, w, h, i) \in D
  <2> DEFINE left == nodes[i]
             right == nodes[i + 1]
             cost == WayCost(g, w, left, right)
             way == WayDirection(profile, w.tags)
             ahead == IF way.forward THEN SetEdge(h, left, [to |-> right, cost |-> cost]) ELSE h
  <2>1. i \in DOMAIN nodes /\ i + 1 \in DOMAIN nodes
    BY <1>2
  <2>2. /\ left \in ToSet(nodes) /\ right \in ToSet(nodes)
        /\ left \in DOMAIN g /\ right \in DOMAIN g
    BY <1>2, <2>1 DEF ToSet
  <2>3. Linked(g, w, h, i) = IF way.backward THEN SetEdge(ahead, right, [to |-> left, cost |-> cost])
                             ELSE ahead
    BY DEF Linked
  <2> HIDE DEF left, right, nodes, way, D
  <2>4. /\ cost \in Nat
        /\ Covers(g, left, [to |-> right, cost |-> cost])
        /\ Covers(g, right, [to |-> left, cost |-> cost])
    BY <2>2, WayCostResult
  <2> HIDE DEF cost
  <2>5. ahead \in D
    BY <1>4, <2>2, <2>4
  <2> HIDE DEF ahead
  <2> QED  BY <1>4, <2>2, <2>3, <2>4, <2>5
<1>6. N \in Nat /\ Len(nodes) \in Nat \ {0}
  BY <1>2
<1> HIDE DEF D
<1>7. CreateEdges(g, w) \in D
  BY <1>3, <1>5, <1>6, CreateEdgesKeeps
<1> QED  BY <1>2, <1>7 DEF D

\* Of a sequence, sets that agree about its elements keep the same.
LEMMA KeptAlike ==
    ASSUME NEW T, NEW seq \in Seq(T), NEW S, NEW U,
           \A i \in DOMAIN seq : seq[i] \in S <=> seq[i] \in U
    PROVE  Kept(seq, S) = Kept(seq, U)
<1> DEFINE N == Len(seq)
<1>1. ASSUME NEW V
      PROVE  \E run : /\ Kept(seq, V) = run[N] /\ run[0] = << >>
                      /\ \A i \in 1 .. N :
                             run[i] = IF seq[i] \in V THEN Append(run[i - 1], seq[i]) ELSE run[i - 1]
  <2>1. \A h \in Seq(T) : \A i \in 1 .. Len(seq) :
            (IF seq[i] \in V THEN Append(h, seq[i]) ELSE h) \in Seq(T)
    OBVIOUS
  <2>2. << >> \in Seq(T) /\ Len(seq) \in Nat
    OBVIOUS
  <2> DEFINE D == Seq(T)
  <2> HIDE DEF D
  <2>3. PICK run : /\ Kept(seq, V) = run[Len(seq)] /\ run[0] = << >>
                   /\ \A i \in 0 .. Len(seq) : run[i] \in D
                   /\ \A i \in 1 .. Len(seq) :
                         run[i] = IF seq[i] \in V THEN Append(run[i - 1], seq[i]) ELSE run[i - 1]
    <3>1. \A h \in D : \A i \in 1 .. Len(seq) :
              (IF seq[i] \in V THEN Append(h, seq[i]) ELSE h) \in D
      BY <2>1 DEF D
    <3>2. << >> \in D
      BY <2>2 DEF D
    <3> QED  BY <2>2, <3>1, <3>2, KeptRun
  <2> QED  BY <2>3, Zenon
<1>2. N \in Nat /\ DOMAIN seq = 1 .. N
  OBVIOUS
<1> HIDE DEF N
<1>3. PICK f : /\ Kept(seq, S) = f[N] /\ f[0] = << >>
               /\ \A i \in 1 .. N : f[i] = IF seq[i] \in S THEN Append(f[i - 1], seq[i]) ELSE f[i - 1]
  BY <1>1
<1>4. PICK h : /\ Kept(seq, U) = h[N] /\ h[0] = << >>
               /\ \A i \in 1 .. N : h[i] = IF seq[i] \in U THEN Append(h[i - 1], seq[i]) ELSE h[i - 1]
  BY <1>1
<1> DEFINE Yes == {1}
           alike == [i \in 0 .. N |-> IF f[i] = h[i] THEN 1 ELSE 0]
<1>5. alike[0] \in Yes
  BY <1>2, <1>3, <1>4
<1>6. ASSUME NEW i \in 1 .. N, alike[i - 1] \in Yes
      PROVE  alike[i] \in Yes
  <2>1. i - 1 \in 0 .. N /\ i \in 0 .. N /\ i \in DOMAIN seq
    BY <1>2
  <2>2. f[i - 1] = h[i - 1]
    BY <1>6, <2>1
  <2>3. f[i] = h[i]
    BY <1>3, <1>4, <2>1, <2>2
  <2> QED  BY <2>1, <2>3
<1> HIDE DEF alike, Yes
<1>7. \A i \in 0 .. N : alike[i] \in Yes
  BY <1>2, <1>5, <1>6, Induction
<1>8. f[N] = h[N]
  BY <1>2, <1>7 DEF alike, Yes
<1> QED  BY <1>3, <1>4, <1>8

\* The i-th link of a way leads from a to b.
LinksAt(g, w, i, a, b) ==
    LET nodes == WayNodes(g, w)
        way == WayDirection(profile, w.tags)
    IN  \/ way.forward /\ a = nodes[i] /\ b = nodes[i + 1]
        \/ way.backward /\ a = nodes[i + 1] /\ b = nodes[i]

Links(g, w, a, b) == \E i \in 1 .. Len(WayNodes(g, w)) - 1 : LinksAt(g, w, i, a, b)

Link(g, w, a, b) == [to |-> b, cost |-> WayCost(g, w, a, b)]

LEMMA LinkedResult ==
    ASSUME NEW g, IsGraph(g), NEW w, w.nodes \in Seq(Int), Routable(g, w),
           NEW h, SameNodes(g, h), NEW i \in 1 .. Len(WayNodes(g, w)) - 1
    PROVE  LET k == Linked(g, w, h, i) IN
           /\ SameNodes(g, k)
           /\ \A id \in DOMAIN g : \A e \in EdgesOf(k, id) :
                 e \in EdgesOf(h, id) \/ (LinksAt(g, w, i, id, e.to) /\ e = Link(g, w, id, e.to))
           /\ \A id \in DOMAIN g : \A e \in EdgesOf(h, id) :
                 e \in EdgesOf(k, id) \/ LinksAt(g, w, i, id, e.to)
           /\ \A a, b : LinksAt(g, w, i, a, b) => a \in DOMAIN g /\ Link(g, w, a, b) \in EdgesOf(k, a)
<1> DEFINE nodes == WayNodes(g, w)
           left == nodes[i]
           right == nodes[i + 1]
           cost == WayCost(g, w, left, right)
           way == WayDirection(profile, w.tags)
           ahead == IF way.forward THEN SetEdge(h, left, [to |-> right, cost |-> cost]) ELSE h
           k == Linked(g, w, h, i)
<1>1. nodes \in Seq(DOMAIN g) /\ Len(nodes) \in Nat
  BY CreateEdgesResult
<1>2. left \in DOMAIN g /\ right \in DOMAIN g
  BY <1>1
<1>3. IsGraph(h) /\ DOMAIN h = DOMAIN g
  BY SameNodesFacts
<1>4. cost \in Nat /\ WayCost(g, w, right, left) = cost
  <2>1. cost \in Nat
    BY <1>2, WayCostResult
  <2>2. g[left].pos \in Positions /\ g[right].pos \in Positions
    BY <1>2, EdgesOfGraph DEF Nodes
  <2>3. Distance[g[left].pos, g[right].pos] = Distance[g[right].pos, g[left].pos]
    BY <2>2, DistanceFacts
  <2> QED  BY <2>1, <2>3 DEF WayCost, Pos
<1>5. Link(g, w, left, right) = [to |-> right, cost |-> cost]
      /\ Link(g, w, right, left) = [to |-> left, cost |-> cost]
  BY <1>4 DEF Link
<1>6. k = IF way.backward THEN SetEdge(ahead, right, [to |-> left, cost |-> cost]) ELSE ahead
  BY DEF Linked
<1>7. \A a, b : LinksAt(g, w, i, a, b) <=>
          (way.forward /\ a = left /\ b = right) \/ (way.backward /\ a = right /\ b = left)
  BY DEF LinksAt
<1> HIDE DEF left, right, nodes, way, cost
<1>8. /\ SameNodes(g, ahead)
      /\ \A id \in DOMAIN g : \A e \in EdgesOf(ahead, id) :
            e \in EdgesOf(h, id) \/ (way.forward /\ id = left /\ e = [to |-> right, cost |-> cost])
      /\ \A id \in DOMAIN g : \A e \in EdgesOf(h, id) :
            e \in EdgesOf(ahead, id) \/ (way.forward /\ id = left /\ e.to = right)
      /\ way.forward => [to |-> right, cost |-> cost] \in EdgesOf(ahead, left)
  <2>1. CASE way.forward
    <3>1. ahead = SetEdge(h, left, [to |-> right, cost |-> cost])
      BY <2>1
    <3>2. SameNodes(h, ahead)
      BY <1>3, <1>4, <3>1, SetEdgeResult
    <3>3. SameNodes(g, ahead)
      BY <3>2, SameNodesFacts
    <3>4. \A id \in DOMAIN g : \A e \in EdgesOf(ahead, id) :
              e \in EdgesOf(h, id) \/ (id = left /\ e = [to |-> right, cost |-> cost])
      BY <1>3, <1>4, <3>1, SetEdgeResult
    <3>5. /\ [to |-> right, cost |-> cost] \in EdgesOf(ahead, left)
          /\ \A id \in DOMAIN g : \A e \in EdgesOf(h, id) :
                e \in EdgesOf(ahead, id) \/ (id = left /\ e.to = right)
      BY <1>2, <1>3, <1>4, <3>1, SetEdgeLeaves
    <3> QED  BY <2>1, <3>3, <3>4, <3>5
  <2>2. CASE ~ way.forward
    BY <2>2
  <2> QED  BY <2>1, <2>2
<1> HIDE DEF ahead, k
<1>9. CASE way.backward
  <2>1. k = SetEdge(ahead, right, [to |-> left, cost |-> cost]) /\ IsGraph(ahead) /\ DOMAIN ahead = DOMAIN g
    BY <1>6, <1>8, <1>9, SameNodesFacts
  <2>2. SameNodes(ahead, k)
    BY <1>4, <2>1, SetEdgeResult
  <2>3. SameNodes(g, k)
    BY <1>8, <2>2, SameNodesFacts
  <2>4. \A id \in DOMAIN g : \A e \in EdgesOf(k, id) :
            e \in EdgesOf(ahead, id) \/ (id = right /\ e = [to |-> left, cost |-> cost])
    BY <1>4, <2>1, SetEdgeResult
  <2>5. /\ [to |-> left, cost |-> cost] \in EdgesOf(k, right)
        /\ \A id \in DOMAIN g : \A e \in EdgesOf(ahead, id) :
              e \in EdgesOf(k, id) \/ (id = right /\ e.to = left)
    BY <1>2, <1>4, <2>1, SetEdgeLeaves
  <2>6. way.forward => [to |-> right, cost |-> cost] \in EdgesOf(k, left)
    <3>1. [to |-> right, cost |-> cost].to = right
      OBVIOUS
    <3> QED  BY <1>2, <1>8, <2>5, <3>1
  <2> QED  BY <1>2, <1>5, <1>7, <1>8, <1>9, <2>3, <2>4, <2>5, <2>6 DEF k
<1>10. CASE ~ way.backward
  BY <1>2, <1>5, <1>6, <1>7, <1>8, <1>10 DEF k
<1> QED  BY <1>9, <1>10

\* create_edges makes the links of a way, and leaves each other edge there.
LEMMA CreateEdgesLinks ==
    ASSUME NEW g, IsGraph(g), NEW w, w.nodes \in Seq(Int), Routable(g, w)
    PROVE  LET h == CreateEdges(g, w) IN
           /\ \A id \in DOMAIN g : \A e \in EdgesOf(h, id) :
                 e \in EdgesOf(g, id) \/ (Links(g, w, id, e.to) /\ e = Link(g, w, id, e.to))
           /\ \A id \in DOMAIN g : \A e \in EdgesOf(g, id) :
                 e \in EdgesOf(h, id) \/ Links(g, w, id, e.to)
           /\ \A a, b : Links(g, w, a, b) => a \in DOMAIN g /\ Link(g, w, a, b) \in EdgesOf(h, a)
<1> DEFINE N == Len(WayNodes(g, w)) - 1
           New(h) == \A id \in DOMAIN g : \A e \in EdgesOf(h, id) :
                 e \in EdgesOf(g, id) \/ (Links(g, w, id, e.to) /\ e = Link(g, w, id, e.to))
           Old(h) == \A id \in DOMAIN g : \A e \in EdgesOf(g, id) :
                 e \in EdgesOf(h, id) \/ Links(g, w, id, e.to)
           D == {h \in [DOMAIN g -> Nodes] : SameNodes(g, h) /\ New(h) /\ Old(h)}
<1>1. Len(WayNodes(g, w)) \in Nat \ {0} /\ N \in Nat
  BY CreateEdgesResult
<1>2. g \in D
  BY SameNodesFacts DEF IsGraph
<1>3. ASSUME NEW h \in D, NEW i \in 1 .. N
      PROVE  Linked(g, w, h, i) \in D
  <2> DEFINE k == Linked(g, w, h, i)
  <2>1. SameNodes(g, h) /\ New(h) /\ Old(h)
    OBVIOUS
  <2>2. /\ SameNodes(g, k)
        /\ \A id \in DOMAIN g : \A e \in EdgesOf(k, id) :
              e \in EdgesOf(h, id) \/ (LinksAt(g, w, i, id, e.to) /\ e = Link(g, w, id, e.to))
        /\ \A id \in DOMAIN g : \A e \in EdgesOf(h, id) :
              e \in EdgesOf(k, id) \/ LinksAt(g, w, i, id, e.to)
    BY <2>1, LinkedResult
  <2>3. \A a, b : LinksAt(g, w, i, a, b) => Links(g, w, a, b)
    BY DEF Links
  <2> HIDE DEF k
  <2>4. New(k) /\ Old(k)
    BY <2>1, <2>2, <2>3
  <2>5. k \in [DOMAIN g -> Nodes]
    BY <2>2 DEF SameNodes
  <2>6. k \in D
    BY <2>2, <2>4, <2>5
  <2> QED  BY <2>6 DEF k
<1> HIDE DEF D, N
<1>4. PICK run : /\ CreateEdges(g, w) = run[N] /\ run[0] = g
                 /\ \A i \in 0 .. N : run[i] \in D
                 /\ \A i \in 1 .. N : run[i] = Linked(g, w, run[i - 1], i)
  BY <1>1, <1>2, <1>3, CreateEdgesRun DEF N
<1> DEFINE Made(i) == \A j \in 1 .. i : \A a, b :
               LinksAt(g, w, j, a, b) => a \in DOMAIN g /\ Link(g, w, a, b) \in EdgesOf(run[i], a)
           Yes == {1}
           made == [i \in 0 .. N |-> IF Made(i) THEN 1 ELSE 0]
<1>5. made[0] \in Yes
  BY <1>1
<1>6. ASSUME NEW i \in 1 .. N, made[i - 1] \in Yes
      PROVE  made[i] \in Yes
  <2>1. i - 1 \in 0 .. N /\ i \in 0 .. N
    BY <1>1
  <2>2. Made(i - 1)
    BY <1>6, <2>1
  <2>3. SameNodes(g, run[i - 1]) /\ run[i] = Linked(g, w, run[i - 1], i) /\ i \in 1 .. Len(WayNodes(g, w)) - 1
    BY <1>4, <2>1 DEF D, N
  <2>4. /\ \A id \in DOMAIN g : \A e \in EdgesOf(run[i - 1], id) :
              e \in EdgesOf(run[i], id) \/ LinksAt(g, w, i, id, e.to)
        /\ \A a, b : LinksAt(g, w, i, a, b) => a \in DOMAIN g /\ Link(g, w, a, b) \in EdgesOf(run[i], a)
    BY <2>3, LinkedResult
  <2>5. ASSUME NEW j \in 1 .. i, NEW a, NEW b, LinksAt(g, w, j, a, b)
        PROVE  a \in DOMAIN g /\ Link(g, w, a, b) \in EdgesOf(run[i], a)
    <3>1. CASE j = i
      BY <2>4, <2>5, <3>1
    <3>2. CASE j # i
      <4>1. j \in 1 .. i - 1
        BY <1>1, <3>2
      <4>2. a \in DOMAIN g /\ Link(g, w, a, b) \in EdgesOf(run[i - 1], a)
        BY <2>2, <2>5, <4>1
      <4>3. Link(g, w, a, b).to = b
        BY DEF Link
      <4> QED  BY <2>4, <4>2, <4>3
    <3> QED  BY <3>1, <3>2
  <2>6. Made(i)
    BY <2>5
  <2> QED  BY <2>1, <2>6
<1> HIDE DEF made, Yes
<1>7. \A i \in 0 .. N : made[i] \in Yes
  BY <1>1, <1>5, <1>6, Induction
<1>8. N \in 0 .. N
  BY <1>1
<1>9. Made(N)
  BY <1>7, <1>8 DEF made, Yes
<1>10. CreateEdges(g, w) \in D
  BY <1>4, <1>8
<1> QED  BY <1>4, <1>9, <1>10 DEF D, N, Links

---------------------------------------------------------------------------
(* Restrictions: the change that a walk along their nodes asks for *)

\* A node that some edge leads to.
IsTarget(g, id) == id \in DOMAIN g /\ \E x \in DOMAIN g : \E e \in EdgesOf(g, x) : e.to = id

\* An edge to be added leads to a clone, and costs what the edge to its original does.
StandsForEdge(g, change, e) ==
    /\ e.cost \in Nat
    /\ e.to \in DOMAIN change.new_nodes
    /\ e.from \in DOMAIN g \cup DOMAIN change.new_nodes
    /\ Original(change, e.from) \in DOMAIN g
    /\ [to |-> change.new_nodes[e.to], cost |-> e.cost] \in EdgesOf(g, Original(change, e.from))

\* What a change does to a graph that has no id beyond the counter.
IsSound(g, counter, change) ==
    /\ change.phantom_node_id_counter \in Nat /\ change.phantom_node_id_counter >= counter
    /\ DOMAIN change.new_nodes \subseteq counter + 1 .. change.phantom_node_id_counter
    /\ \A id \in DOMAIN change.new_nodes : IsTarget(g, change.new_nodes[id])
    /\ IsFiniteSet(change.edges_to_remove) /\ IsFiniteSet(change.edges_to_add)
    /\ \A e \in change.edges_to_add : StandsForEdge(g, change, e)

Changes(g) ==
    [new_nodes : UNION {[S -> DOMAIN g] : S \in SUBSET Int},
     edges_to_remove : SUBSET [from : Int, to : Int],
     edges_to_add : SUBSET [from : Int, to : Int, cost : Nat],
     phantom_node_id_counter : Nat]

Progress(g, counter) ==
    {walk \in [ok : BOOLEAN, following : BOOLEAN, change : Changes(g), cloned_nodes : Seq(Int)] :
        walk.cloned_nodes # << >> /\ IsSound(g, counter, walk.change)}

LEMMA RelinkedIsSound ==
    ASSUME NEW g, IsGraph(g), NEW counter \in Nat, \A id \in DOMAIN g : id <= counter,
           NEW change \in Changes(g), IsSound(g, counter, change),
           NEW previous \in Int, Original(change, previous) \in DOMAIN g,
           NEW candidate \in DOMAIN g,
           EdgesTo(g[Original(change, previous)].edges, candidate) # {}
    PROVE  LET c == Relinked(g, change, previous, candidate) IN
           /\ c \in Changes(g) /\ IsSound(g, counter, c)
           /\ c.phantom_node_id_counter \in Int
<1> DEFINE clone == change.phantom_node_id_counter + 1
           from == Original(change, previous)
           es == g[from].edges
           k == FirstEdgeTo(es, candidate)
           cost == es[k].cost
           c == Relinked(g, change, previous, candidate)
           new == [from |-> previous, to |-> clone, cost |-> cost]
<1>1. /\ es \in Seq(Edge) /\ GetEdges(g, from) = es
      /\ candidate \in Int /\ from \in DOMAIN g
  BY EdgesOfGraph DEF EdgeLists
<1>2. k \in DOMAIN es /\ es[k].to = candidate
  BY <1>1, FirstEdgeIsThere
<1>3. es[k] \in Edge
  BY <1>1, <1>2
<1>4. cost \in Nat /\ [to |-> candidate, cost |-> cost] \in EdgesOf(g, from)
  BY <1>2, <1>3 DEF Edge, EdgesOf, ToSet
<1>5. /\ change.phantom_node_id_counter \in Nat
      /\ change.phantom_node_id_counter >= counter
      /\ change.new_nodes \in [DOMAIN change.new_nodes -> DOMAIN g]
      /\ DOMAIN change.new_nodes \subseteq counter + 1 .. change.phantom_node_id_counter
      /\ change.edges_to_remove \subseteq [from : Int, to : Int]
      /\ change.edges_to_add \subseteq [from : Int, to : Int, cost : Nat]
  BY DEF Changes, IsSound
<1>6. clone \in Nat /\ clone > counter /\ clone \notin DOMAIN g /\ clone \notin DOMAIN change.new_nodes
  BY <1>5
<1>7. /\ c.new_nodes = [id \in DOMAIN change.new_nodes \cup {clone} |->
                           IF id = clone THEN candidate ELSE change.new_nodes[id]]
      /\ c.edges_to_remove = change.edges_to_remove \cup {[from |-> previous, to |-> candidate]}
      /\ c.edges_to_add = change.edges_to_add \cup {new}
      /\ c.phantom_node_id_counter = clone
  BY <1>1 DEF Relinked, GetEdge
<1>8. c = [new_nodes |-> c.new_nodes, edges_to_remove |-> c.edges_to_remove,
           edges_to_add |-> c.edges_to_add, phantom_node_id_counter |-> c.phantom_node_id_counter]
  BY DEF Relinked
<1> HIDE DEF c, clone, cost, k, es
<1>9. /\ DOMAIN c.new_nodes = DOMAIN change.new_nodes \cup {clone}
      /\ c.new_nodes[clone] = candidate
      /\ \A id \in DOMAIN change.new_nodes : c.new_nodes[id] = change.new_nodes[id]
      /\ c.new_nodes \in [DOMAIN c.new_nodes -> DOMAIN g]
      /\ DOMAIN c.new_nodes \in SUBSET Int
  BY <1>5, <1>6, <1>7
<1>10. c \in Changes(g)
  <2>1. c.new_nodes \in UNION {[S -> DOMAIN g] : S \in SUBSET Int}
    BY <1>9
  <2>2. c.edges_to_remove \subseteq [from : Int, to : Int]
    BY <1>1, <1>5, <1>7
  <2>3. c.edges_to_add \subseteq [from : Int, to : Int, cost : Nat]
    BY <1>4, <1>5, <1>6, <1>7
  <2> QED  BY <1>6, <1>7, <1>8, <2>1, <2>2, <2>3 DEF Changes
<1>11. \A x : x # clone => Original(c, x) = Original(change, x)
  BY <1>9 DEF Original
<1>12. IsTarget(g, candidate)
  BY <1>1, <1>4 DEF IsTarget
<1>13. StandsForEdge(g, c, new)
  <2>1. previous # clone
    BY <1>1, <1>6 DEF from, Original
  <2>2. Original(c, previous) = from /\ previous \in DOMAIN g \cup DOMAIN c.new_nodes
    BY <1>1, <1>9, <1>11, <2>1 DEF Original
  <2> QED  BY <1>1, <1>4, <1>9, <2>2 DEF StandsForEdge
<1>14. ASSUME NEW e \in change.edges_to_add
       PROVE  StandsForEdge(g, c, e)
  <2>1. StandsForEdge(g, change, e)
    BY DEF IsSound
  <2>2. e.from # clone
    BY <1>6, <2>1 DEF StandsForEdge
  <2> QED  BY <1>9, <1>11, <2>1, <2>2 DEF StandsForEdge
<1> HIDE DEF new
<1>15. IsFiniteSet(c.edges_to_remove) /\ IsFiniteSet(c.edges_to_add)
  <2>1. IsFiniteSet(change.edges_to_remove) /\ IsFiniteSet(change.edges_to_add)
    BY DEF IsSound
  <2>2. IsFiniteSet(change.edges_to_add \cup {new})
    BY <2>1, FS_AddElement, Zenon
  <2>3. IsFiniteSet(change.edges_to_remove \cup {[from |-> previous, to |-> candidate]})
    BY <2>1, FS_AddElement, Zenon
  <2> QED  BY <1>7, <2>2, <2>3, Zenon
<1>16. DOMAIN c.new_nodes \subseteq counter + 1 .. c.phantom_node_id_counter
  BY <1>5, <1>6, <1>7, <1>9 DEF clone
<1>p. c.phantom_node_id_counter \in Nat /\ c.phantom_node_id_counter >= counter
  BY <1>6, <1>7
<1>17. \A id \in DOMAIN c.new_nodes : IsTarget(g, c.new_nodes[id])
  BY <1>9, <1>12 DEF IsSound
<1>18. \A e \in c.edges_to_add : StandsForEdge(g, c, e)
  BY <1>7, <1>13, <1>14
<1>19. IsSound(g, counter, c)
  BY <1>p, <1>15, <1>16, <1>17, <1>18, Zenon DEF IsSound
<1> QED  BY <1>6, <1>7, <1>10, <1>19 DEF c

\* One more node: it is where some edge leads to, or a new clone of that.
LEMMA WalkedKeeps ==
    ASSUME NEW g, IsGraph(g), NEW counter \in Nat, \A id \in DOMAIN g : id <= counter,
           NEW nodes, NEW walk \in Progress(g, counter), NEW i
    PROVE  Walked(g, nodes, walk, i) \in Progress(g, counter)
<1> DEFINE W == [ok : BOOLEAN, following : BOOLEAN, change : Changes(g), cloned_nodes : Seq(Int)]
           previous == Last(walk.cloned_nodes)
           change == walk.change
           from == Original(change, previous)
           places == EdgesToOsm(g, change, previous, nodes[i])
           candidate == Candidate(g, change, previous, nodes[i])
           following == Reuses(walk, i, candidate, nodes[i])
           relinked == Relinked(g, change, previous, candidate)
<1>1. /\ walk \in W /\ walk.cloned_nodes # << >> /\ walk.cloned_nodes \in Seq(Int)
      /\ change \in Changes(g) /\ IsSound(g, counter, change)
  BY DEF Progress
<1>2. previous \in Int
  BY <1>1 DEF Last
<1>3. CASE ~ walk.ok
  BY <1>3 DEF Walked
<1>4. CASE walk.ok /\ places = {}
  <2>1. Walked(g, nodes, walk, i) = [walk EXCEPT !.ok = FALSE]
    BY <1>4 DEF Walked
  <2> HIDE DEF change
  <2>2. [walk EXCEPT !.ok = FALSE] \in W
    BY <1>1
  <2> QED  BY <1>1, <2>1, <2>2 DEF Progress, change
<1>5. CASE walk.ok /\ places # {}
  <2> DEFINE es == GetEdges(g, from)
             k == Min(places)
  <2>1. places = {j \in DOMAIN es : HasNode(g, es[j].to) /\ OsmId(g, es[j].to) = nodes[i]}
    BY DEF EdgesToOsm
  <2>2. es \in Seq(Edge) /\ (from \in DOMAIN g => es = g[from].edges) /\ (from \notin DOMAIN g => es = << >>)
    <3> HIDE DEF from
    <3> QED  BY GetEdgesIsList
  <2>3. places \subseteq Nat
    BY <2>1, <2>2
  <2> HIDE DEF places, es
  <2>4. k \in places
    <3>1. \E x \in places : \A y \in places : x <= y
      BY <1>5, <2>3, LeastNatural
    <3> QED  BY <3>1 DEF Min
  <2>5. k \in DOMAIN es /\ es[k].to \in DOMAIN g
    BY <2>1, <2>4 DEF HasNode
  <2>6. candidate = es[k].to
    BY DEF Candidate, es, places
  <2>7. from \in DOMAIN g /\ es = g[from].edges
    BY <2>2, <2>5
  <2>8. candidate \in DOMAIN g /\ candidate \in Int
    BY <2>5, <2>6, EdgesOfGraph
  <2>9. EdgesTo(g[from].edges, candidate) # {}
    BY <2>5, <2>6, <2>7 DEF EdgesTo
  <2> HIDE DEF k, candidate, previous, from, change
  <2>10. relinked \in Changes(g) /\ IsSound(g, counter, relinked) /\ relinked.phantom_node_id_counter \in Int
    BY <1>1, <1>2, <2>7, <2>8, <2>9, RelinkedIsSound DEF from
  <2>11. following \in BOOLEAN
    BY <1>1 DEF Reuses
  <2> HIDE DEF relinked, following
  <2>12. Walked(g, nodes, walk, i) =
            IF i = Len(nodes) \/ following
            THEN [walk EXCEPT !.following = following, !.cloned_nodes = Append(@, candidate)]
            ELSE [walk EXCEPT !.following = following, !.change = relinked,
                              !.cloned_nodes = Append(@, relinked.phantom_node_id_counter)]
    BY <1>5 DEF Walked, relinked, following, candidate, previous, change, places
  <2>13. ASSUME NEW id \in Int
         PROVE  Append(walk.cloned_nodes, id) \in Seq(Int) /\ Append(walk.cloned_nodes, id) # << >>
    BY <1>1
  <2>14. [walk EXCEPT !.following = following, !.cloned_nodes = Append(@, candidate)]
            \in Progress(g, counter)
    BY <1>1, <2>8, <2>11, <2>13 DEF Progress, change
  <2>15. [walk EXCEPT !.following = following, !.change = relinked,
                      !.cloned_nodes = Append(@, relinked.phantom_node_id_counter)]
            \in Progress(g, counter)
    BY <1>1, <2>10, <2>11, <2>13 DEF Progress
  <2> QED  BY <2>12, <2>14, <2>15
<1> QED  BY <1>3, <1>4, <1>5

LEMMA NoWalkIsProgress ==
    ASSUME NEW g, NEW counter \in Nat, NEW nodes \in Seq(Int), nodes # << >>
    PROVE  NoWalk(counter, nodes) \in Progress(g, counter) /\ IsSound(g, counter, NoChange(counter))
<1> DEFINE none == [id \in {} |-> 0]
           none_yet == NoChange(counter)
           first == <<nodes[1]>>
<1>1. none \in [{} -> DOMAIN g] /\ DOMAIN none = {}
  OBVIOUS
<1>2. none_yet \in Changes(g)
  BY <1>1 DEF NoChange, Changes
<1>3. IsSound(g, counter, none_yet)
  BY FS_EmptySet DEF NoChange, IsSound
<1>4. first \in Seq(Int) /\ first # << >>
  OBVIOUS
<1>5. NoWalk(counter, nodes) =
         [ok |-> TRUE, following |-> FALSE, change |-> none_yet, cloned_nodes |-> first]
  BY DEF NoWalk
<1> HIDE DEF none_yet, first
<1>6. NoWalk(counter, nodes) \in Progress(g, counter)
  BY <1>2, <1>3, <1>4, <1>5 DEF Progress
<1> QED  BY <1>3, <1>6 DEF none_yet

LEMMA ClonedNodesResult ==
    ASSUME NEW g, IsGraph(g), NEW counter \in Nat, \A id \in DOMAIN g : id <= counter,
           NEW nodes \in Seq(Int), nodes # << >>
    PROVE  ClonedNodes(g, counter, nodes) \in Progress(g, counter) /\ IsSound(g, counter, NoChange(counter))
<1>1. Len(nodes) \in Nat \ {0}
  OBVIOUS
<1>2. \A walk \in Progress(g, counter) : \A i \in 1 .. Len(nodes) - 1 :
         Walked(g, nodes, walk, i + 1) \in Progress(g, counter)
  BY WalkedKeeps
<1> QED  BY <1>1, <1>2, NoWalkIsProgress, ClonedNodesKeeps

LEMMA ImageIsFinite ==
    ASSUME NEW S, IsFiniteSet(S), NEW f, DOMAIN f = S
    PROVE  IsFiniteSet({f[x] : x \in S})
<1> DEFINE T == {f[x] : x \in S}
           h == [x \in S |-> f[x]]
<1>1. h \in Surjection(S, T)
  BY DEF Surjection
<1> QED  BY <1>1, FS_Surjection

LEMMA OnlyEdgesIsSound ==
    ASSUME NEW g, IsGraph(g), NEW counter \in Nat,
           NEW change \in Changes(g), IsSound(g, counter, change), NEW cloned \in Seq(Int)
    PROVE  IsSound(g, counter, OnlyEdges(g, change, cloned))
<1> DEFINE inner == 2 .. Len(cloned) - 1
           Others(i) == {e \in ToSet(GetEdges(g, Original(change, cloned[i]))) : e.to # cloned[i + 1]}
           Pairs(i) == {[from |-> cloned[i], to |-> e.to] : e \in Others(i)}
           c == OnlyEdges(g, change, cloned)
<1>1. /\ c.new_nodes = change.new_nodes
      /\ c.phantom_node_id_counter = change.phantom_node_id_counter
      /\ c.edges_to_add \subseteq change.edges_to_add
      /\ c.edges_to_remove = change.edges_to_remove \cup UNION {Pairs(i) : i \in inner}
  BY DEF OnlyEdges, Changes
<1>2. ASSUME NEW es \in Seq(Edge)
      PROVE  IsFiniteSet(ToSet(es))
  <2>1. IsFiniteSet(DOMAIN es)
    BY FS_Interval
  <2> QED  BY <2>1, ImageIsFinite DEF ToSet
<1>3. ASSUME NEW i \in inner
      PROVE  IsFiniteSet(Pairs(i))
  <2> DEFINE es == GetEdges(g, Original(change, cloned[i]))
  <2>0. es \in Seq(Edge)
    BY GetEdgesIsList
  <2> HIDE DEF es
  <2>1. IsFiniteSet(ToSet(es))
    BY <1>2, <2>0
  <2>2. IsFiniteSet(Others(i))
    <3>1. Others(i) \subseteq ToSet(es)
      BY DEF es
    <3> HIDE DEF Others
    <3> QED  BY <2>1, <3>1, FS_Subset
  <2> DEFINE S == Others(i)
             f == [e \in S |-> [from |-> cloned[i], to |-> e.to]]
  <2>3. Pairs(i) = {f[e] : e \in S}
    OBVIOUS
  <2>4. DOMAIN f = S /\ IsFiniteSet(S)
    BY <2>2
  <2> HIDE DEF S, f, Others, Pairs
  <2>5. IsFiniteSet({f[e] : e \in S})
    BY <2>4, ImageIsFinite
  <2> QED  BY <2>3, <2>5
<1>4. IsFiniteSet(UNION {Pairs(i) : i \in inner})
  <2> DEFINE f == [i \in inner |-> Pairs(i)]
  <2>1. IsFiniteSet(inner)
    <3>1. 2 \in Int /\ Len(cloned) - 1 \in Int
      OBVIOUS
    <3> HIDE DEF Pairs
    <3> QED  BY <3>1, FS_Interval
  <2> HIDE DEF Pairs, inner
  <2>2. IsFiniteSet({f[i] : i \in inner})
    BY <2>1, ImageIsFinite
  <2>3. {f[i] : i \in inner} = {Pairs(i) : i \in inner}
    OBVIOUS
  <2> QED  BY <1>3, <2>2, <2>3, FS_UNION
<1>5. IsFiniteSet(c.edges_to_remove) /\ IsFiniteSet(c.edges_to_add)
  <2> HIDE DEF Pairs, inner, c
  <2>1. IsFiniteSet(change.edges_to_remove) /\ IsFiniteSet(change.edges_to_add)
    BY DEF IsSound
  <2> QED  BY <1>1, <1>4, <2>1, FS_Union, FS_Subset
<1> HIDE DEF c
<1>6. \A e \in c.edges_to_add : StandsForEdge(g, c, e)
  <2>1. \A x : Original(c, x) = Original(change, x)
    BY <1>1 DEF Original
  <2>2. \A e \in c.edges_to_add : StandsForEdge(g, change, e)
    BY <1>1 DEF IsSound
  <2> QED  BY <1>1, <2>1, <2>2 DEF StandsForEdge
<1> QED  BY <1>1, <1>5, <1>6 DEF IsSound, c

\* store_restriction asks for a sound change, or for none.
LEMMA RestrictionChangeIsSound ==
    ASSUME NEW g, IsGraph(g), NEW counter \in Nat, \A id \in DOMAIN g : id <= counter,
           NEW nodes \in Seq(Int), nodes # << >>, NEW kind \in {"mandatory", "prohibitory"}
    PROVE  IsSound(g, counter, RestrictionChange(g, counter, nodes, kind))
<1> DEFINE walk == ClonedNodes(g, counter, nodes)
           cloned == walk.cloned_nodes
           last == Len(cloned)
           pair == [from |-> cloned[last - 1], to |-> cloned[last]]
           less == [walk.change EXCEPT !.edges_to_remove = @ \cup {pair}]
<1>1. /\ walk.ok \in BOOLEAN /\ cloned \in Seq(Int)
      /\ walk.change \in Changes(g) /\ IsSound(g, counter, walk.change)
      /\ IsSound(g, counter, NoChange(counter))
  BY ClonedNodesResult DEF Progress
<1>2. RestrictionChange(g, counter, nodes, kind) =
         CASE ~ walk.ok -> NoChange(counter)
           [] walk.ok /\ kind = "mandatory" -> OnlyEdges(g, walk.change, cloned)
           [] walk.ok /\ kind = "prohibitory" -> less
  BY DEF RestrictionChange
<1> HIDE DEF walk
<1>3. IsSound(g, counter, OnlyEdges(g, walk.change, cloned))
  BY <1>1, OnlyEdgesIsSound
<1>4. IsSound(g, counter, less)
  <2>1. /\ less.new_nodes = walk.change.new_nodes
        /\ less.phantom_node_id_counter = walk.change.phantom_node_id_counter
        /\ less.edges_to_add = walk.change.edges_to_add
        /\ less.edges_to_remove = walk.change.edges_to_remove \cup {pair}
    BY <1>1 DEF Changes
  <2> HIDE DEF less, pair
  <2>2. IsFiniteSet(walk.change.edges_to_remove)
    BY <1>1 DEF IsSound
  <2>3. IsFiniteSet(less.edges_to_remove)
    BY <2>1, <2>2, FS_AddElement, Zenon
  <2>4. \A e \in less.edges_to_add : StandsForEdge(g, less, e)
    <3>1. \A x : Original(less, x) = Original(walk.change, x)
      BY <2>1 DEF Original
    <3>2. \A e \in less.edges_to_add : StandsForEdge(g, walk.change, e)
      BY <1>1, <2>1 DEF IsSound
    <3> QED  BY <2>1, <3>1, <3>2 DEF StandsForEdge
  <2> QED  BY <1>1, <2>1, <2>3, <2>4 DEF IsSound
<1> HIDE DEF less, cloned
<1> QED  BY <1>1, <1>2, <1>3, <1>4

---------------------------------------------------------------------------
(* Restrictions: from the members of a relation to the nodes of a turn *)

\* What a builder stores of each way: there are two nodes of it or more.
StoredWays == {nodes \in Seq(Int) : Len(nodes) >= 2}

LEMMA ReverseResult ==
    ASSUME NEW T, NEW seq \in Seq(T)
    PROVE  Reverse(seq) \in Seq(T) /\ Len(Reverse(seq)) = Len(seq)
<1> DEFINE n == Len(seq)
<1>1. n \in Nat /\ \A i \in 1 .. n : (n - i) + 1 \in 1 .. n /\ seq[(n - i) + 1] \in T
  OBVIOUS
<1>2. Reverse(seq) = [i \in 1 .. n |-> seq[(n - i) + 1]]
  BY DEF Reverse
<1> HIDE DEF n
<1>3. Reverse(seq) \in Seq(T) /\ Len(Reverse(seq)) = n
  BY <1>1, <1>2
<1> QED  BY <1>3 DEF n

\* flatten_member_nodes takes two nodes of the first list and one of the last:
\* it never reads beyond either.
LEMMA FlattenedResult ==
    ASSUME NEW lists, Len(lists) \in Nat \ {0, 1},
           \A i \in 1 .. Len(lists) : lists[i] \in Seq(Int) /\ lists[i] # << >>,
           Len(lists[1]) >= 2, Len(lists[Len(lists)]) >= 2
    PROVE  Flattened(lists) \in Seq(Int)
<1>1. ASSUME NEW nodes \in Seq(Int), NEW i \in 1 .. Len(lists)
      PROVE  Extended(lists, i, nodes) \in Seq(Int)
  <2> DEFINE list == Oriented(lists, i, nodes)
  <2>1. list \in Seq(Int) /\ Len(list) = Len(lists[i])
    <3>1. lists[i] \in Seq(Int)
      OBVIOUS
    <3>2. Reverse(lists[i]) \in Seq(Int) /\ Len(Reverse(lists[i])) = Len(lists[i])
      BY <3>1, ReverseResult
    <3>3. list \in {lists[i], Reverse(lists[i])}
      BY DEF Oriented
    <3> QED  BY <3>1, <3>2, <3>3
  <2> HIDE DEF list
  <2>2. CASE i = 1
    <3>0. ~ (i > 1)
      BY <2>2
    <3>1. Extended(lists, i, nodes) = SubSeq(list, Len(list) - 1, Len(list))
      BY <2>2, <3>0, ZenonT(30) DEF Extended, list
    <3>2. \A j \in Len(list) - 1 .. Len(list) : j \in 1 .. Len(list)
      BY <2>1, <2>2
    <3> QED  BY <2>1, <3>1, <3>2
  <2>3. CASE i > 1 /\ (nodes = << >> \/ Last(nodes) # list[1])
    BY <2>3 DEF Extended, list
  <2>4. CASE i > 1 /\ nodes # << >> /\ Last(nodes) = list[1]
    <3>1. Extended(lists, i, nodes) = IF i = Len(lists) THEN Append(nodes, list[2]) ELSE nodes \o Tail(list)
      BY <2>4 DEF Extended, list
    <3>2. i = Len(lists) => list[2] \in Int
      BY <2>1
    <3>3. list # << >>
      BY <2>1
    <3>4. Tail(list) \in Seq(Int)
      BY <2>1, <3>3
    <3>5. nodes \o Tail(list) \in Seq(Int)
      BY <3>4
    <3>6. i = Len(lists) => Append(nodes, list[2]) \in Seq(Int)
      BY <3>2
    <3> QED  BY <3>1, <3>5, <3>6
  <2> QED  BY <2>2, <2>3, <2>4
<1>2. << >> \in Seq(Int) /\ Len(lists) \in Nat
  OBVIOUS
<1> QED  BY <1>1, <1>2, FlattenedKeeps

LEMMA EndsOfConcatenation ==
    ASSUME NEW T, NEW s \in Seq(T), NEW t \in Seq(T)
    PROVE  /\ s \o t \in Seq(T) /\ Len(s \o t) = Len(s) + Len(t)
           /\ Len(s) > 0 => (s \o t)[1] = s[1]
           /\ Len(t) > 0 => (s \o t)[Len(s) + Len(t)] = t[Len(t)]
OBVIOUS

\* A restriction that the members describe goes along nodes that the builder knows.
LEMMA RestrictionNodesResult ==
    ASSUME NEW g, NEW ways, \A id \in DOMAIN ways : ways[id] \in StoredWays,
           NEW r, r.members \in Seq(ToSet(r.members)),
           \A m \in ToSet(r.members) : m.type = "node" => m.ref \in Int
    PROVE  RestrictionNodes(g, ways, r) \in Seq(Int)
<1> DEFINE from == WithRole(r, "from")
           via == WithRole(r, "via")
           to == WithRole(r, "to")
           members == OrderedMembers(r)
           lists == [i \in DOMAIN members |-> MemberNodes(ways, members[i])]
<1>1. CASE ~ (WellOrdered(r) /\ \A i \in DOMAIN members : Known(g, ways, members[i]))
  BY <1>1 DEF RestrictionNodes
<1>2. CASE WellOrdered(r) /\ \A i \in DOMAIN members : Known(g, ways, members[i])
  <2> DEFINE M == ToSet(r.members)
  <2>1. ASSUME NEW role
        PROVE  WithRole(r, role) \in Seq({m \in M : m.role = role})
    <3> DEFINE S == {m \in M : m.role = role}
    <3>1. Kept(r.members, S) \in Seq(M \cap S)
      BY KeptResult
    <3>2. M \cap S = S
      OBVIOUS
    <3>3. WithRole(r, role) = Kept(r.members, S)
      BY DEF WithRole
    <3> QED  BY <3>1, <3>2, <3>3
  <2>2. /\ from \in Seq({m \in M : m.role = "from"}) /\ Len(from) = 1
        /\ via \in Seq({m \in M : m.role = "via"})
        /\ to \in Seq({m \in M : m.role = "to"}) /\ Len(to) = 1
    BY <1>2, <2>1 DEF WellOrdered
  <2>3. members = from \o via \o to
    BY DEF OrderedMembers
  <2> HIDE DEF from, via, to, M
  <2>a. from \in Seq(M) /\ via \in Seq(M) /\ to \in Seq(M)
    BY <2>2
  <2>b. from[1].role = "from" /\ to[1].role = "to"
    BY <2>2
  <2>4. /\ members \in Seq(M) /\ Len(members) = Len(via) + 2
        /\ members[1] = from[1] /\ members[Len(members)] = to[1]
        /\ Len(via) \in Nat
    <3> DEFINE rest == via \o to
    <3> HIDE DEF members, lists
    <3>0. Len(from) = 1 /\ Len(to) = 1 /\ Len(via) \in Nat
      BY <2>2, <2>a
    <3>i. /\ via \o to \in Seq(M) /\ Len(via \o to) = Len(via) + Len(to)
          /\ Len(via) > 0 => (via \o to)[1] = via[1]
          /\ Len(to) > 0 => (via \o to)[Len(via) + Len(to)] = to[Len(to)]
      BY <2>a, EndsOfConcatenation, Zenon
    <3>1. rest \in Seq(M) /\ Len(rest) = Len(via) + Len(to) /\ rest[Len(via) + Len(to)] = to[Len(to)]
      BY <3>0, <3>i
    <3>2. members = from \o rest
      BY <2>3
    <3> HIDE DEF rest
    <3>j. /\ from \o rest \in Seq(M) /\ Len(from \o rest) = Len(from) + Len(rest)
          /\ Len(from) > 0 => (from \o rest)[1] = from[1]
          /\ Len(rest) > 0 => (from \o rest)[Len(from) + Len(rest)] = rest[Len(rest)]
      BY <2>a, <3>1, EndsOfConcatenation, Zenon
    <3>3. /\ members \in Seq(M) /\ Len(members) = Len(from) + Len(rest)
          /\ members[1] = from[1] /\ members[Len(from) + Len(rest)] = rest[Len(rest)]
      BY <3>0, <3>1, <3>2, <3>j
    <3> QED  BY <3>0, <3>1, <3>3
  <2>5. members[1].role = "from" /\ members[Len(members)].role = "to"
    BY <2>4, <2>b
  <2> HIDE DEF members
  <2>6. DOMAIN members = 1 .. Len(members) /\ Len(members) \in Nat \ {0, 1}
    BY <2>4
  <2>7. ASSUME NEW i \in 1 .. Len(members)
        PROVE  /\ lists[i] \in Seq(Int) /\ lists[i] # << >>
               /\ members[i].role # "via" => Len(lists[i]) >= 2
    <3>1. members[i] \in M /\ Known(g, ways, members[i]) /\ lists[i] = MemberNodes(ways, members[i])
      BY <1>2, <2>4, <2>6
    <3>2. CASE members[i].type = "node" /\ members[i].role = "via"
      <4>1. lists[i] = <<members[i].ref>> /\ members[i].ref \in Int
        BY <3>1, <3>2 DEF MemberNodes, M
      <4> HIDE DEF lists
      <4> QED  BY <3>2, <4>1
    <3>3. CASE members[i].type = "way" /\ members[i].ref \in DOMAIN ways
      <4>1. lists[i] = ways[members[i].ref]
        BY <3>1, <3>3 DEF MemberNodes
      <4>2. lists[i] \in StoredWays
        BY <3>3, <4>1
      <4> HIDE DEF lists
      <4> QED  BY <4>2 DEF StoredWays
    <3> QED  BY <3>1, <3>2, <3>3 DEF Known
  <2>8. DOMAIN lists = 1 .. Len(members) /\ Len(lists) = Len(members)
    BY <2>6
  <2>9. RestrictionNodes(g, ways, r) = Flattened(lists)
    BY <1>2 DEF RestrictionNodes, members
  <2> HIDE DEF lists
  <2>10. Len(lists[1]) >= 2 /\ Len(lists[Len(lists)]) >= 2
    <3>1. 1 \in 1 .. Len(members) /\ Len(members) \in 1 .. Len(members)
      BY <2>6
    <3>2. members[1].role # "via" /\ members[Len(members)].role # "via"
      BY <2>5
    <3> QED  BY <2>7, <2>8, <3>1, <3>2
  <2>11. Flattened(lists) \in Seq(Int)
    BY <2>6, <2>7, <2>8, <2>10, FlattenedResult
  <2> QED  BY <2>9, <2>11
<1> QED  BY <1>1, <1>2

---------------------------------------------------------------------------
(* Restrictions: what their changes make of a graph *)

NoIdBeyond(g, counter) == \A id \in DOMAIN g : id <= counter

\* The clones of a sound change are clones of nodes that exist.
LEMMA RestrictionChangeClones ==
    ASSUME NEW g, NEW counter, NEW change, IsSound(g, counter, change)
    PROVE  \A id \in DOMAIN change.new_nodes : change.new_nodes[id] \in DOMAIN g
BY DEF IsSound, IsTarget

LEMMA WithClonesResult ==
    ASSUME NEW g, IsGraph(g), NEW counter \in Nat, NoIdBeyond(g, counter),
           NEW change, IsSound(g, counter, change)
    PROVE  LET h == WithClones(g, change) IN
           /\ IsGraph(h) /\ DOMAIN h = DOMAIN g \cup DOMAIN change.new_nodes
           /\ \A id \in DOMAIN h : Original(change, id) \in DOMAIN g /\ h[id] = g[Original(change, id)]
           /\ \A id \in DOMAIN g : Original(change, id) = id
<1> DEFINE h == WithClones(g, change)
           clones == DOMAIN change.new_nodes
<1>1. /\ change.phantom_node_id_counter \in Nat
      /\ clones \subseteq counter + 1 .. change.phantom_node_id_counter
  BY DEF IsSound
<1>2. DOMAIN g \subseteq Int /\ \A id \in DOMAIN g : id <= counter
  BY DEF IsGraph, NoIdBeyond
<1>3. clones \subseteq Int /\ \A id \in DOMAIN g : id \notin clones
  BY <1>1, <1>2
<1>4. \A id \in DOMAIN g : Original(change, id) = id
  BY <1>3 DEF Original
<1>5. \A id \in DOMAIN g \cup clones : Original(change, id) \in DOMAIN g
  BY <1>4, RestrictionChangeClones DEF Original
<1>6. h = [id \in DOMAIN g \cup clones |-> g[Original(change, id)]]
  BY DEF WithClones
<1> HIDE DEF h, clones
<1>7. h \in [DOMAIN h -> Nodes] /\ DOMAIN h = DOMAIN g \cup clones
  BY <1>5, <1>6, EdgesOfGraph
<1>8. IsGraph(h)
  BY <1>2, <1>3, <1>7 DEF IsGraph
<1> QED  BY <1>4, <1>5, <1>6, <1>7, <1>8 DEF h, clones

LEMMA SeqsOfFiniteSet ==
    ASSUME NEW S, IsFiniteSet(S), NEW seq \in SetToSeqs(S)
    PROVE  /\ Len(seq) \in Nat /\ \A i \in 1 .. Len(seq) : seq[i] \in S
           /\ \A x \in S : \E i \in 1 .. Len(seq) : seq[i] = x
<1> DEFINE n == Cardinality(S)
<1>1. n \in Nat
  BY FS_CardinalityType
<1>2. seq \in [1 .. n -> S] /\ \A i, j \in 1 .. n : i # j => seq[i] # seq[j]
  BY DEF SetToSeqs
<1>3. seq \in Surjection(1 .. n, S)
  <2>1. seq \in Injection(1 .. n, S)
    BY <1>2 DEF Injection, IsInjective
  <2>2. Cardinality(1 .. n) = n
    BY <1>1, FS_Interval
  <2> QED  BY <2>1, <2>2, FS_Injection
<1> HIDE DEF n
<1>4. seq \in Seq(S) /\ Len(seq) = n
  BY <1>1, <1>2
<1> QED  BY <1>1, <1>2, <1>3, <1>4 DEF Surjection

\* No node of the graph turns into another, the new ones are clones, and an edge
\* is one of the original's, or leads to a clone of what that leads to and costs
\* the same.
IsChanged(g, change, h) ==
    /\ IsGraph(h) /\ DOMAIN h = DOMAIN g \cup DOMAIN change.new_nodes
    /\ \A id \in DOMAIN h :
          LET original == Original(change, id) IN
          /\ original \in DOMAIN g
          /\ h[id].osm_id = g[original].osm_id /\ h[id].pos = g[original].pos
          /\ \A e \in EdgesOf(h, id) :
                \/ e \in EdgesOf(g, original)
                \/ /\ e.to \in DOMAIN change.new_nodes
                   /\ [to |-> change.new_nodes[e.to], cost |-> e.cost] \in EdgesOf(g, original)
    /\ \A id \in DOMAIN g : Original(change, id) = id

\* GraphChange::apply does that, whatever order its hash tables are in.
LEMMA AppliedResult ==
    ASSUME NEW g, IsGraph(g), NEW counter \in Nat, NoIdBeyond(g, counter),
           NEW change, IsSound(g, counter, change),
           NEW removals \in SetToSeqs(change.edges_to_remove),
           NEW additions \in SetToSeqs(change.edges_to_add)
    PROVE  IsChanged(g, change, Applied(g, change, removals, additions))
<1> DEFINE h == Applied(g, change, removals, additions)
           w == WithClones(g, change)
           d == DeleteEdges(w, removals)
<1>1. /\ Len(removals) \in Nat /\ Len(additions) \in Nat
      /\ \A i \in 1 .. Len(additions) : additions[i] \in change.edges_to_add
  BY SeqsOfFiniteSet DEF IsSound
<1>2. \A i \in 1 .. Len(additions) : StandsForEdge(g, change, additions[i])
  BY <1>1 DEF IsSound
<1>3. /\ IsGraph(w) /\ DOMAIN w = DOMAIN g \cup DOMAIN change.new_nodes
      /\ \A id \in DOMAIN w : Original(change, id) \in DOMAIN g /\ w[id] = g[Original(change, id)]
      /\ \A id \in DOMAIN g : Original(change, id) = id
  BY WithClonesResult
<1>4. h = SetEdges(d, additions)
  BY DEF Applied
<1> HIDE DEF w
<1>5. SameNodes(w, d) /\ \A id \in DOMAIN w : EdgesOf(d, id) \subseteq EdgesOf(w, id)
  BY <1>1, <1>3, DeleteEdgesResult
<1> HIDE DEF d, h
<1>6. IsGraph(d) /\ DOMAIN d = DOMAIN w
  BY <1>3, <1>5, SameNodesFacts
<1>7. \A i \in 1 .. Len(additions) : additions[i].cost \in Nat
  BY <1>2 DEF StandsForEdge
<1>8. /\ SameNodes(d, h)
      /\ \A id \in DOMAIN d : \A e \in EdgesOf(h, id) : e \in EdgesOf(d, id) \/ IsSet(d, additions, id, e)
  BY <1>1, <1>4, <1>6, <1>7, SetEdgesResult
<1>9. SameNodes(w, h)
  BY <1>3, <1>5, <1>8, SameNodesFacts
<1>10. IsGraph(h) /\ DOMAIN h = DOMAIN w
  BY <1>3, <1>9, SameNodesFacts
<1>11. ASSUME NEW id \in DOMAIN w, NEW e \in EdgesOf(h, id)
       PROVE  \/ e \in EdgesOf(g, Original(change, id))
              \/ /\ e.to \in DOMAIN change.new_nodes
                 /\ [to |-> change.new_nodes[e.to], cost |-> e.cost]
                        \in EdgesOf(g, Original(change, id))
  <2>1. EdgesOf(w, id) = EdgesOf(g, Original(change, id))
    BY <1>3 DEF EdgesOf
  <2>2. CASE e \in EdgesOf(d, id)
    BY <1>5, <2>1, <2>2
  <2>3. CASE IsSet(d, additions, id, e)
    <3>1. PICK i \in 1 .. Len(additions) :
              additions[i].from = id /\ e = [to |-> additions[i].to, cost |-> additions[i].cost]
      BY <2>3 DEF IsSet
    <3>2. StandsForEdge(g, change, additions[i])
      BY <1>2
    <3>3. e.to = additions[i].to /\ e.cost = additions[i].cost
      BY <3>1
    <3> QED  BY <3>1, <3>2, <3>3 DEF StandsForEdge
  <2> QED  BY <1>6, <1>8, <2>2, <2>3
<1>12. \A id \in DOMAIN w : /\ h[id].osm_id = g[Original(change, id)].osm_id
                            /\ h[id].pos = g[Original(change, id)].pos
  BY <1>3, <1>9 DEF SameNodes
<1> QED  BY <1>3, <1>10, <1>11, <1>12 DEF h, IsChanged

---------------------------------------------------------------------------
(* The builder: what its state is, and what each of its steps does to the graph *)

TypeInv ==
    /\ session \in Seq(Operations)
    /\ pc \in {"idle", "loading"}
    /\ features \in Seq(SUBSET Features)
    /\ IsGraph(graph)
    /\ phantom_node_id_counter \in Nat /\ phantom_node_id_counter >= MAX_NODE_ID
    /\ NoIdBeyond(graph, phantom_node_id_counter)
    /\ \A id \in DOMAIN way_nodes : way_nodes[id] \in StoredWays
    /\ \A id \in unused_nodes : id < MAX_NODE_ID

LEMMA ReadResult ==
    ASSUME TypeInv, NEW type, NEW f \in Read(type)
    PROVE  pc = "loading" /\ features # << >> /\ f \in Features /\ f.type = type
<1>1. pc = "loading" /\ features # << >> /\ f \in {x \in Head(features) : x.type = type}
  BY DEF Read
<1>2. Head(features) \in SUBSET Features
  BY <1>1 DEF TypeInv
<1> QED  BY <1>1, <1>2

LEMMA FirstPhantomResult ==
    ASSUME NEW g, DOMAIN g \subseteq Int, NEW n \in Nat, n >= MAX_NODE_ID, NoIdBeyond(g, n)
    PROVE  /\ FirstPhantom(g) \in Nat /\ FirstPhantom(g) >= MAX_NODE_ID
           /\ NoIdBeyond(g, FirstPhantom(g))
<1> DEFINE S == DOMAIN g \cup {MAX_NODE_ID}
           T == {id \in S : id >= 0}
<1>1. MAX_NODE_ID \in Nat
  BY MaxNodeIdAssumption
<1>2. S \subseteq Int /\ \A id \in S : id <= n
  BY <1>1 DEF NoIdBeyond
<1>3. T \subseteq 0 .. n /\ MAX_NODE_ID \in T
  BY <1>1, <1>2
<1>4. PICK i \in T : \A j \in T : i >= j
  <2> HIDE DEF T
  <2> QED  BY <1>3, GreatestNatural
<1>5. i \in S /\ \A j \in S : i >= j
  BY <1>2, <1>3, <1>4
<1>6. FirstPhantom(g) = Max(S)
  BY DEF FirstPhantom
<1> HIDE DEF S
<1>7. Max(S) \in S /\ \A j \in S : Max(S) >= j
  BY <1>5 DEF Max
<1>8. Max(S) \in Int /\ MAX_NODE_ID \in S /\ DOMAIN g \subseteq S
  BY <1>2, <1>7 DEF S
<1>9. Max(S) >= MAX_NODE_ID
  BY <1>7, <1>8
<1> QED  BY <1>1, <1>2, <1>6, <1>7, <1>8, <1>9 DEF NoIdBeyond

\* A node that is added has no edges yet, and an id below those of clones.
LEMMA AddNodeResult ==
    ASSUME TypeInv, NEW n \in Read("node"), AddNode(n)
    PROVE  /\ pc = "loading" /\ n.id \in Int /\ n.id < MAX_NODE_ID
           /\ n.id \notin DOMAIN graph
           /\ IsGraph(graph') /\ DOMAIN graph' = DOMAIN graph \cup {n.id}
           /\ \A id \in DOMAIN graph : graph'[id] = graph[id]
           /\ graph'[n.id].osm_id = n.id /\ EdgesOf(graph', n.id) = {}
<1>1. n \in Features /\ n.type = "node" /\ pc = "loading"
  BY ReadResult
<1>2. n.id \in Int /\ n.pos \in Positions
  BY <1>1, SessionsAssumption
<1>3. n.id < MAX_NODE_ID /\ n.id \notin DOMAIN graph
  BY DEF AddNode, AcceptsNode, ValidNodeId, HasNode
<1> DEFINE new == [osm_id |-> n.id, pos |-> n.pos, edges |-> << >>]
<1>4. /\ DOMAIN graph' = DOMAIN graph \cup {n.id}
      /\ \A id \in DOMAIN graph : graph'[id] = graph[id]
      /\ graph'[n.id] = new
      /\ graph' = [id \in DOMAIN graph' |-> graph'[id]]
  BY <1>3 DEF AddNode, SetNode, HasNode
<1>5. << >> \in EdgeLists
  BY DEF EdgeLists, OneEdgePerTarget
<1>6. new \in Nodes
  BY <1>2, <1>5 DEF Nodes
<1>7. IsGraph(graph)
  BY DEF TypeInv
<1>8. \A id \in DOMAIN graph' : id \in Int /\ graph'[id] \in Nodes
  BY <1>2, <1>4, <1>6, <1>7, EdgesOfGraph
<1>9. IsGraph(graph')
  BY <1>4, <1>8 DEF IsGraph
<1>10. EdgesOf(graph', n.id) = {}
  BY <1>4 DEF EdgesOf, ToSet
<1> QED  BY <1>1, <1>2, <1>3, <1>4, <1>9, <1>10

\* A way adds edges among its nodes, none of which is unused any more.
LEMMA AddWayResult ==
    ASSUME TypeInv, NEW w \in Read("way"), AddWay(w)
    PROVE  /\ pc = "loading"
           /\ SameNodes(graph, graph')
           /\ IsGraph(graph') /\ DOMAIN graph' = DOMAIN graph
           /\ \A id \in DOMAIN graph : \A e \in EdgesOf(graph', id) :
                 e \in EdgesOf(graph, id) \/ (/\ id \in Used(w) /\ e.to \in Used(w)
                                              /\ Covers(graph, id, e))
           /\ Used(w) \subseteq DOMAIN graph
           /\ \A id \in DOMAIN way_nodes' : way_nodes'[id] \in StoredWays
<1>1. w \in Features /\ w.type = "way" /\ pc = "loading"
  BY ReadResult
<1>2. w.nodes \in Seq(Int)
  BY <1>1, SessionsAssumption
<1>3. IsGraph(graph) /\ Routable(graph, w) /\ graph' = CreateEdges(graph, w)
  BY DEF TypeInv, AddWay
<1>4. /\ WayNodes(graph, w) \in Seq(DOMAIN graph) /\ Len(WayNodes(graph, w)) >= 2
      /\ SameNodes(graph, graph')
      /\ \A id \in DOMAIN graph : \A e \in EdgesOf(graph', id) :
            e \in EdgesOf(graph, id) \/ IsWayEdge(graph, w, id, e)
  BY <1>2, <1>3, CreateEdgesResult
<1>5. IsGraph(graph') /\ DOMAIN graph' = DOMAIN graph
  BY <1>3, <1>4, SameNodesFacts
<1>6. Used(w) \subseteq DOMAIN graph
  BY <1>4 DEF Used, ToSet
<1>7. WayNodes(graph, w) \in StoredWays
  BY <1>3, <1>4 DEF StoredWays, IsGraph
<1>8. \A id \in DOMAIN way_nodes' : way_nodes'[id] \in StoredWays
  BY <1>7 DEF AddWay, TypeInv
<1> QED  BY <1>1, <1>4, <1>5, <1>6, <1>8 DEF IsWayEdge, Used

\* A restriction adds clones, with ids that no node of the graph has.
LEMMA AddRelationResult ==
    ASSUME TypeInv, NEW r \in Read("relation"), AddRelation(r)
    PROVE  LET change == Change(r) IN
           /\ pc = "loading"
           /\ phantom_node_id_counter' \in Nat
           /\ phantom_node_id_counter' >= phantom_node_id_counter
           /\ DOMAIN change.new_nodes \subseteq phantom_node_id_counter + 1 .. phantom_node_id_counter'
           /\ \A id \in DOMAIN change.new_nodes : IsTarget(graph, change.new_nodes[id])
           /\ IsChanged(graph, change, graph')
<1> DEFINE counter == phantom_node_id_counter
           change == Change(r)
<1>1. r \in Features /\ r.type = "relation" /\ pc = "loading"
  BY ReadResult
<1>2. r.members \in Seq(ToSet(r.members)) /\ \A m \in ToSet(r.members) : m.type = "node" => m.ref \in Int
  BY <1>1, SessionsAssumption
<1>3. NodesOf(r) # << >>
  BY DEF AddRelation
<1>4. KindOf(r) \in {"mandatory", "prohibitory"} /\ NodesOf(r) = RestrictionNodes(graph, way_nodes, r)
  BY <1>3 DEF NodesOf, KindOf, RestrictionKind
<1>5. NodesOf(r) \in Seq(Int)
  BY <1>2, <1>4, RestrictionNodesResult DEF TypeInv
<1>6. IsGraph(graph) /\ counter \in Nat /\ NoIdBeyond(graph, counter)
  BY DEF TypeInv
<1>7. change = RestrictionChange(graph, counter, NodesOf(r), KindOf(r))
  BY DEF Change
<1>8. PICK removals \in SetToSeqs(change.edges_to_remove), additions \in SetToSeqs(change.edges_to_add) :
          graph' = Applied(graph, change, removals, additions)
  BY DEF AddRelation
<1>9. counter' = change.phantom_node_id_counter
  BY DEF AddRelation
<1> HIDE DEF change, counter
<1>10. IsSound(graph, counter, change)
  BY <1>3, <1>4, <1>5, <1>6, <1>7, RestrictionChangeIsSound DEF NoIdBeyond
<1>11. IsChanged(graph, change, graph')
  BY <1>6, <1>8, <1>10, AppliedResult, Zenon
<1>12. /\ counter' \in Nat /\ counter' >= counter
       /\ DOMAIN change.new_nodes \subseteq counter + 1 .. counter'
       /\ \A id \in DOMAIN change.new_nodes : IsTarget(graph, change.new_nodes[id])
  BY <1>9, <1>10 DEF IsSound
<1> QED  BY <1>1, <1>11, <1>12 DEF change, counter

\* Where nodes are removed, the others stay as they are.
LEMMA RestrictedTo ==
    ASSUME NEW g, IsGraph(g), NEW S, S \subseteq DOMAIN g
    PROVE  LET h == [id \in S |-> g[id]] IN
           IsGraph(h) /\ DOMAIN h = S /\ \A id \in S : h[id] = g[id] /\ EdgesOf(h, id) = EdgesOf(g, id)
BY EdgesOfGraph DEF IsGraph, EdgesOf

LEMMA TypeInit == Init => TypeInv
<1> SUFFICES ASSUME Init
             PROVE  TypeInv
  OBVIOUS
<1>1. MAX_NODE_ID \in Nat
  BY MaxNodeIdAssumption
<1>2. session \in Seq(Operations)
  BY SessionsAssumption DEF Init
<1>3. IsGraph(graph) /\ DOMAIN graph = {}
  BY DEF Init, EmptyGraph, IsGraph
<1> QED  BY <1>1, <1>2, <1>3 DEF Init, TypeInv, NoIdBeyond

LEMMA TypeNext == TypeInv /\ [Next]_vars => TypeInv'
<1> SUFFICES ASSUME TypeInv, [Next]_vars
             PROVE  TypeInv'
  OBVIOUS
<1>1. ASSUME NEW op, Do(op)
      PROVE  Head(session) \in Operations /\ Head(session).op = op /\ session' \in Seq(Operations)
  BY <1>1 DEF Do, TypeInv
<1>2. features # << >> => Tail(features) \in Seq(SUBSET Features)
  BY DEF TypeInv
<1>3. CASE Load
  <2>1. Head(session) \in Operations /\ Head(session).op = "load" /\ session' \in Seq(Operations)
    BY <1>1, <1>3 DEF Load
  <2>2. features' \in Seq(SUBSET Features)
    BY <1>3, <2>1, SessionsAssumption DEF Load
  <2>3. /\ FirstPhantom(graph) \in Nat /\ FirstPhantom(graph) >= MAX_NODE_ID
        /\ NoIdBeyond(graph, FirstPhantom(graph))
    BY FirstPhantomResult DEF TypeInv, IsGraph
  <2>4. graph' = graph /\ phantom_node_id_counter' = FirstPhantom(graph) /\ pc' = "loading"
    BY <1>3 DEF Load
  <2>5. way_nodes' = [id \in {} |-> << >>] /\ unused_nodes' = {}
    BY <1>3 DEF Load
  <2> QED  BY <2>1, <2>2, <2>3, <2>4, <2>5 DEF TypeInv
<1>4. CASE Delete
  <2>1. session' \in Seq(Operations)
    BY <1>1, <1>4 DEF Delete
  <2> DEFINE S == DOMAIN graph \ {Head(session).id}
  <2>2. graph' = [id \in S |-> graph[id]]
    BY <1>4 DEF Delete, DeleteNode
  <2>3. IsGraph(graph') /\ DOMAIN graph' \subseteq DOMAIN graph
    BY <2>2, RestrictedTo DEF TypeInv
  <2> QED  BY <1>4, <2>1, <2>3 DEF TypeInv, Delete, builder, NoIdBeyond
<1>5. ASSUME NEW n \in Read("node"), AddNode(n)
      PROVE  TypeInv'
  <2>1. /\ n.id \in Int /\ n.id < MAX_NODE_ID
        /\ IsGraph(graph') /\ DOMAIN graph' = DOMAIN graph \cup {n.id}
    BY <1>5, AddNodeResult
  <2>2. features' = Tail(features) /\ features # << >>
    BY <1>5, ReadResult DEF AddNode, NextFeature
  <2>3. /\ session' = session /\ pc' = pc /\ phantom_node_id_counter' = phantom_node_id_counter
        /\ way_nodes' = way_nodes /\ unused_nodes' = unused_nodes \cup {n.id}
    BY <1>5 DEF AddNode, NextFeature, reader
  <2>4. MAX_NODE_ID \in Nat
    BY MaxNodeIdAssumption
  <2>5. NoIdBeyond(graph', phantom_node_id_counter)
    BY <2>1, <2>4 DEF TypeInv, NoIdBeyond
  <2>6. \A id \in unused_nodes' : id < MAX_NODE_ID
    BY <2>1, <2>3 DEF TypeInv
  <2> QED  BY <1>2, <2>1, <2>2, <2>3, <2>5, <2>6 DEF TypeInv
<1>6. ASSUME NEW w \in Read("way"), AddWay(w)
      PROVE  TypeInv'
  <2>1. /\ IsGraph(graph') /\ DOMAIN graph' = DOMAIN graph
        /\ \A id \in DOMAIN way_nodes' : way_nodes'[id] \in StoredWays
    BY <1>6, AddWayResult
  <2>2. features' = Tail(features) /\ features # << >>
    BY <1>6, ReadResult DEF AddWay, NextFeature
  <2>3. /\ session' = session /\ pc' = pc /\ phantom_node_id_counter' = phantom_node_id_counter
        /\ unused_nodes' \subseteq unused_nodes
    BY <1>6 DEF AddWay, NextFeature, reader
  <2> QED  BY <1>2, <2>1, <2>2, <2>3 DEF TypeInv, NoIdBeyond
<1>7. ASSUME NEW r \in Read("relation"), AddRelation(r)
      PROVE  TypeInv'
  <2> DEFINE clones == DOMAIN Change(r).new_nodes
  <2>1. /\ phantom_node_id_counter' \in Nat /\ phantom_node_id_counter' >= phantom_node_id_counter
        /\ clones \subseteq phantom_node_id_counter + 1 .. phantom_node_id_counter'
        /\ IsGraph(graph') /\ DOMAIN graph' = DOMAIN graph \cup clones
    BY <1>7, AddRelationResult DEF IsChanged
  <2>2. features' = Tail(features) /\ features # << >>
    BY <1>7, ReadResult DEF AddRelation, NextFeature
  <2>3. session' = session /\ pc' = pc /\ unused_nodes' = unused_nodes /\ way_nodes' = way_nodes
    BY <1>7 DEF AddRelation, NextFeature, reader
  <2> HIDE DEF clones
  <2>4. MAX_NODE_ID \in Nat /\ phantom_node_id_counter \in Nat /\ phantom_node_id_counter >= MAX_NODE_ID
    BY MaxNodeIdAssumption DEF TypeInv
  <2>5. phantom_node_id_counter' >= MAX_NODE_ID
    BY <2>1, <2>4
  <2>6. NoIdBeyond(graph', phantom_node_id_counter')
    <3>1. ASSUME NEW id \in DOMAIN graph
          PROVE  id <= phantom_node_id_counter'
      BY <2>1, <2>4, EdgesOfGraph DEF TypeInv, NoIdBeyond
    <3>2. ASSUME NEW id \in clones
          PROVE  id <= phantom_node_id_counter'
      BY <2>1
    <3> QED  BY <2>1, <3>1, <3>2 DEF NoIdBeyond
  <2> QED  BY <1>2, <2>1, <2>2, <2>3, <2>5, <2>6 DEF TypeInv
<1>8. CASE \/ \E n \in Read("node") : IgnoreNode(n)
           \/ \E w \in Read("way") : IgnoreWay(w)
           \/ \E r \in Read("relation") : IgnoreRelation(r)
  <2>1. features' = Tail(features) /\ features # << >>
    BY <1>8, ReadResult DEF IgnoreNode, IgnoreWay, IgnoreRelation, NextFeature
  <2>2. /\ session' = session /\ pc' = pc /\ graph' = graph
        /\ phantom_node_id_counter' = phantom_node_id_counter
        /\ unused_nodes' = unused_nodes /\ way_nodes' = way_nodes
    BY <1>8 DEF IgnoreNode, IgnoreWay, IgnoreRelation, NextFeature, reader, builder
  <2> QED  BY <1>2, <2>1, <2>2 DEF TypeInv
<1>9. CASE Cleanup
  <2> DEFINE S == DOMAIN graph \ unused_nodes
  <2>1. graph' = [id \in S |-> graph[id]]
    BY <1>9 DEF Cleanup
  <2>2. IsGraph(graph') /\ DOMAIN graph' \subseteq DOMAIN graph
    BY <2>1, RestrictedTo DEF TypeInv
  <2> QED  BY <1>9, <2>2 DEF TypeInv, Cleanup, builder, NoIdBeyond
<1>10. CASE Fail
  BY <1>10 DEF TypeInv, Fail, builder
<1>11. CASE Done \/ UNCHANGED vars
  BY <1>11 DEF TypeInv, Done, vars, reader, builder
<1> QED  BY <1>3, <1>4, <1>5, <1>6, <1>7, <1>8, <1>9, <1>10, <1>11 DEF Next

\* Whatever is loaded and deleted, the graph is one: ids and edges are what
\* graph.rs takes them for, no node has two edges to another, no id is beyond
\* the last clone's and no stored way is too short for flatten_member_nodes.
THEOREM BuilderTypes == Spec => []TypeInv
<1>1. Init => TypeInv
  BY TypeInit
<1>2. TypeInv /\ [Next]_vars => TypeInv'
  BY TypeNext
<1> QED  BY <1>1, <1>2, PTL DEF Spec

LEMMA NodesStayNext ==
    TypeInv /\ [Next]_vars =>
        \A id \in DOMAIN graph \cap DOMAIN graph' :
            OsmId(graph', id) = OsmId(graph, id) /\ Pos(graph', id) = Pos(graph, id)
<1> SUFFICES ASSUME TypeInv, [Next]_vars,
                    NEW id \in DOMAIN graph, id \in DOMAIN graph'
             PROVE  graph'[id].osm_id = graph[id].osm_id /\ graph'[id].pos = graph[id].pos
  BY DEF OsmId, Pos
<1>1. CASE graph' = graph
  BY <1>1
<1>2. CASE Delete
  BY <1>2 DEF Delete, DeleteNode
<1>3. ASSUME NEW n \in Read("node"), AddNode(n)
      PROVE  graph'[id] = graph[id]
  BY <1>3, AddNodeResult
<1>4. ASSUME NEW w \in Read("way"), AddWay(w)
      PROVE  graph'[id].osm_id = graph[id].osm_id /\ graph'[id].pos = graph[id].pos
  BY <1>4, AddWayResult DEF SameNodes
<1>5. ASSUME NEW r \in Read("relation"), AddRelation(r)
      PROVE  graph'[id].osm_id = graph[id].osm_id /\ graph'[id].pos = graph[id].pos
  <2>1. IsChanged(graph, Change(r), graph')
    BY <1>5, AddRelationResult
  <2> QED  BY <2>1 DEF IsChanged
<1>6. CASE Cleanup
  BY <1>6 DEF Cleanup
<1>7. \/ graph' = graph \/ Delete \/ Cleanup
      \/ \E n \in Read("node") : AddNode(n)
      \/ \E w \in Read("way") : AddWay(w)
      \/ \E r \in Read("relation") : AddRelation(r)
  BY DEF Next, Load, IgnoreNode, IgnoreWay, IgnoreRelation, Fail, Done, vars
<1> QED  BY <1>1, <1>2, <1>3, <1>4, <1>5, <1>6, <1>7

\* GraphBuilder::new numbers clones after every id of the graph, so no step of
\* this load or a later one turns a node into another.
THEOREM ClonesTakeNoIdInUse == Spec => NodesStay
<1>1. Spec => []TypeInv
  BY BuilderTypes
<1>2. TypeInv /\ [Next]_vars =>
          [\A id \in DOMAIN graph \cap DOMAIN graph' :
              OsmId(graph', id) = OsmId(graph, id) /\ Pos(graph', id) = Pos(graph, id)]_vars
  BY NodesStayNext
<1> QED  BY <1>1, <1>2, PTL DEF Spec, NodesStay

---------------------------------------------------------------------------
(* Edges are never shorter than the distance, and clones never alone *)

NoEdgeDangles(g) == \A id \in DOMAIN g : \A e \in EdgesOf(g, id) : e.to \in DOMAIN g

EdgesCover(g) == \A id \in DOMAIN g : \A e \in EdgesOf(g, id) : e.to \in DOMAIN g => Covers(g, id, e)

LEMMA EdgesCoverDistanceMeans == TypeInv => (EdgesCoverDistance <=> EdgesCover(graph))
<1> SUFFICES ASSUME TypeInv
             PROVE  EdgesCoverDistance <=> EdgesCover(graph)
  OBVIOUS
<1>1. \A id \in DOMAIN graph : ToSet(GetEdges(graph, id)) = EdgesOf(graph, id)
  BY EdgesOfGraph DEF TypeInv, EdgesOf
<1> QED  BY <1>1 DEF EdgesCoverDistance, EdgesCover, Covers, HasNode, Pos

\* What makes EdgesCoverDistance inductive: while it loads, a builder meets no
\* edge that a node or a clone to come would revive at another place.
EdgesInv ==
    /\ TypeInv
    /\ EdgesCover(graph)
    /\ pc = "loading" => NoEdgeDangles(graph)

LEMMA EdgesNext == EdgesInv /\ [Next]_vars /\ (Load => NoEdgeDangles(graph)) => EdgesInv'
<1> SUFFICES ASSUME EdgesInv, [Next]_vars, Load => NoEdgeDangles(graph)
             PROVE  EdgesCover(graph') /\ (pc' = "loading" => NoEdgeDangles(graph'))
  BY TypeNext DEF EdgesInv
<1>1. TypeInv /\ IsGraph(graph) /\ EdgesCover(graph) /\ (pc = "loading" => NoEdgeDangles(graph))
  BY DEF EdgesInv, TypeInv
<1>2. ASSUME NEW S, S \subseteq DOMAIN graph, graph' = [id \in S |-> graph[id]]
      PROVE  EdgesCover(graph')
  <2>1. DOMAIN graph' = S /\ \A id \in S : graph'[id] = graph[id] /\ EdgesOf(graph', id) = EdgesOf(graph, id)
    BY <1>2 DEF EdgesOf
  <2>2. ASSUME NEW id \in S, NEW e \in EdgesOf(graph', id), e.to \in S
        PROVE  Covers(graph', id, e)
    <3>1. Covers(graph, id, e)
      BY <1>1, <1>2, <2>1, <2>2 DEF EdgesCover
    <3>2. graph'[id].pos = graph[id].pos /\ graph'[e.to].pos = graph[e.to].pos
      BY <2>1, <2>2
    <3> QED  BY <3>1, <3>2 DEF Covers
  <2> QED  BY <2>1, <2>2 DEF EdgesCover
<1>3. CASE Load
  <2>1. NoEdgeDangles(graph)
    BY <1>3
  <2> QED  BY <1>1, <1>3, <2>1 DEF Load
<1>4. CASE Delete
  <2>1. EdgesCover(graph')
    BY <1>2, <1>4 DEF Delete, DeleteNode
  <2>2. pc' = "idle"
    BY <1>4 DEF Delete, Do
  <2> QED  BY <2>1, <2>2
<1>5. CASE Cleanup
  <2>1. EdgesCover(graph') /\ pc' = "idle"
    BY <1>2, <1>5 DEF Cleanup
  <2> QED  BY <2>1
<1>6. ASSUME NEW n \in Read("node"), AddNode(n)
      PROVE  EdgesCover(graph') /\ NoEdgeDangles(graph')
  <2>1. /\ pc = "loading" /\ n.id \notin DOMAIN graph
        /\ DOMAIN graph' = DOMAIN graph \cup {n.id}
        /\ \A id \in DOMAIN graph : graph'[id] = graph[id]
        /\ EdgesOf(graph', n.id) = {}
    BY <1>1, <1>6, AddNodeResult
  <2>2. \A id \in DOMAIN graph : EdgesOf(graph', id) = EdgesOf(graph, id)
    BY <2>1 DEF EdgesOf
  <2>3. NoEdgeDangles(graph)
    BY <1>1, <2>1
  <2>4. NoEdgeDangles(graph')
    BY <2>1, <2>2, <2>3 DEF NoEdgeDangles
  <2>5. EdgesCover(graph')
    BY <1>1, <2>1, <2>2, <2>3 DEF EdgesCover, NoEdgeDangles, Covers
  <2> QED  BY <2>4, <2>5
<1>7. ASSUME NEW w \in Read("way"), AddWay(w)
      PROVE  EdgesCover(graph') /\ NoEdgeDangles(graph')
  <2>1. /\ pc = "loading" /\ SameNodes(graph, graph') /\ DOMAIN graph' = DOMAIN graph
        /\ \A id \in DOMAIN graph : \A e \in EdgesOf(graph', id) :
              e \in EdgesOf(graph, id) \/ (/\ id \in Used(w) /\ e.to \in Used(w)
                                           /\ Covers(graph, id, e))
        /\ Used(w) \subseteq DOMAIN graph
    BY <1>1, <1>7, AddWayResult
  <2>2. NoEdgeDangles(graph)
    BY <1>1, <2>1
  <2>3. ASSUME NEW id \in DOMAIN graph, NEW e \in EdgesOf(graph', id)
        PROVE  e.to \in DOMAIN graph /\ Covers(graph, id, e)
    BY <1>1, <2>1, <2>2 DEF NoEdgeDangles, EdgesCover
  <2>4. \A id \in DOMAIN graph : graph'[id].pos = graph[id].pos
    BY <2>1 DEF SameNodes
  <2>5. ASSUME NEW id \in DOMAIN graph, NEW e \in EdgesOf(graph', id)
        PROVE  Covers(graph', id, e)
    <3>1. e.to \in DOMAIN graph /\ Covers(graph, id, e)
      BY <2>3
    <3>2. graph'[id].pos = graph[id].pos /\ graph'[e.to].pos = graph[e.to].pos
      BY <2>4, <3>1
    <3> QED  BY <3>1, <3>2 DEF Covers
  <2> QED  BY <2>1, <2>3, <2>5 DEF NoEdgeDangles, EdgesCover
<1>8. ASSUME NEW r \in Read("relation"), AddRelation(r)
      PROVE  EdgesCover(graph') /\ NoEdgeDangles(graph')
  <2> DEFINE change == Change(r)
             new == change.new_nodes
  <2>1. pc = "loading" /\ IsChanged(graph, change, graph') /\ \A id \in DOMAIN new : IsTarget(graph, new[id])
    BY <1>1, <1>8, AddRelationResult
  <2> HIDE DEF change
  <2>2. NoEdgeDangles(graph)
    BY <1>1, <2>1
  <2>3. DOMAIN graph' = DOMAIN graph \cup DOMAIN new /\ \A id \in DOMAIN new : new[id] \in DOMAIN graph
    BY <2>1 DEF IsChanged, IsTarget
  <2>4. ASSUME NEW id \in DOMAIN graph', NEW e \in EdgesOf(graph', id)
        PROVE  e.to \in DOMAIN graph' /\ Covers(graph', id, e)
    <3> DEFINE original == Original(change, id)
    <3>1. original \in DOMAIN graph /\ graph'[id].pos = graph[original].pos
      BY <2>1 DEF IsChanged
    <3>2. CASE e \in EdgesOf(graph, original)
      <4>1. e.to \in DOMAIN graph /\ Covers(graph, original, e)
        BY <1>1, <2>2, <3>1, <3>2 DEF NoEdgeDangles, EdgesCover
      <4>2. e.to \in DOMAIN graph' /\ graph'[e.to].pos = graph[e.to].pos
        BY <2>1, <2>3, <4>1 DEF IsChanged
      <4> QED  BY <3>1, <4>1, <4>2 DEF Covers
    <3>3. CASE /\ e.to \in DOMAIN new
               /\ [to |-> new[e.to], cost |-> e.cost] \in EdgesOf(graph, original)
      <4> DEFINE old == [to |-> new[e.to], cost |-> e.cost]
      <4>1. old.to \in DOMAIN graph /\ old.to = new[e.to] /\ old.cost = e.cost
        BY <2>3, <3>3
      <4> HIDE DEF old
      <4>2. Covers(graph, original, old)
        BY <1>1, <3>1, <3>3, <4>1 DEF EdgesCover, old
      <4>3. e.to \in DOMAIN graph' /\ graph'[e.to].pos = graph[old.to].pos
        BY <2>1, <2>3, <3>3, <4>1 DEF IsChanged, Original
      <4> QED  BY <3>1, <4>1, <4>2, <4>3 DEF Covers
    <3> QED  BY <2>1, <3>2, <3>3 DEF IsChanged
  <2> QED  BY <2>4 DEF NoEdgeDangles, EdgesCover
<1>9. CASE graph' = graph /\ (pc' = pc \/ pc' = "idle")
  BY <1>1, <1>9
<1>10. \/ Load \/ Delete \/ Cleanup
       \/ \E n \in Read("node") : AddNode(n)
       \/ \E w \in Read("way") : AddWay(w)
       \/ \E r \in Read("relation") : AddRelation(r)
       \/ graph' = graph /\ (pc' = pc \/ pc' = "idle")
  BY DEF Next, NextFeature, IgnoreNode, IgnoreWay, IgnoreRelation, Fail, Done, vars, reader
<1> QED  BY <1>3, <1>4, <1>5, <1>6, <1>7, <1>8, <1>9, <1>10

\* When no load begins with a graph that has edges to deleted nodes, no edge is
\* shorter than the distance: Edge, "cost must be greater than the crow-flies
\* distance between the two nodes", which find_route relies on.
THEOREM NoShortcuts == Spec /\ [][Load => NoEdgeDangles(graph)]_vars => []EdgesCoverDistance
<1>1. Init => EdgesInv
  BY TypeInit DEF Init, EdgesInv, EmptyGraph, EdgesCover
<1>2. EdgesInv /\ [Next]_vars /\ [Load => NoEdgeDangles(graph)]_vars => EdgesInv'
  <2>1. EdgesInv /\ UNCHANGED vars => EdgesInv'
    BY DEF EdgesInv, TypeInv, vars, reader, builder
  <2> QED  BY <2>1, EdgesNext
<1>3. EdgesInv => EdgesCoverDistance
  BY EdgesCoverDistanceMeans DEF EdgesInv
<1> QED  BY <1>1, <1>2, <1>3, PTL DEF Spec

---------------------------------------------------------------------------
(* Clones have canonical nodes *)

HasNoClone(g, x) == \A id \in DOMAIN g : OsmId(g, id) = x => id = x

NoEdgeTo(g, x) == \A id \in DOMAIN g : \A e \in EdgesOf(g, id) : e.to # x

\* What makes ClonesHaveCanonicals inductive: the nodes that the cleanup is to
\* remove have no clones, since no edge leads to them.
ClonesInv ==
    /\ EdgesInv
    /\ ClonesHaveCanonicals
    /\ pc = "loading" => \A x \in unused_nodes : HasNoClone(graph, x) /\ NoEdgeTo(graph, x)

\* A clone is removed before the node that it is a clone of.
DeletesClonesFirst == Delete => HasNoClone(graph, Head(session).id)

LEMMA ClonesNext ==
    ClonesInv /\ [Next]_vars /\ (Load => NoEdgeDangles(graph)) /\ DeletesClonesFirst => ClonesInv'
<1> SUFFICES ASSUME ClonesInv, [Next]_vars, Load => NoEdgeDangles(graph), DeletesClonesFirst
             PROVE  /\ ClonesHaveCanonicals'
                    /\ pc' = "loading" =>
                          \A x \in unused_nodes' : HasNoClone(graph', x) /\ NoEdgeTo(graph', x)
  BY EdgesNext DEF ClonesInv
<1>1. TypeInv /\ IsGraph(graph) /\ (pc = "loading" => NoEdgeDangles(graph))
  BY DEF ClonesInv, EdgesInv, TypeInv
<1>2. \A id \in DOMAIN graph :
         LET osm_id == graph[id].osm_id IN
         /\ osm_id \in DOMAIN graph /\ graph[osm_id].osm_id = osm_id
         /\ graph[osm_id].pos = graph[id].pos
  BY DEF ClonesInv, ClonesHaveCanonicals, Canonical, HasNode, OsmId, Pos
<1>3. pc = "loading" => \A x \in unused_nodes : HasNoClone(graph, x) /\ NoEdgeTo(graph, x)
  BY DEF ClonesInv
\* Nodes without clones are removed.
<1>4. ASSUME NEW S, S \subseteq DOMAIN graph, graph' = [id \in S |-> graph[id]],
             \A x \in DOMAIN graph \ S : HasNoClone(graph, x)
      PROVE  ClonesHaveCanonicals'
  <2>1. \A id \in S : graph[id].osm_id \in S
    BY <1>2, <1>4 DEF HasNoClone, OsmId
  <2> QED  BY <1>2, <1>4, <2>1 DEF ClonesHaveCanonicals, Canonical, HasNode, OsmId, Pos
<1>5. CASE Load
  BY <1>5 DEF Load, ClonesInv, ClonesHaveCanonicals
<1>6. CASE Delete
  <2> DEFINE S == DOMAIN graph \ {Head(session).id}
  <2>1. graph' = [id \in S |-> graph[id]] /\ pc' = "idle" /\ HasNoClone(graph, Head(session).id)
    BY <1>6 DEF Delete, DeleteNode, Do, DeletesClonesFirst
  <2>2. \A x \in DOMAIN graph \ S : HasNoClone(graph, x)
    BY <2>1
  <2> QED  BY <1>4, <2>1, <2>2
<1>7. CASE Cleanup
  <2> DEFINE S == DOMAIN graph \ unused_nodes
  <2>1. graph' = [id \in S |-> graph[id]] /\ pc' = "idle" /\ pc = "loading"
    BY <1>7 DEF Cleanup
  <2>2. \A x \in DOMAIN graph \ S : HasNoClone(graph, x)
    BY <1>3, <2>1
  <2> QED  BY <1>4, <2>1, <2>2
<1>8. ASSUME NEW n \in Read("node"), AddNode(n)
      PROVE  /\ ClonesHaveCanonicals'
             /\ \A x \in unused_nodes' : HasNoClone(graph', x) /\ NoEdgeTo(graph', x)
  <2>1. /\ pc = "loading" /\ n.id \notin DOMAIN graph
        /\ DOMAIN graph' = DOMAIN graph \cup {n.id}
        /\ \A id \in DOMAIN graph : graph'[id] = graph[id]
        /\ graph'[n.id].osm_id = n.id /\ EdgesOf(graph', n.id) = {}
        /\ unused_nodes' = unused_nodes \cup {n.id}
    BY <1>1, <1>8, AddNodeResult DEF AddNode
  <2>2. \A id \in DOMAIN graph : EdgesOf(graph', id) = EdgesOf(graph, id)
    BY <2>1 DEF EdgesOf
  <2>3. ClonesHaveCanonicals'
    BY <1>2, <2>1 DEF ClonesHaveCanonicals, Canonical, HasNode, OsmId, Pos
  <2>4. HasNoClone(graph', n.id)
    BY <1>2, <2>1 DEF HasNoClone, OsmId
  <2>5. NoEdgeTo(graph', n.id)
    BY <1>1, <2>1, <2>2 DEF NoEdgeTo, NoEdgeDangles
  <2>6. ASSUME NEW x \in unused_nodes
        PROVE  x = n.id \/ (HasNoClone(graph', x) /\ NoEdgeTo(graph', x))
    BY <1>3, <2>1, <2>2 DEF HasNoClone, NoEdgeTo, OsmId
  <2> QED  BY <2>1, <2>3, <2>4, <2>5, <2>6
<1>9. ASSUME NEW w \in Read("way"), AddWay(w)
      PROVE  /\ ClonesHaveCanonicals'
             /\ \A x \in unused_nodes' : HasNoClone(graph', x) /\ NoEdgeTo(graph', x)
  <2>1. /\ pc = "loading" /\ SameNodes(graph, graph') /\ DOMAIN graph' = DOMAIN graph
        /\ \A id \in DOMAIN graph : \A e \in EdgesOf(graph', id) :
              e \in EdgesOf(graph, id) \/ (/\ id \in Used(w) /\ e.to \in Used(w)
                                           /\ Covers(graph, id, e))
        /\ unused_nodes' = unused_nodes \ Used(w)
    BY <1>1, <1>9, AddWayResult DEF AddWay
  <2>2. \A id \in DOMAIN graph : graph'[id].osm_id = graph[id].osm_id /\ graph'[id].pos = graph[id].pos
    BY <2>1 DEF SameNodes
  <2>3. ClonesHaveCanonicals'
    BY <1>2, <2>1, <2>2 DEF ClonesHaveCanonicals, Canonical, HasNode, OsmId, Pos
  <2>4. ASSUME NEW x \in unused_nodes'
        PROVE  HasNoClone(graph', x) /\ NoEdgeTo(graph', x)
    <3>1. x \notin Used(w) /\ HasNoClone(graph, x) /\ NoEdgeTo(graph, x)
      BY <1>3, <2>1
    <3> QED  BY <2>1, <2>2, <3>1 DEF HasNoClone, NoEdgeTo, OsmId
  <2> QED  BY <2>3, <2>4
<1>10. ASSUME NEW r \in Read("relation"), AddRelation(r)
       PROVE  /\ ClonesHaveCanonicals'
              /\ \A x \in unused_nodes' : HasNoClone(graph', x) /\ NoEdgeTo(graph', x)
  <2> DEFINE change == Change(r)
             new == change.new_nodes
  <2>1. /\ pc = "loading" /\ IsChanged(graph, change, graph')
        /\ \A id \in DOMAIN new : IsTarget(graph, new[id])
        /\ DOMAIN new \subseteq phantom_node_id_counter + 1 .. phantom_node_id_counter'
        /\ unused_nodes' = unused_nodes
    BY <1>1, <1>10, AddRelationResult DEF AddRelation
  <2> HIDE DEF change
  <2>2. /\ DOMAIN graph' = DOMAIN graph \cup DOMAIN new
        /\ \A id \in DOMAIN graph' : /\ Original(change, id) \in DOMAIN graph
                                     /\ graph'[id].osm_id = graph[Original(change, id)].osm_id
                                     /\ graph'[id].pos = graph[Original(change, id)].pos
        /\ \A id \in DOMAIN graph : Original(change, id) = id
    BY <2>1 DEF IsChanged
  <2>3. ClonesHaveCanonicals'
    BY <1>2, <2>2 DEF ClonesHaveCanonicals, Canonical, HasNode, OsmId, Pos
  <2>4. ASSUME NEW x \in unused_nodes
        PROVE  HasNoClone(graph', x) /\ NoEdgeTo(graph', x)
    <3>1. HasNoClone(graph, x) /\ NoEdgeTo(graph, x)
      BY <1>3, <2>1
    <3>2. x \notin DOMAIN new
      <4>1. x < MAX_NODE_ID /\ phantom_node_id_counter \in Nat /\ phantom_node_id_counter >= MAX_NODE_ID
        BY <1>1 DEF TypeInv
      <4>2. MAX_NODE_ID \in Nat
        BY MaxNodeIdAssumption
      <4>3. SUFFICES ASSUME x \in DOMAIN new
                     PROVE  FALSE
        OBVIOUS
      <4>4. x \in Int /\ x >= phantom_node_id_counter + 1
        BY <2>1, <4>1, <4>3
      <4> QED  BY <4>1, <4>2, <4>4
    <3>3. \A id \in DOMAIN new : new[id] # x /\ new[id] = Original(change, id)
      BY <2>1, <3>1 DEF IsTarget, NoEdgeTo, Original
    <3>4. HasNoClone(graph', x)
      BY <2>2, <3>1, <3>3 DEF HasNoClone, OsmId
    <3>5. NoEdgeTo(graph', x)
      BY <2>1, <2>2, <3>1, <3>2 DEF NoEdgeTo, IsChanged
    <3> QED  BY <3>4, <3>5
  <2> QED  BY <2>1, <2>3, <2>4
<1>11. CASE graph' = graph /\ unused_nodes' = unused_nodes /\ (pc' = pc \/ pc' = "idle")
  BY <1>11 DEF ClonesInv, ClonesHaveCanonicals
<1>12. \/ Load \/ Delete \/ Cleanup
       \/ \E n \in Read("node") : AddNode(n)
       \/ \E w \in Read("way") : AddWay(w)
       \/ \E r \in Read("relation") : AddRelation(r)
       \/ graph' = graph /\ unused_nodes' = unused_nodes /\ (pc' = pc \/ pc' = "idle")
  BY DEF Next, NextFeature, IgnoreNode, IgnoreWay, IgnoreRelation, Fail, Done, vars, reader, builder
<1> QED  BY <1>5, <1>6, <1>7, <1>8, <1>9, <1>10, <1>11, <1>12

LEMMA ClonesInvariant ==
    Spec /\ [][Load => NoEdgeDangles(graph)]_vars /\ [][DeletesClonesFirst]_vars => []ClonesInv
<1>1. Init => ClonesInv
  BY TypeInit DEF Init, ClonesInv, EdgesInv, EmptyGraph, EdgesCover, ClonesHaveCanonicals
<1>2. ClonesInv /\ [Next]_vars /\ [Load => NoEdgeDangles(graph)]_vars /\ [DeletesClonesFirst]_vars
          => ClonesInv'
  <2>1. ClonesInv /\ UNCHANGED vars => ClonesInv'
    BY DEF ClonesInv, EdgesInv, TypeInv, ClonesHaveCanonicals, vars, reader, builder
  <2> QED  BY <2>1, ClonesNext
<1> QED  BY <1>1, <1>2, PTL DEF Spec

\* When moreover clones are deleted before the nodes that they are of, to_id can
\* always name the place of a clone: no restriction, cleanup or further load
\* takes its canonical node away.
THEOREM ClonesAreNeverAlone ==
    Spec /\ [][Load => NoEdgeDangles(graph)]_vars /\ [][DeletesClonesFirst]_vars
        => []ClonesHaveCanonicals
<1>1. ClonesInv => ClonesHaveCanonicals
  BY DEF ClonesInv
<1> QED  BY <1>1, ClonesInvariant, PTL

---------------------------------------------------------------------------
(* Only deletions leave dangling edges *)

\* What makes that inductive: a node that the cleanup is to remove was deleted
\* before, and is only back, if some edge leads to it.
DanglingInv ==
    /\ TypeInv
    /\ \A id \in DOMAIN graph : \A e \in EdgesOf(graph, id) : e.to \in DOMAIN graph \cup deleted
    /\ pc = "loading" =>
          \A id \in DOMAIN graph : \A e \in EdgesOf(graph, id) :
              e.to \in unused_nodes => e.to \in deleted

LEMMA RNextIsNext == [RNext]_rvars => [Next]_vars
BY DEF RNext, RLoad, RNode, RWay, RRelation, RCleanup, RFail, RDelete, Next, rvars

LEMMA DanglingNext == DanglingInv /\ [RNext]_rvars => DanglingInv'
<1> SUFFICES ASSUME DanglingInv, [RNext]_rvars
             PROVE  /\ \A id \in DOMAIN graph' : \A e \in EdgesOf(graph', id) :
                           e.to \in DOMAIN graph' \cup deleted'
                    /\ pc' = "loading" =>
                          \A id \in DOMAIN graph' : \A e \in EdgesOf(graph', id) :
                              e.to \in unused_nodes' => e.to \in deleted'
  BY RNextIsNext, TypeNext DEF DanglingInv
<1>1. /\ TypeInv
      /\ \A id \in DOMAIN graph : \A e \in EdgesOf(graph, id) : e.to \in DOMAIN graph \cup deleted
      /\ pc = "loading" =>
            \A id \in DOMAIN graph : \A e \in EdgesOf(graph, id) :
                e.to \in unused_nodes => e.to \in deleted
  BY DEF DanglingInv
<1>2. CASE RLoad
  BY <1>1, <1>2 DEF RLoad, Load
<1>3. CASE RDelete
  <2>1. /\ deleted' = deleted \cup {Head(session).id} /\ pc' = "idle"
        /\ graph' = [id \in DOMAIN graph \ {Head(session).id} |-> graph[id]]
    BY <1>3 DEF RDelete, Delete, DeleteNode, Do
  <2> QED  BY <1>1, <2>1 DEF EdgesOf
<1>4. CASE RCleanup
  <2>1. /\ deleted' = deleted /\ pc = "loading" /\ pc' = "idle"
        /\ graph' = [id \in DOMAIN graph \ unused_nodes |-> graph[id]]
    BY <1>4 DEF RCleanup, Cleanup
  <2> QED  BY <1>1, <2>1 DEF EdgesOf
<1>5. CASE RFail
  BY <1>1, <1>5 DEF RFail, Fail
<1>6. ASSUME NEW n \in Read("node"), AddNode(n), deleted' = deleted
      PROVE  \A id \in DOMAIN graph' : \A e \in EdgesOf(graph', id) :
                 /\ e.to \in DOMAIN graph' \cup deleted'
                 /\ e.to \in unused_nodes' => e.to \in deleted'
  <2>1. /\ pc = "loading" /\ n.id \notin DOMAIN graph
        /\ DOMAIN graph' = DOMAIN graph \cup {n.id}
        /\ \A id \in DOMAIN graph : graph'[id] = graph[id]
        /\ EdgesOf(graph', n.id) = {}
        /\ unused_nodes' = unused_nodes \cup {n.id}
    BY <1>1, <1>6, AddNodeResult DEF AddNode
  <2>2. \A id \in DOMAIN graph : EdgesOf(graph', id) = EdgesOf(graph, id)
    BY <2>1 DEF EdgesOf
  <2> QED  BY <1>1, <1>6, <2>1, <2>2
<1>7. ASSUME NEW w \in Read("way"), AddWay(w), deleted' = deleted
      PROVE  \A id \in DOMAIN graph' : \A e \in EdgesOf(graph', id) :
                 /\ e.to \in DOMAIN graph' \cup deleted'
                 /\ e.to \in unused_nodes' => e.to \in deleted'
  <2>1. /\ pc = "loading" /\ DOMAIN graph' = DOMAIN graph
        /\ \A id \in DOMAIN graph : \A e \in EdgesOf(graph', id) :
              e \in EdgesOf(graph, id) \/ (/\ id \in Used(w) /\ e.to \in Used(w)
                                           /\ Covers(graph, id, e))
        /\ Used(w) \subseteq DOMAIN graph
        /\ unused_nodes' = unused_nodes \ Used(w)
    BY <1>1, <1>7, AddWayResult DEF AddWay
  <2> QED  BY <1>1, <1>7, <2>1
<1>8. ASSUME NEW r \in Read("relation"), AddRelation(r), deleted' = deleted
      PROVE  \A id \in DOMAIN graph' : \A e \in EdgesOf(graph', id) :
                 /\ e.to \in DOMAIN graph' \cup deleted'
                 /\ e.to \in unused_nodes' => e.to \in deleted'
  <2> DEFINE change == Change(r)
             clones == DOMAIN change.new_nodes
  <2>1. /\ pc = "loading" /\ IsChanged(graph, change, graph')
        /\ clones \subseteq phantom_node_id_counter + 1 .. phantom_node_id_counter'
        /\ phantom_node_id_counter' \in Nat
        /\ unused_nodes' = unused_nodes
    BY <1>1, <1>8, AddRelationResult DEF AddRelation
  <2> HIDE DEF change
  <2>2. \A id \in clones : id \notin unused_nodes
    <3>1. /\ phantom_node_id_counter \in Nat /\ phantom_node_id_counter >= MAX_NODE_ID
          /\ \A id \in unused_nodes : id < MAX_NODE_ID
          /\ MAX_NODE_ID \in Nat
      BY <1>1, MaxNodeIdAssumption DEF TypeInv
    <3>2. \A id \in clones : id \in Int /\ id >= phantom_node_id_counter + 1
      BY <2>1, <3>1
    <3> QED  BY <3>1, <3>2
  <2>3. ASSUME NEW id \in DOMAIN graph', NEW e \in EdgesOf(graph', id)
        PROVE  e.to \in clones \/ \E from \in DOMAIN graph : e \in EdgesOf(graph, from)
    BY <2>1 DEF IsChanged
  <2>4. DOMAIN graph' = DOMAIN graph \cup clones
    BY <2>1 DEF IsChanged
  <2> QED  BY <1>1, <1>8, <2>1, <2>2, <2>3, <2>4
<1>9. CASE graph' = graph /\ unused_nodes' = unused_nodes /\ pc' = pc /\ deleted' = deleted
  BY <1>1, <1>9
<1>10. \/ RLoad \/ RDelete \/ RCleanup \/ RFail
       \/ \E n \in Read("node") : AddNode(n) /\ deleted' = deleted
       \/ \E w \in Read("way") : AddWay(w) /\ deleted' = deleted
       \/ \E r \in Read("relation") : AddRelation(r) /\ deleted' = deleted
       \/ graph' = graph /\ unused_nodes' = unused_nodes /\ pc' = pc /\ deleted' = deleted
  BY DEF RNext, RNode, RWay, RRelation, IgnoreNode, IgnoreWay, IgnoreRelation, NextFeature, Done,
         history, rvars, vars, reader, builder
<1> QED  BY <1>2, <1>3, <1>4, <1>5, <1>6, <1>7, <1>8, <1>9, <1>10

LEMMA DanglingInvImplies == DanglingInv => OnlyDeletionsLeaveDanglingEdges
<1> SUFFICES ASSUME DanglingInv, NEW id \in DOMAIN graph
             PROVE  LET edges == GetEdges(graph, id) IN
                    /\ \A i \in DOMAIN edges : HasNode(graph, edges[i].to) \/ edges[i].to \in deleted
                    /\ \A i, j \in DOMAIN edges : edges[i].to = edges[j].to => i = j
  BY DEF OnlyDeletionsLeaveDanglingEdges
<1> DEFINE edges == graph[id].edges
<1>1. GetEdges(graph, id) = edges /\ edges \in EdgeLists
  BY EdgesOfGraph DEF DanglingInv, TypeInv
<1>2. \A i \in DOMAIN edges : edges[i] \in EdgesOf(graph, id)
  BY DEF EdgesOf, ToSet
<1>3. \A i \in DOMAIN edges : HasNode(graph, edges[i].to) \/ edges[i].to \in deleted
  BY <1>2 DEF DanglingInv, HasNode
<1>4. \A i, j \in DOMAIN edges : edges[i].to = edges[j].to => i = j
  BY <1>1 DEF EdgeLists, OneEdgePerTarget
<1> QED  BY <1>1, <1>3, <1>4

LEMMA DanglingInvariant == RSpec => []DanglingInv
<1>1. RInit => DanglingInv
  BY TypeInit DEF RInit, Init, DanglingInv, EmptyGraph
<1>2. DanglingInv /\ [RNext]_rvars => DanglingInv'
  BY DanglingNext
<1> QED  BY <1>1, <1>2, PTL DEF RSpec

\* However files overlap, fail or restrict each other, no edge is left that
\* leads nowhere unless its end was deleted, and no node has two edges to another.
THEOREM LoadsLeaveNoDanglingEdge == RSpec => []OnlyDeletionsLeaveDanglingEdges
<1>1. DanglingInv => OnlyDeletionsLeaveDanglingEdges
  BY DanglingInvImplies
<1> QED  BY <1>1, DanglingInvariant, PTL

\* The history only observes: what it sees is a builder.
THEOREM HistoryObserves == RSpec => Spec
<1>1. RInit => Init
  BY DEF RInit
<1>2. [RNext]_rvars => [Next]_vars
  BY RNextIsNext
<1> QED  BY <1>1, <1>2, PTL DEF RSpec, Spec

LEMMA NothingDeleted == RSpec /\ [](deleted = {}) => [](ClonesInv /\ NoEdgeDangles(graph))
<1>1. DanglingInv /\ deleted = {} => NoEdgeDangles(graph)
  BY DEF DanglingInv, NoEdgeDangles
<1>2. NoEdgeDangles(graph) => [Load => NoEdgeDangles(graph)]_vars
  OBVIOUS
<1>3. (deleted = {})' /\ [RNext]_rvars => [DeletesClonesFirst]_vars
  <2> SUFFICES ASSUME deleted' = {}, [RNext]_rvars, Delete
               PROVE  UNCHANGED vars
    BY DEF DeletesClonesFirst
  <2>1. pc = "idle" /\ Head(session).op = "delete"
    BY DEF Delete, Do
  <2>2. ~ RDelete
    BY DEF RDelete
  <2>3. ~ RLoad
    BY <2>1 DEF RLoad, Load, Do
  <2>4. ~ RCleanup /\ ~ RFail
    BY <2>1 DEF RCleanup, Cleanup, RFail, Fail
  <2>5. ~ RNode /\ ~ RWay /\ ~ RRelation
    BY <2>1 DEF RNode, RWay, RRelation, Read
  <2> QED  BY <2>2, <2>3, <2>4, <2>5 DEF RNext, Done, rvars
<1>4. RSpec /\ [](deleted = {}) => []NoEdgeDangles(graph)
  BY <1>1, DanglingInvariant, PTL
<1>5. RSpec /\ [](deleted = {}) => [][Load => NoEdgeDangles(graph)]_vars
  BY <1>2, <1>4, PTL
<1>6. RSpec /\ [](deleted = {}) => [][DeletesClonesFirst]_vars
  BY <1>3, PTL DEF RSpec
<1> QED  BY <1>4, <1>5, <1>6, HistoryObserves, ClonesInvariant, PTL

\* As long as nothing is deleted, nothing else needs to be asked for: whatever
\* is loaded, no edge is shorter than the distance, and every clone has its node.
THEOREM LoadsAlone == RSpec /\ [](deleted = {}) => [](EdgesCoverDistance /\ ClonesHaveCanonicals)
<1>1. ClonesInv => EdgesCoverDistance /\ ClonesHaveCanonicals
  BY EdgesCoverDistanceMeans DEF ClonesInv, EdgesInv
<1> QED  BY <1>1, NothingDeleted, PTL

---------------------------------------------------------------------------
(* The roads: what the graph would be without restrictions *)

\* Ways refer to nodes of OpenStreetMap, whose ids are those below MAX_NODE_ID.
WaysNameOsmNodes ==
    \A f \in Features : f.type = "way" => \A i \in DOMAIN f.nodes : f.nodes[i] < MAX_NODE_ID

\* The roads have the nodes that are no clones, at the same places.
RoadsInv ==
    /\ TypeInv
    /\ IsGraph(roads)
    /\ DOMAIN roads = {id \in DOMAIN graph : id < MAX_NODE_ID}
    /\ \A id \in DOMAIN roads :
          roads[id].pos = graph[id].pos /\ graph[id].osm_id = id /\ roads[id].osm_id = id

LEMMA HasEdgeMeans ==
    ASSUME NEW g, IsGraph(g), NEW from, NEW to
    PROVE  HasEdge(g, from, to) <=> from \in DOMAIN g /\ \E e \in EdgesOf(g, from) : e.to = to
<1>1. CASE from \in DOMAIN g
  <2>1. GetEdges(g, from) = g[from].edges
    BY <1>1, EdgesOfGraph
  <2> QED  BY <1>1, <2>1 DEF HasEdge, EdgesTo, EdgesOf, ToSet
<1>2. CASE from \notin DOMAIN g
  <2>1. GetEdges(g, from) = << >>
    BY <1>2, EdgesOfGraph
  <2> QED  BY <1>2, <2>1 DEF HasEdge, EdgesTo
<1> QED  BY <1>1, <1>2

LEMMA GetEdgeMeans ==
    ASSUME NEW g, IsGraph(g), NEW from \in DOMAIN g, NEW e \in EdgesOf(g, from)
    PROVE  HasEdge(g, from, e.to) /\ GetEdge(g, from, e.to) = e.cost
<1> DEFINE es == g[from].edges
           k == FirstEdgeTo(es, e.to)
<1>1. GetEdges(g, from) = es /\ es \in Seq(Edge) /\ OneEdgePerTarget(es)
  BY EdgesOfGraph DEF EdgeLists
<1>2. HasEdge(g, from, e.to)
  BY HasEdgeMeans
<1>3. k \in DOMAIN es /\ es[k].to = e.to
  BY <1>1, <1>2, FirstEdgeIsThere DEF HasEdge
<1>4. PICK i \in DOMAIN es : es[i] = e
  BY DEF EdgesOf, ToSet
<1>5. es[k] = e
  BY <1>1, <1>3, <1>4 DEF OneEdgePerTarget
<1> QED  BY <1>1, <1>2, <1>5 DEF GetEdge

\* A way is for the roads what it is for the graph.
LEMMA WayOfRoads ==
    ASSUME WaysNameOsmNodes, RoadsInv, NEW w \in Read("way"), AddWay(w), roads' = CreateEdges(roads, w)
    PROVE  /\ w.nodes \in Seq(Int) /\ Routable(graph, w) /\ Routable(roads, w)
           /\ graph' = CreateEdges(graph, w)
           /\ WayNodes(roads, w) = WayNodes(graph, w) /\ WayNodes(roads, w) \in Seq(DOMAIN roads)
           /\ IsGraph(roads') /\ SameNodes(roads, roads') /\ DOMAIN roads' = DOMAIN roads
           /\ \A a, b : Links(roads, w, a, b) <=> Links(graph, w, a, b)
           /\ \A a, b : Links(roads, w, a, b) =>
                 a \in DOMAIN roads /\ b \in DOMAIN roads /\ Link(roads, w, a, b) = Link(graph, w, a, b)
<1>1. w \in Features /\ w.type = "way" /\ IsGraph(roads) /\ IsGraph(graph)
  BY ReadResult DEF RoadsInv, TypeInv
<1>2. w.nodes \in Seq(Int) /\ \A i \in DOMAIN w.nodes : w.nodes[i] < MAX_NODE_ID
  BY <1>1, SessionsAssumption DEF WaysNameOsmNodes
<1>3. \A i \in DOMAIN w.nodes : w.nodes[i] \in DOMAIN roads <=> w.nodes[i] \in DOMAIN graph
  BY <1>2 DEF RoadsInv
<1>4. WayNodes(roads, w) = WayNodes(graph, w)
  BY <1>2, <1>3, KeptAlike DEF WayNodes
<1>5. Routable(graph, w) /\ graph' = CreateEdges(graph, w)
  BY DEF AddWay
<1>6. Routable(roads, w)
  BY <1>4, <1>5 DEF Routable
<1>7. WayNodes(roads, w) \in Seq(DOMAIN roads) /\ SameNodes(roads, roads')
  BY <1>1, <1>2, <1>6, CreateEdgesResult
<1>8. IsGraph(roads') /\ DOMAIN roads' = DOMAIN roads
  BY <1>1, <1>7, SameNodesFacts
<1>9. \A a, b : Links(roads, w, a, b) <=> Links(graph, w, a, b)
  BY <1>4 DEF Links, LinksAt
<1>10. ASSUME NEW a, NEW b, Links(roads, w, a, b)
       PROVE  a \in DOMAIN roads /\ b \in DOMAIN roads /\ Link(roads, w, a, b) = Link(graph, w, a, b)
  <2> DEFINE nodes == WayNodes(roads, w)
  <2>1. PICK i \in 1 .. Len(nodes) - 1 : LinksAt(roads, w, i, a, b)
    BY <1>10 DEF Links
  <2>2. a \in {nodes[i], nodes[i + 1]} /\ b \in {nodes[i], nodes[i + 1]}
    BY <2>1 DEF LinksAt
  <2>3. nodes[i] \in DOMAIN roads /\ nodes[i + 1] \in DOMAIN roads
    BY <1>7, <2>1
  <2>4. roads[a].pos = graph[a].pos /\ roads[b].pos = graph[b].pos
    BY <2>2, <2>3 DEF RoadsInv
  <2> QED  BY <2>2, <2>3, <2>4 DEF Link, WayCost, Pos
<1> QED  BY <1>2, <1>4, <1>5, <1>6, <1>7, <1>8, <1>9, <1>10

\* A node of the roads is new, and has no edges.
LEMMA NodeOfRoads ==
    ASSUME RoadsInv, NEW n \in Read("node"), AddNode(n), roads' = SetNode(roads, n.id, n.id, n.pos)
    PROVE  /\ n.id \notin DOMAIN roads /\ DOMAIN roads' = DOMAIN roads \cup {n.id}
           /\ IsGraph(roads')
           /\ \A id \in DOMAIN roads : roads'[id] = roads[id] /\ EdgesOf(roads', id) = EdgesOf(roads, id)
           /\ EdgesOf(roads', n.id) = {}
           /\ roads'[n.id].pos = graph'[n.id].pos /\ roads'[n.id].osm_id = n.id
<1>1. /\ n.id \in Int /\ n.id < MAX_NODE_ID /\ n.id \notin DOMAIN graph
      /\ IsGraph(graph') /\ n.id \in DOMAIN graph'
  BY AddNodeResult DEF RoadsInv
<1>2. n.id \notin DOMAIN roads /\ IsGraph(roads)
  BY <1>1 DEF RoadsInv
<1>3. /\ graph'[n.id] = [osm_id |-> n.id, pos |-> n.pos, edges |-> << >>]
      /\ roads'[n.id] = [osm_id |-> n.id, pos |-> n.pos, edges |-> << >>]
      /\ DOMAIN roads' = DOMAIN roads \cup {n.id}
      /\ \A id \in DOMAIN roads : roads'[id] = roads[id]
      /\ roads' = [id \in DOMAIN roads' |-> roads'[id]]
  BY <1>1, <1>2 DEF AddNode, SetNode, HasNode
<1>4. roads'[n.id] \in Nodes
  BY <1>1, <1>3, EdgesOfGraph
<1>5. \A id \in DOMAIN roads' : id \in Int /\ roads'[id] \in Nodes
  BY <1>1, <1>2, <1>3, <1>4, EdgesOfGraph
<1>6. IsGraph(roads')
  BY <1>3, <1>5 DEF IsGraph
<1> QED  BY <1>2, <1>3, <1>6 DEF EdgesOf, ToSet

LEMMA RoadsNext ==
    ASSUME WaysNameOsmNodes, RoadsInv, [RNext]_rvars
    PROVE  RoadsInv'
<1>1. /\ IsGraph(graph) /\ IsGraph(roads)
      /\ DOMAIN roads = {id \in DOMAIN graph : id < MAX_NODE_ID}
      /\ \A id \in DOMAIN roads :
            roads[id].pos = graph[id].pos /\ graph[id].osm_id = id /\ roads[id].osm_id = id
  BY DEF RoadsInv, TypeInv
<1>2. TypeInv'
  BY RNextIsNext, TypeNext DEF RoadsInv
<1> SUFFICES /\ IsGraph(roads')
             /\ DOMAIN roads' = {id \in DOMAIN graph' : id < MAX_NODE_ID}
             /\ \A id \in DOMAIN roads' :
                   roads'[id].pos = graph'[id].pos /\ graph'[id].osm_id = id /\ roads'[id].osm_id = id
  BY <1>2 DEF RoadsInv
<1>3. CASE graph' = graph /\ roads' = roads
  BY <1>1, <1>3
<1>4. ASSUME NEW S, graph' = [id \in DOMAIN graph \ S |-> graph[id]],
             roads' = [id \in DOMAIN roads \ S |-> roads[id]]
      PROVE  /\ IsGraph(roads')
             /\ DOMAIN roads' = {id \in DOMAIN graph' : id < MAX_NODE_ID}
             /\ \A id \in DOMAIN roads' :
                   roads'[id].pos = graph'[id].pos /\ graph'[id].osm_id = id /\ roads'[id].osm_id = id
  <2> DEFINE R == DOMAIN roads \ S
  <2>1. R \subseteq DOMAIN roads
    OBVIOUS
  <2>2. IsGraph(roads')
    BY <1>1, <1>4, <2>1, RestrictedTo
  <2>3. /\ DOMAIN graph' = DOMAIN graph \ S /\ \A id \in DOMAIN graph' : graph'[id] = graph[id]
        /\ DOMAIN roads' = DOMAIN roads \ S /\ \A id \in DOMAIN roads' : roads'[id] = roads[id]
    BY <1>4
  <2> QED  BY <1>1, <2>2, <2>3
<1>5. CASE RDelete
  <2>1. /\ graph' = [id \in DOMAIN graph \ {Head(session).id} |-> graph[id]]
        /\ roads' = [id \in DOMAIN roads \ {Head(session).id} |-> roads[id]]
    BY <1>5 DEF RDelete, Delete, DeleteNode
  <2> QED  BY <1>4, <2>1
<1>6. CASE RCleanup
  <2>1. /\ graph' = [id \in DOMAIN graph \ unused_nodes |-> graph[id]]
        /\ roads' = [id \in DOMAIN roads \ unused_nodes |-> roads[id]]
    BY <1>6 DEF RCleanup, Cleanup
  <2> QED  BY <1>4, <2>1
<1>7. ASSUME NEW n \in Read("node"), AddNode(n), roads' = SetNode(roads, n.id, n.id, n.pos)
      PROVE  /\ IsGraph(roads')
             /\ DOMAIN roads' = {id \in DOMAIN graph' : id < MAX_NODE_ID}
             /\ \A id \in DOMAIN roads' :
                   roads'[id].pos = graph'[id].pos /\ graph'[id].osm_id = id /\ roads'[id].osm_id = id
  <2>1. /\ n.id < MAX_NODE_ID /\ n.id \notin DOMAIN graph /\ DOMAIN graph' = DOMAIN graph \cup {n.id}
        /\ \A id \in DOMAIN graph : graph'[id] = graph[id]
        /\ graph'[n.id].osm_id = n.id
    BY <1>7, AddNodeResult DEF RoadsInv
  <2>2. /\ DOMAIN roads' = DOMAIN roads \cup {n.id} /\ IsGraph(roads')
        /\ \A id \in DOMAIN roads : roads'[id] = roads[id]
        /\ roads'[n.id].pos = graph'[n.id].pos /\ roads'[n.id].osm_id = n.id
    BY <1>7, NodeOfRoads
  <2> QED  BY <1>1, <2>1, <2>2
<1>8. ASSUME NEW w \in Read("way"), AddWay(w), roads' = CreateEdges(roads, w)
      PROVE  /\ IsGraph(roads')
             /\ DOMAIN roads' = {id \in DOMAIN graph' : id < MAX_NODE_ID}
             /\ \A id \in DOMAIN roads' :
                   roads'[id].pos = graph'[id].pos /\ graph'[id].osm_id = id /\ roads'[id].osm_id = id
  <2>1. DOMAIN graph' = DOMAIN graph
        /\ \A id \in DOMAIN graph : graph'[id].osm_id = graph[id].osm_id /\ graph'[id].pos = graph[id].pos
    BY <1>8, AddWayResult DEF RoadsInv, SameNodes
  <2>2. IsGraph(roads') /\ DOMAIN roads' = DOMAIN roads /\ \A id \in DOMAIN roads :
            roads'[id].pos = roads[id].pos /\ roads'[id].osm_id = roads[id].osm_id
    BY <1>8, WayOfRoads DEF SameNodes
  <2> QED  BY <1>1, <2>1, <2>2
<1>9. ASSUME NEW r \in Read("relation"), AddRelation(r), roads' = roads
      PROVE  /\ IsGraph(roads')
             /\ DOMAIN roads' = {id \in DOMAIN graph' : id < MAX_NODE_ID}
             /\ \A id \in DOMAIN roads' :
                   roads'[id].pos = graph'[id].pos /\ graph'[id].osm_id = id /\ roads'[id].osm_id = id
  <2> DEFINE change == Change(r)
             clones == DOMAIN change.new_nodes
  <2>1. /\ IsChanged(graph, change, graph')
        /\ clones \subseteq phantom_node_id_counter + 1 .. phantom_node_id_counter'
        /\ phantom_node_id_counter' \in Nat
    BY <1>9, AddRelationResult DEF RoadsInv
  <2> HIDE DEF change
  <2>2. \A id \in clones : ~ (id < MAX_NODE_ID)
    <3>1. phantom_node_id_counter \in Nat /\ phantom_node_id_counter >= MAX_NODE_ID /\ MAX_NODE_ID \in Nat
      BY MaxNodeIdAssumption DEF RoadsInv, TypeInv
    <3>2. \A id \in clones : id \in Int /\ id >= phantom_node_id_counter + 1
      BY <2>1, <3>1
    <3> QED  BY <3>1, <3>2
  <2>3. /\ DOMAIN graph' = DOMAIN graph \cup clones
        /\ \A id \in DOMAIN graph : graph'[id].osm_id = graph[id].osm_id /\ graph'[id].pos = graph[id].pos
    BY <2>1 DEF IsChanged
  <2> QED  BY <1>1, <1>9, <2>2, <2>3
<1>10. \/ RDelete \/ RCleanup
       \/ \E n \in Read("node") : AddNode(n) /\ roads' = SetNode(roads, n.id, n.id, n.pos)
       \/ \E w \in Read("way") : AddWay(w) /\ roads' = CreateEdges(roads, w)
       \/ \E r \in Read("relation") : AddRelation(r) /\ roads' = roads
       \/ graph' = graph /\ roads' = roads
  BY DEF RNext, RLoad, Load, RNode, RWay, RRelation, RFail, Fail, IgnoreNode, IgnoreWay, IgnoreRelation,
         Done, history, rvars, vars, reader, builder
<1> QED  BY <1>3, <1>5, <1>6, <1>7, <1>8, <1>9, <1>10

LEMMA RoadsInit == RInit => RoadsInv
<1> SUFFICES ASSUME RInit
             PROVE  RoadsInv
  OBVIOUS
<1>1. TypeInv
  BY TypeInit DEF RInit
<1>2. graph = EmptyGraph /\ roads = EmptyGraph
  BY DEF RInit, Init
<1>3. IsGraph(roads) /\ DOMAIN roads = {} /\ DOMAIN graph = {}
  BY <1>2 DEF EmptyGraph, IsGraph
<1> QED  BY <1>1, <1>3 DEF RoadsInv

---------------------------------------------------------------------------
(* Only failed loads leave orphans *)

\* A node that is an end of some edge.
OnRoad(g, x) == \E id \in DOMAIN g : \E e \in EdgesOf(g, id) : x = id \/ x = e.to

\* What makes OnlyFailuresLeaveOrphans inductive: in a load, the nodes that are
\* on no way yet are unused, and no unused node is on one.
OrphansInv ==
    /\ RoadsInv
    /\ NoEdgeDangles(roads)
    /\ pc = "loading" => \A x \in unused_nodes : ~ OnRoad(roads, x)
    /\ \A x \in DOMAIN roads \ abandoned : OnRoad(roads, x) \/ (pc = "loading" /\ x \in unused_nodes)

\* No node of the roads is deleted; clones may be.
RoadsAreKept == Delete => Head(session).id \notin DOMAIN roads

LEMMA DeletedClone ==
    ASSUME IsGraph(roads), RDelete, RoadsAreKept
    PROVE  roads' = roads /\ pc = "idle" /\ pc' = "idle" /\ abandoned' = abandoned
<1>1. roads' = [id \in DOMAIN roads \ {Head(session).id} |-> roads[id]] /\ Delete
  BY DEF RDelete, DeleteNode
<1>2. DOMAIN roads \ {Head(session).id} = DOMAIN roads
  BY <1>1 DEF RoadsAreKept
<1>3. roads = [id \in DOMAIN roads |-> roads[id]]
  BY DEF IsGraph
<1> QED  BY <1>1, <1>2, <1>3 DEF RDelete, Delete, Do

LEMMA SomeDirection ==
    ASSUME NEW p, NEW ts
    PROVE  WayDirection(p, ts).forward \/ WayDirection(p, ts).backward
<1> DEFINE oneway == MostSpecific(ts, OnewayKeys(p, ts), "")
<1>1. CASE oneway \in {"yes", "true", "1"}
  BY <1>1 DEF WayDirection
<1>2. CASE oneway \notin {"yes", "true", "1"} /\ oneway \in {"-1", "reverse"}
  BY <1>2 DEF WayDirection
<1>3. CASE oneway \notin {"yes", "true", "1"} /\ oneway \notin {"-1", "reverse"}
  BY <1>3 DEF WayDirection
<1> QED  BY <1>1, <1>2, <1>3

\* Each node of a way is at an end of one of its links, and only those are.
LEMMA LinksUseWay ==
    ASSUME NEW g, NEW w, NEW S, WayNodes(g, w) \in Seq(S), Len(WayNodes(g, w)) >= 2
    PROVE  /\ \A a, b : Links(g, w, a, b) => a \in ToSet(WayNodes(g, w)) /\ b \in ToSet(WayNodes(g, w))
           /\ \A x \in ToSet(WayNodes(g, w)) : \E a, b : Links(g, w, a, b) /\ (x = a \/ x = b)
<1> DEFINE nodes == WayNodes(g, w)
           way == WayDirection(profile, w.tags)
<1>1. Len(nodes) \in Nat /\ DOMAIN nodes = 1 .. Len(nodes) /\ Len(nodes) >= 2
  OBVIOUS
<1>2. ToSet(nodes) = {nodes[i] : i \in DOMAIN nodes}
  BY DEF ToSet
<1>3. way.forward \/ way.backward
  BY SomeDirection
<1>4. \A i, a, b : LinksAt(g, w, i, a, b) <=>
          (way.forward /\ a = nodes[i] /\ b = nodes[i + 1]) \/ (way.backward /\ a = nodes[i + 1] /\ b = nodes[i])
  BY DEF LinksAt
<1>5. \A a, b : Links(g, w, a, b) <=> \E i \in 1 .. Len(nodes) - 1 : LinksAt(g, w, i, a, b)
  BY DEF Links
<1> HIDE DEF nodes, way
<1>6. ASSUME NEW a, NEW b, Links(g, w, a, b)
      PROVE  a \in ToSet(nodes) /\ b \in ToSet(nodes)
  <2>1. PICK i \in 1 .. Len(nodes) - 1 : LinksAt(g, w, i, a, b)
    BY <1>5, <1>6
  <2>2. i \in DOMAIN nodes /\ i + 1 \in DOMAIN nodes
    BY <1>1
  <2> QED  BY <1>2, <1>4, <2>1, <2>2
<1>7. ASSUME NEW x \in ToSet(nodes)
      PROVE  \E a, b : Links(g, w, a, b) /\ (x = a \/ x = b)
  <2>1. PICK i \in DOMAIN nodes : x = nodes[i]
    BY <1>2
  <2>2. PICK j \in 1 .. Len(nodes) - 1 : x = nodes[j] \/ x = nodes[j + 1]
    <3>1. CASE i = 1
      BY <1>1, <2>1, <3>1
    <3>2. CASE i # 1
      <4>1. i - 1 \in 1 .. Len(nodes) - 1 /\ (i - 1) + 1 = i
        BY <1>1, <3>2
      <4> QED  BY <2>1, <4>1
    <3> QED  BY <3>1, <3>2
  <2>3. LinksAt(g, w, j, nodes[j], nodes[j + 1]) \/ LinksAt(g, w, j, nodes[j + 1], nodes[j])
    BY <1>3, <1>4
  <2> QED  BY <1>5, <2>2, <2>3
<1> QED  BY <1>6, <1>7 DEF nodes

LEMMA OrphansNext ==
    ASSUME WaysNameOsmNodes, OrphansInv, [RNext]_rvars, RoadsAreKept \/ UNCHANGED rvars
    PROVE  OrphansInv'
<1>1. RoadsInv /\ IsGraph(roads) /\ NoEdgeDangles(roads)
  BY DEF OrphansInv, RoadsInv
<1>2. RoadsInv'
  BY <1>1, RoadsNext
<1>3. pc = "loading" => \A x \in unused_nodes : ~ OnRoad(roads, x)
  BY DEF OrphansInv
<1>4. \A x \in DOMAIN roads \ abandoned : OnRoad(roads, x) \/ (pc = "loading" /\ x \in unused_nodes)
  BY DEF OrphansInv
<1> DEFINE Kept1 == /\ NoEdgeDangles(roads')
                    /\ pc' = "loading" => \A x \in unused_nodes' : ~ OnRoad(roads', x)
                    /\ \A x \in DOMAIN roads' \ abandoned' :
                          OnRoad(roads', x) \/ (pc' = "loading" /\ x \in unused_nodes')
<1> SUFFICES Kept1
  BY <1>2 DEF OrphansInv, OnRoad, NoEdgeDangles, EdgesOf, ToSet
<1>5. CASE RLoad
  <2>1. pc = "idle" /\ pc' = "loading" /\ unused_nodes' = {} /\ roads' = roads /\ abandoned' = abandoned
    BY <1>5 DEF RLoad, Load, Do
  <2> QED  BY <1>1, <1>4, <2>1
<1>6. CASE RFail
  <2>1. /\ pc = "loading" /\ pc' = "idle" /\ roads' = roads
        /\ abandoned' = abandoned \cup unused_nodes
    BY <1>6 DEF RFail, Fail
  <2> QED  BY <1>1, <1>4, <2>1
<1>7. CASE RCleanup
  <2> DEFINE S == DOMAIN roads \ unused_nodes
  <2>1. /\ pc = "loading" /\ pc' = "idle" /\ abandoned' = abandoned
        /\ roads' = [id \in S |-> roads[id]]
    BY <1>7 DEF RCleanup, Cleanup
  <2>2. DOMAIN roads' = S /\ \A id \in S : EdgesOf(roads', id) = EdgesOf(roads, id)
    BY <2>1 DEF EdgesOf
  <2>3. \A id \in DOMAIN roads : \A e \in EdgesOf(roads, id) : id \in S /\ e.to \in S
    BY <1>1, <1>3, <2>1 DEF OnRoad, NoEdgeDangles
  <2>4. NoEdgeDangles(roads')
    BY <2>2, <2>3 DEF NoEdgeDangles
  <2>5. \A x \in S : OnRoad(roads, x) => OnRoad(roads', x)
    BY <2>2, <2>3 DEF OnRoad
  <2> QED  BY <1>4, <2>1, <2>2, <2>4, <2>5
<1>8. ASSUME NEW n \in Read("node"), AddNode(n), roads' = SetNode(roads, n.id, n.id, n.pos),
             abandoned' = abandoned
      PROVE  Kept1
  <2>1. /\ n.id \notin DOMAIN roads /\ DOMAIN roads' = DOMAIN roads \cup {n.id}
        /\ \A id \in DOMAIN roads : EdgesOf(roads', id) = EdgesOf(roads, id)
        /\ EdgesOf(roads', n.id) = {}
    BY <1>1, <1>8, NodeOfRoads
  <2>2. pc = "loading" /\ pc' = "loading" /\ unused_nodes' = unused_nodes \cup {n.id}
    BY <1>1, <1>8, AddNodeResult DEF AddNode, NextFeature, reader, RoadsInv
  <2>3. NoEdgeDangles(roads')
    BY <1>1, <2>1 DEF NoEdgeDangles
  <2>4. \A x : OnRoad(roads', x) <=> OnRoad(roads, x)
    BY <2>1 DEF OnRoad
  <2>5. ~ OnRoad(roads, n.id)
    BY <1>1, <2>1 DEF OnRoad, NoEdgeDangles
  <2> QED  BY <1>3, <1>4, <1>8, <2>1, <2>2, <2>3, <2>4, <2>5
<1>9. ASSUME NEW w \in Read("way"), AddWay(w), roads' = CreateEdges(roads, w), abandoned' = abandoned
      PROVE  Kept1
  <2> DEFINE nodes == WayNodes(roads, w)
  <2>1. /\ w.nodes \in Seq(Int) /\ Routable(roads, w) /\ nodes = WayNodes(graph, w)
        /\ nodes \in Seq(DOMAIN roads) /\ DOMAIN roads' = DOMAIN roads
    BY <1>1, <1>9, WayOfRoads
  <2>2. pc = "loading" /\ pc' = "loading" /\ unused_nodes' = unused_nodes \ ToSet(nodes)
    BY <1>1, <1>9, <2>1, AddWayResult DEF AddWay, Used, NextFeature, reader, RoadsInv
  <2>3. ToSet(nodes) \subseteq DOMAIN roads
    BY <2>1 DEF ToSet
  <2>4. Len(nodes) >= 2
    BY <2>1 DEF Routable
  <2>5. /\ \A a, b : Links(roads, w, a, b) => a \in ToSet(nodes) /\ b \in ToSet(nodes)
        /\ \A x \in ToSet(nodes) : \E a, b : Links(roads, w, a, b) /\ (x = a \/ x = b)
    BY <2>1, <2>4, LinksUseWay
  <2>6. /\ \A id \in DOMAIN roads : \A e \in EdgesOf(roads', id) :
              e \in EdgesOf(roads, id) \/ Links(roads, w, id, e.to)
        /\ \A id \in DOMAIN roads : \A e \in EdgesOf(roads, id) :
              e \in EdgesOf(roads', id) \/ Links(roads, w, id, e.to)
        /\ \A a, b : Links(roads, w, a, b) => a \in DOMAIN roads /\ Link(roads, w, a, b) \in EdgesOf(roads', a)
    BY <1>1, <1>9, <2>1, CreateEdgesLinks
  <2> HIDE DEF nodes
  <2>7. \A a, b : Link(roads, w, a, b).to = b
    BY DEF Link
  <2>8. NoEdgeDangles(roads')
    BY <1>1, <2>1, <2>3, <2>5, <2>6 DEF NoEdgeDangles
  <2>9. ASSUME NEW x \in unused_nodes'
        PROVE  ~ OnRoad(roads', x)
    <3>1. x \notin ToSet(nodes) /\ ~ OnRoad(roads, x)
      BY <1>3, <2>2
    <3> QED  BY <2>1, <2>5, <2>6, <3>1 DEF OnRoad
  <2>10. \A a, b : Links(roads, w, a, b) => OnRoad(roads', a) /\ OnRoad(roads', b)
    BY <2>1, <2>6, <2>7 DEF OnRoad
  <2>11. \A x : OnRoad(roads, x) => OnRoad(roads', x)
    BY <2>1, <2>6, <2>10 DEF OnRoad
  <2>12. \A x \in ToSet(nodes) : OnRoad(roads', x)
    BY <2>5, <2>10
  <2> QED  BY <1>4, <1>9, <2>1, <2>2, <2>8, <2>9, <2>11, <2>12
<1>10. CASE /\ roads' = roads /\ abandoned' = abandoned /\ unused_nodes' = unused_nodes
            /\ pc' = pc
  BY <1>1, <1>3, <1>4, <1>10
<1>11. \/ RLoad \/ RCleanup \/ RFail
       \/ \E n \in Read("node") : /\ AddNode(n) /\ roads' = SetNode(roads, n.id, n.id, n.pos)
                                  /\ abandoned' = abandoned
       \/ \E w \in Read("way") : /\ AddWay(w) /\ roads' = CreateEdges(roads, w)
                                 /\ abandoned' = abandoned
       \/ roads' = roads /\ abandoned' = abandoned /\ unused_nodes' = unused_nodes /\ pc' = pc
  <2>1. RDelete /\ RoadsAreKept =>
            roads' = roads /\ abandoned' = abandoned /\ unused_nodes' = unused_nodes /\ pc' = pc
    BY <1>1, DeletedClone DEF RDelete, Delete, builder
  <2>2. UNCHANGED rvars =>
            roads' = roads /\ abandoned' = abandoned /\ unused_nodes' = unused_nodes /\ pc' = pc
    BY DEF rvars, history, vars, reader, builder
  <2>3. CASE RNext /\ RoadsAreKept
    BY <2>1, <2>3 DEF RNext, RNode, RWay, RRelation, AddRelation, IgnoreNode, IgnoreWay,
              IgnoreRelation, NextFeature, Done, history, vars, reader, builder
  <2> QED  BY <2>2, <2>3
<1> QED  BY <1>5, <1>6, <1>7, <1>8, <1>9, <1>10, <1>11

LEMMA OrphansInvImplies == OrphansInv => OnlyFailuresLeaveOrphans
<1> SUFFICES ASSUME OrphansInv, pc = "idle", NEW id \in DOMAIN roads \ abandoned
             PROVE  /\ HasNode(graph, id)
                    /\ \E other \in DOMAIN roads : HasEdge(roads, id, other) \/ HasEdge(roads, other, id)
  BY DEF OnlyFailuresLeaveOrphans
<1>1. IsGraph(roads) /\ id \in DOMAIN graph
  BY DEF OrphansInv, RoadsInv
<1>2. PICK a \in DOMAIN roads : \E e \in EdgesOf(roads, a) : id = a \/ id = e.to
  BY DEF OrphansInv, OnRoad
<1>3. PICK e \in EdgesOf(roads, a) : id = a \/ id = e.to
  BY <1>2
<1>4. e.to \in DOMAIN roads /\ HasEdge(roads, a, e.to)
  BY <1>1, HasEdgeMeans DEF OrphansInv, NoEdgeDangles
<1> QED  BY <1>1, <1>3, <1>4 DEF HasNode

LEMMA OrphansInvariant ==
    ASSUME WaysNameOsmNodes
    PROVE  RSpec /\ [][RoadsAreKept]_rvars => []OrphansInv
<1>1. RInit => OrphansInv
  <2>1. RInit => roads = EmptyGraph /\ pc = "idle"
    BY DEF RInit, Init
  <2> QED  BY <2>1, RoadsInit DEF OrphansInv, EmptyGraph, NoEdgeDangles
<1>2. OrphansInv /\ [RNext]_rvars /\ [RoadsAreKept]_rvars => OrphansInv'
  BY OrphansNext
<1> QED  BY <1>1, <1>2, PTL DEF RSpec

\* Between loads every node is on a way, but for those that failed loads left:
\* the cleanup takes all the others that are not, and no restriction, failure or
\* further load undoes that.  Deleting the end of a one-way road may.
THEOREM OnlyFailedLoadsLeaveOrphans ==
    ASSUME WaysNameOsmNodes
    PROVE  RSpec /\ [][RoadsAreKept]_rvars => []OnlyFailuresLeaveOrphans
<1>1. OrphansInv => OnlyFailuresLeaveOrphans
  BY OrphansInvImplies
<1> QED  BY <1>1, OrphansInvariant, PTL

---------------------------------------------------------------------------
(* Edges cost what their roads cost *)

\* What makes CostsAreThoseOfRoads inductive: an edge is one of the roads, but
\* for its ends, which may be clones.
StandForRoads ==
    \A id \in DOMAIN graph :
        /\ graph[id].osm_id \in DOMAIN roads
        /\ \A e \in EdgesOf(graph, id) :
              e.to \in DOMAIN graph =>
                  [to |-> graph[e.to].osm_id, cost |-> e.cost] \in EdgesOf(roads, graph[id].osm_id)

\* No way makes a road dearer or cheaper that has a clone at one of its ends.
RoadsKeepCosts ==
    \A from, to \in DOMAIN roads :
        ~ (HasNoClone(graph, from) /\ HasNoClone(graph, to)) /\ HasEdge(roads, from, to) /\ HasEdge(roads', from, to)
            => GetEdge(roads', from, to) = GetEdge(roads, from, to)

CostsInv == ClonesInv /\ OrphansInv /\ StandForRoads

LEMMA StandForRoadsNext ==
    ASSUME WaysNameOsmNodes, CostsInv, [RNext]_rvars,
           (RoadsAreKept /\ RoadsKeepCosts) \/ UNCHANGED rvars
    PROVE  StandForRoads'
<1>1. /\ RoadsInv /\ IsGraph(graph) /\ IsGraph(roads) /\ NoEdgeDangles(roads)
      /\ \A id \in DOMAIN roads : roads[id].pos = graph[id].pos /\ graph[id].osm_id = id
  BY DEF CostsInv, OrphansInv, RoadsInv, TypeInv
<1>2. \A id \in DOMAIN graph :
          /\ graph[id].osm_id \in DOMAIN roads
          /\ \A e \in EdgesOf(graph, id) :
                e.to \in DOMAIN graph =>
                    [to |-> graph[e.to].osm_id, cost |-> e.cost] \in EdgesOf(roads, graph[id].osm_id)
  BY DEF CostsInv, StandForRoads
<1>3. pc = "loading" =>
          NoEdgeDangles(graph) /\ \A x \in unused_nodes : HasNoClone(graph, x) /\ NoEdgeTo(graph, x)
  BY DEF CostsInv, ClonesInv, EdgesInv
<1> DEFINE Stand == \A id \in DOMAIN graph' :
                        /\ graph'[id].osm_id \in DOMAIN roads'
                        /\ \A e \in EdgesOf(graph', id) :
                              e.to \in DOMAIN graph' =>
                                  [to |-> graph'[e.to].osm_id, cost |-> e.cost]
                                      \in EdgesOf(roads', graph'[id].osm_id)
<1> SUFFICES Stand
  BY DEF StandForRoads, EdgesOf, ToSet
<1>4. CASE RCleanup
  <2>1. /\ pc = "loading"
        /\ graph' = [id \in DOMAIN graph \ unused_nodes |-> graph[id]]
        /\ roads' = [id \in DOMAIN roads \ unused_nodes |-> roads[id]]
    BY <1>4 DEF RCleanup, Cleanup
  <2>2. ASSUME NEW id \in DOMAIN graph'
        PROVE  /\ graph'[id].osm_id \in DOMAIN roads'
               /\ \A e \in EdgesOf(graph', id) :
                     e.to \in DOMAIN graph' =>
                         [to |-> graph'[e.to].osm_id, cost |-> e.cost]
                             \in EdgesOf(roads', graph'[id].osm_id)
    <3>1. id \in DOMAIN graph /\ id \notin unused_nodes /\ graph'[id] = graph[id]
      BY <2>1, <2>2
    <3>2. graph[id].osm_id \notin unused_nodes
      BY <1>3, <2>1, <3>1 DEF HasNoClone, OsmId
    <3>3. graph[id].osm_id \in DOMAIN roads' /\ roads'[graph[id].osm_id] = roads[graph[id].osm_id]
      BY <1>2, <2>1, <3>1, <3>2
    <3>4. \A to \in DOMAIN graph' : to \in DOMAIN graph /\ graph'[to] = graph[to]
      BY <2>1
    <3> QED  BY <1>2, <3>1, <3>3, <3>4 DEF EdgesOf
  <2> QED  BY <2>2
<1>5. ASSUME NEW n \in Read("node"), AddNode(n), roads' = SetNode(roads, n.id, n.id, n.pos)
      PROVE  Stand
  <2>1. /\ DOMAIN roads' = DOMAIN roads \cup {n.id}
        /\ \A id \in DOMAIN roads : EdgesOf(roads', id) = EdgesOf(roads, id)
    BY <1>1, <1>5, NodeOfRoads
  <2>2. /\ DOMAIN graph' = DOMAIN graph \cup {n.id}
        /\ \A id \in DOMAIN graph : graph'[id] = graph[id]
        /\ graph'[n.id].osm_id = n.id /\ EdgesOf(graph', n.id) = {} /\ pc = "loading"
    BY <1>1, <1>5, AddNodeResult DEF RoadsInv
  <2>3. \A id \in DOMAIN graph :
            /\ EdgesOf(graph', id) = EdgesOf(graph, id)
            /\ \A e \in EdgesOf(graph, id) : e.to \in DOMAIN graph
    BY <1>3, <2>2 DEF EdgesOf, NoEdgeDangles
  <2> QED  BY <1>2, <2>1, <2>2, <2>3
<1>6. ASSUME NEW w \in Read("way"), AddWay(w), roads' = CreateEdges(roads, w), RoadsKeepCosts
      PROVE  Stand
  <2>1. /\ w.nodes \in Seq(Int) /\ Routable(graph, w) /\ Routable(roads, w)
        /\ graph' = CreateEdges(graph, w) /\ IsGraph(roads') /\ DOMAIN roads' = DOMAIN roads
    BY <1>1, <1>6, WayOfRoads
  <2>2. /\ \A a, b : Links(roads, w, a, b) <=> Links(graph, w, a, b)
        /\ \A a, b : Links(roads, w, a, b) =>
              a \in DOMAIN roads /\ b \in DOMAIN roads /\ Link(roads, w, a, b) = Link(graph, w, a, b)
    BY <1>1, <1>6, WayOfRoads
  <2>3. \A id \in DOMAIN graph : \A e \in EdgesOf(graph', id) :
            e \in EdgesOf(graph, id) \/ (Links(graph, w, id, e.to) /\ e = Link(graph, w, id, e.to))
    BY <1>1, <2>1, CreateEdgesLinks
  <2>4. /\ \A id \in DOMAIN roads : \A e \in EdgesOf(roads, id) :
              e \in EdgesOf(roads', id) \/ Links(roads, w, id, e.to)
        /\ \A a, b : Links(roads, w, a, b) => a \in DOMAIN roads /\ Link(roads, w, a, b) \in EdgesOf(roads', a)
    BY <1>1, <1>6, <2>1, CreateEdgesLinks
  <2>5. /\ DOMAIN graph' = DOMAIN graph
        /\ \A id \in DOMAIN graph : graph'[id].osm_id = graph[id].osm_id
    BY <1>1, <1>6, AddWayResult DEF RoadsInv, SameNodes
  <2>6. \A a, b : Link(roads, w, a, b).to = b
    BY DEF Link
\* An edge of the roads with a clone at its ends is there as it was, or made again
\* at the same cost.
  <2>7. ASSUME NEW a \in DOMAIN roads, NEW r \in EdgesOf(roads, a), r.to \in DOMAIN roads,
               ~ (HasNoClone(graph, a) /\ HasNoClone(graph, r.to))
        PROVE  r \in EdgesOf(roads', a)
    <3>1. SUFFICES ASSUME Links(roads, w, a, r.to)
                   PROVE  r \in EdgesOf(roads', a)
      BY <2>4
    <3> DEFINE link == Link(roads, w, a, r.to)
    <3>2. link \in EdgesOf(roads', a) /\ link.to = r.to
      BY <2>2, <2>4, <2>6, <3>1
    <3>3. HasEdge(roads, a, r.to) /\ GetEdge(roads, a, r.to) = r.cost
      BY <1>1, GetEdgeMeans
    <3>4. HasEdge(roads', a, link.to) /\ GetEdge(roads', a, link.to) = link.cost
      BY <2>1, <3>2, GetEdgeMeans
    <3>5. link.cost = r.cost
      BY <1>6, <2>7, <3>2, <3>3, <3>4 DEF RoadsKeepCosts
    <3>6. r \in Edge /\ link \in Edge
      BY <1>1, <2>1, <3>2, EdgesOfGraph
    <3> HIDE DEF link
    <3>7. r = link
      BY <3>2, <3>5, <3>6 DEF Edge
    <3> QED  BY <3>2, <3>7
\* An edge that the way made again is the one that it made.
  <2>8. ASSUME NEW id \in DOMAIN graph, NEW e \in EdgesOf(graph', id), Links(roads, w, id, e.to)
        PROVE  e = Link(graph, w, id, e.to)
    <3> DEFINE link == Link(graph, w, id, e.to)
    <3>1. link \in EdgesOf(graph', id) /\ link.to = e.to
      BY <1>1, <2>1, <2>2, <2>8, CreateEdgesLinks DEF Link
    <3>2. IsGraph(graph') /\ id \in DOMAIN graph'
      BY <1>1, <1>6, <2>5, AddWayResult DEF RoadsInv
    <3> HIDE DEF link
    <3>3. link = e
      BY <3>1, <3>2, EdgesOfGraph DEF EdgesOf, EdgeLists, OneEdgePerTarget, ToSet
    <3> QED  BY <3>3 DEF link
  <2>9. ASSUME NEW id \in DOMAIN graph', NEW e \in EdgesOf(graph', id), e.to \in DOMAIN graph'
        PROVE  [to |-> graph'[e.to].osm_id, cost |-> e.cost] \in EdgesOf(roads', graph'[id].osm_id)
    <3>1. id \in DOMAIN graph
      BY <2>5
    <3>2. CASE Links(graph, w, id, e.to) /\ e = Link(graph, w, id, e.to)
      <4>1. /\ id \in DOMAIN roads /\ e.to \in DOMAIN roads /\ e = Link(roads, w, id, e.to)
            /\ e \in EdgesOf(roads', id)
        BY <2>2, <2>4, <3>2
      <4>2. e.to \in DOMAIN graph /\ graph'[id].osm_id = id /\ graph'[e.to].osm_id = e.to
        BY <1>1, <2>5, <4>1 DEF RoadsInv
      <4>3. e \in Edge
        BY <2>1, <4>1, EdgesOfGraph
      <4>4. [to |-> e.to, cost |-> e.cost] = e
        BY <4>3 DEF Edge
      <4> QED  BY <2>1, <4>1, <4>2, <4>4
    <3>3. CASE e \in EdgesOf(graph, id) /\ ~ Links(graph, w, id, e.to)
      <4> DEFINE from == graph[id].osm_id
                 to == graph[e.to].osm_id
                 road == [to |-> to, cost |-> e.cost]
      <4>1. e.to \in DOMAIN graph /\ from \in DOMAIN roads /\ road \in EdgesOf(roads, from)
        BY <1>2, <2>5, <2>9, <3>1, <3>3
      <4>2. to \in DOMAIN roads /\ road.to = to
        BY <1>2, <4>1
      <4>3. road \in EdgesOf(roads', from)
        <5>1. CASE HasNoClone(graph, from) /\ HasNoClone(graph, to)
          <6>1. from = id /\ to = e.to
            BY <3>1, <4>1, <5>1 DEF HasNoClone, OsmId
          <6>2. ~ Links(roads, w, from, road.to)
            BY <2>2, <3>3, <4>2, <6>1
          <6> HIDE DEF from, road
          <6> QED  BY <2>4, <4>1, <6>2
        <5>2. CASE ~ (HasNoClone(graph, from) /\ HasNoClone(graph, to))
          <6> HIDE DEF from, to, road
          <6> QED  BY <2>7, <4>1, <4>2, <5>2
        <5> QED  BY <5>1, <5>2
      <4> QED  BY <2>5, <3>1, <4>1, <4>3
    <3>4. e \in EdgesOf(graph, id) \/ (Links(graph, w, id, e.to) /\ e = Link(graph, w, id, e.to))
      BY <2>3, <3>1
    <3> QED  BY <2>2, <2>8, <3>1, <3>2, <3>3, <3>4
  <2> QED  BY <1>2, <2>1, <2>5, <2>9
<1>7. ASSUME NEW r \in Read("relation"), AddRelation(r), roads' = roads
      PROVE  Stand
  <2> DEFINE change == Change(r)
  <2>1. IsChanged(graph, change, graph') /\ NoEdgeDangles(graph)
    BY <1>1, <1>3, <1>7, AddRelationResult DEF RoadsInv
  <2> HIDE DEF change
  <2>2. ASSUME NEW id \in DOMAIN graph'
        PROVE  /\ graph'[id].osm_id \in DOMAIN roads
               /\ \A e \in EdgesOf(graph', id) :
                     [to |-> graph'[e.to].osm_id, cost |-> e.cost] \in EdgesOf(roads, graph'[id].osm_id)
    <3> DEFINE original == Original(change, id)
    <3>1. /\ original \in DOMAIN graph /\ graph'[id].osm_id = graph[original].osm_id
          /\ \A e \in EdgesOf(graph', id) :
                \/ e \in EdgesOf(graph, original)
                \/ /\ e.to \in DOMAIN change.new_nodes
                   /\ [to |-> change.new_nodes[e.to], cost |-> e.cost] \in EdgesOf(graph, original)
      BY <2>1, <2>2 DEF IsChanged
    <3> HIDE DEF original
    <3>2. ASSUME NEW e \in EdgesOf(graph', id), e \in EdgesOf(graph, original)
          PROVE  [to |-> graph'[e.to].osm_id, cost |-> e.cost] \in EdgesOf(roads, graph'[id].osm_id)
      <4>1. e.to \in DOMAIN graph
        BY <2>1, <3>1, <3>2 DEF NoEdgeDangles
      <4>2. graph'[e.to].osm_id = graph[e.to].osm_id
        BY <2>1, <4>1 DEF IsChanged
      <4> QED  BY <1>2, <3>1, <3>2, <4>1, <4>2
    <3>3. ASSUME NEW e \in EdgesOf(graph', id), e.to \in DOMAIN change.new_nodes,
                 [to |-> change.new_nodes[e.to], cost |-> e.cost] \in EdgesOf(graph, original)
          PROVE  [to |-> graph'[e.to].osm_id, cost |-> e.cost] \in EdgesOf(roads, graph'[id].osm_id)
      <4>1. e.to \in DOMAIN graph' /\ Original(change, e.to) = change.new_nodes[e.to]
        BY <2>1, <3>3 DEF IsChanged, Original
      <4>2. /\ graph'[e.to].osm_id = graph[change.new_nodes[e.to]].osm_id
            /\ change.new_nodes[e.to] \in DOMAIN graph
        BY <2>1, <4>1 DEF IsChanged
      <4> QED  BY <1>2, <3>1, <3>3, <4>2
    <3> QED  BY <1>2, <3>1, <3>2, <3>3
  <2> QED  BY <1>7, <2>2
<1>8. ASSUME RDelete, RoadsAreKept
      PROVE  Stand
  <2>1. roads' = roads /\ graph' = [id \in DOMAIN graph \ {Head(session).id} |-> graph[id]]
    BY <1>1, <1>8, DeletedClone DEF RDelete, Delete, DeleteNode
  <2> QED  BY <1>2, <2>1 DEF EdgesOf
<1>9. CASE graph' = graph /\ roads' = roads
  BY <1>2, <1>9
<1>10. CASE RNext /\ RoadsAreKept /\ RoadsKeepCosts
  <2>1. \/ RCleanup \/ RDelete
        \/ \E n \in Read("node") : AddNode(n) /\ roads' = SetNode(roads, n.id, n.id, n.pos)
        \/ \E w \in Read("way") : AddWay(w) /\ roads' = CreateEdges(roads, w)
        \/ \E r \in Read("relation") : AddRelation(r) /\ roads' = roads
        \/ graph' = graph /\ roads' = roads
    BY <1>10 DEF RNext, RLoad, Load, RNode, RWay, RRelation, RFail, Fail, IgnoreNode, IgnoreWay,
                 IgnoreRelation, NextFeature, Done, history, vars, reader, builder
  <2> QED  BY <1>4, <1>5, <1>6, <1>7, <1>8, <1>9, <1>10, <2>1
<1>11. UNCHANGED rvars => graph' = graph /\ roads' = roads
  BY DEF rvars, vars, history
<1> QED  BY <1>9, <1>10, <1>11

LEMMA CostsNext ==
    ASSUME WaysNameOsmNodes, CostsInv, [RNext]_rvars,
           (Load => NoEdgeDangles(graph)) \/ UNCHANGED vars,
           (RoadsAreKept /\ RoadsKeepCosts) \/ UNCHANGED rvars
    PROVE  CostsInv'
<1>1. StandForRoads'
  BY StandForRoadsNext
<1>2. OrphansInv'
  BY OrphansNext DEF CostsInv
<1>3. RoadsAreKept => DeletesClonesFirst
  <2>1. \A id \in DOMAIN graph : graph[id].osm_id \in DOMAIN roads
    BY DEF CostsInv, StandForRoads
  <2> QED  BY <2>1 DEF RoadsAreKept, DeletesClonesFirst, HasNoClone, OsmId
<1>4. ClonesInv'
  <2>1. CASE UNCHANGED vars
    BY <2>1 DEF CostsInv, ClonesInv, EdgesInv, TypeInv, ClonesHaveCanonicals, vars, reader, builder
  <2>2. CASE ~ UNCHANGED vars
    <3>1. ~ UNCHANGED rvars
      BY <2>2 DEF rvars
    <3>2. [Next]_vars
      BY RNextIsNext
    <3> QED  BY <1>3, <2>2, <3>1, <3>2, ClonesNext DEF CostsInv
  <2> QED  BY <2>1, <2>2
<1> QED  BY <1>1, <1>2, <1>4 DEF CostsInv

LEMMA CostsInvImplies ==
    ASSUME CostsInv
    PROVE  CostsAreThoseOfRoads
<1> SUFFICES ASSUME NEW id \in DOMAIN graph, NEW e \in ToSet(GetEdges(graph, id)), HasNode(graph, e.to)
             PROVE  /\ HasEdge(roads, OsmId(graph, id), OsmId(graph, e.to))
                    /\ GetEdge(roads, OsmId(graph, id), OsmId(graph, e.to)) = e.cost
  BY DEF CostsAreThoseOfRoads
<1> DEFINE from == graph[id].osm_id
           road == [to |-> graph[e.to].osm_id, cost |-> e.cost]
<1>1. IsGraph(graph) /\ IsGraph(roads)
  BY DEF CostsInv, OrphansInv, RoadsInv, TypeInv
<1>2. e \in EdgesOf(graph, id) /\ e.to \in DOMAIN graph
  BY <1>1, EdgesOfGraph DEF EdgesOf, HasNode
<1>3. from \in DOMAIN roads /\ road \in EdgesOf(roads, from)
  BY <1>2 DEF CostsInv, StandForRoads
<1> HIDE DEF from
<1>4. HasEdge(roads, from, road.to) /\ GetEdge(roads, from, road.to) = road.cost
  BY <1>1, <1>3, GetEdgeMeans
<1> QED  BY <1>4 DEF OsmId, from

LEMMA CostsInit == RInit => CostsInv
<1>1. RInit => StandForRoads
  BY DEF RInit, Init, EmptyGraph, StandForRoads
<1>2. RInit => roads = EmptyGraph /\ pc = "idle"
  BY DEF RInit, Init
<1>3. RInit => OrphansInv
  BY <1>2, RoadsInit DEF OrphansInv, EmptyGraph, NoEdgeDangles
<1>4. RInit => ClonesInv
  BY TypeInit DEF RInit, Init, ClonesInv, EdgesInv, EmptyGraph, EdgesCover, ClonesHaveCanonicals
<1> QED  BY <1>1, <1>3, <1>4 DEF CostsInv

\* As long as no node of the roads is deleted, no load begins while edges dangle
\* and no way changes the cost of a road that has clones: every edge costs what the
\* road costs that it stands for, however many restrictions and loads have cloned
\* its ends, so no detour through clones is cheaper or dearer.  The edges of clones
\* keep the cost they were made with, whatever a later way says of the road.
THEOREM ClonesCostWhatRoadsCost ==
    ASSUME WaysNameOsmNodes
    PROVE  RSpec /\ [][Load => NoEdgeDangles(graph)]_vars /\ [][RoadsAreKept /\ RoadsKeepCosts]_rvars
               => []CostsAreThoseOfRoads
<1>1. RInit => CostsInv
  BY CostsInit
<1>2. CostsInv /\ [RNext]_rvars /\ [Load => NoEdgeDangles(graph)]_vars
          /\ [RoadsAreKept /\ RoadsKeepCosts]_rvars => CostsInv'
  BY CostsNext
<1>3. CostsInv => CostsAreThoseOfRoads
  BY CostsInvImplies
<1> QED  BY <1>1, <1>2, <1>3, PTL DEF RSpec

---------------------------------------------------------------------------
(* Walks as paths through nodes, clones included *)

\* The nodes of a walk, one after the other, each an edge away from the last.
IsPath(g, p) ==
    /\ p \in Seq(DOMAIN g)
    /\ \A i \in 1 .. Len(p) - 1 : \E e \in EdgesOf(g, p[i]) : e.to = p[i + 1]

\* What a traveller sees of it.
Trace(g, p) == [i \in DOMAIN p |-> g[p[i]].osm_id]

\* No path through a graph breaks a rule, wherever it starts.
Abides(g, rs) == \A p : IsPath(g, p) => Lawful(rs, Trace(g, p))

\* What the nodes and edges of h are clones of, by f, is in g.
IsImage(h, g, f) ==
    /\ f \in [DOMAIN h -> DOMAIN g]
    /\ \A id \in DOMAIN h :
          /\ h[id].osm_id = g[f[id]].osm_id
          /\ \A e \in EdgesOf(h, id) :
                e.to \in DOMAIN h => \E d \in EdgesOf(g, f[id]) : d.to = f[e.to]

LEMMA ImageOfPath ==
    ASSUME NEW g, NEW h, NEW f, IsImage(h, g, f), NEW p, IsPath(h, p)
    PROVE  LET q == [i \in DOMAIN p |-> f[p[i]]] IN
           IsPath(g, q) /\ Trace(g, q) = Trace(h, p) /\ Len(q) = Len(p) /\ DOMAIN q = DOMAIN p
<1> DEFINE q == [i \in DOMAIN p |-> f[p[i]]]
<1>1. p \in Seq(DOMAIN h) /\ DOMAIN p = 1 .. Len(p) /\ Len(p) \in Nat
  BY DEF IsPath
<1>2. \A i \in DOMAIN p : p[i] \in DOMAIN h
  BY <1>1
<1>3. q \in Seq(DOMAIN g) /\ Len(q) = Len(p) /\ DOMAIN q = DOMAIN p
  BY <1>1, <1>2 DEF IsImage
<1>4. ASSUME NEW i \in 1 .. Len(q) - 1
      PROVE  \E e \in EdgesOf(g, q[i]) : e.to = q[i + 1]
  <2>1. i \in DOMAIN p /\ i + 1 \in DOMAIN p /\ i \in 1 .. Len(p) - 1
    BY <1>1, <1>3
  <2>2. PICK e \in EdgesOf(h, p[i]) : e.to = p[i + 1]
    BY <2>1 DEF IsPath
  <2>3. q[i] = f[p[i]] /\ q[i + 1] = f[e.to] /\ e.to \in DOMAIN h /\ p[i] \in DOMAIN h
    BY <1>2, <2>1, <2>2
  <2> HIDE DEF q
  <2> QED  BY <2>2, <2>3 DEF IsImage
<1>5. \A i \in DOMAIN p : q[i] = f[p[i]]
  OBVIOUS
<1> HIDE DEF q
<1>6. Trace(g, q) = Trace(h, p)
  BY <1>2, <1>3, <1>5 DEF Trace, IsImage
<1> QED  BY <1>3, <1>4, <1>6 DEF IsPath, q

LEMMA ImageAbides ==
    ASSUME NEW g, NEW h, NEW f, IsImage(h, g, f), NEW rs, Abides(g, rs)
    PROVE  Abides(h, rs)
<1> SUFFICES ASSUME NEW p, IsPath(h, p)
             PROVE  Lawful(rs, Trace(h, p))
  BY DEF Abides
<1> DEFINE q == [i \in DOMAIN p |-> f[p[i]]]
<1>1. IsPath(g, q) /\ Trace(g, q) = Trace(h, p)
  BY ImageOfPath
<1> HIDE DEF q
<1> QED  BY <1>1 DEF Abides

\* A part of a graph is an image of it.
LEMMA PartIsImage ==
    ASSUME NEW g, NEW S, S \subseteq DOMAIN g
    PROVE  IsImage([id \in S |-> g[id]], g, [id \in S |-> id])
BY DEF IsImage, EdgesOf

---------------------------------------------------------------------------
(* The walks of TurnRules are the traces of paths *)

Starts(g) == {[nodes |-> <<id>>, at |-> id] : id \in {i \in DOMAIN g : Canonical(g, i)}}

Further(g, S) ==
    UNION {{[nodes |-> Append(w.nodes, OsmId(g, e.to)), at |-> e.to] :
               e \in {f \in ToSet(GetEdges(g, w.at)) : HasNode(g, f.to)}} : w \in S}

LEMMA WalksRun ==
    ASSUME NEW g, IsGraph(g), NEW n \in Nat
    PROVE  \E run : /\ run[0] = Starts(g)
                    /\ \A k \in 1 .. n : run[k] = Further(g, run[k - 1])
                    /\ Walks(g, n) = UNION {run[k] : k \in 0 .. n}
<1> DEFINE W == [nodes : Seq(Int), at : DOMAIN g]
           D == SUBSET W
           Step(S, k) == Further(g, S)
           step == [x \in D \X (1 .. n) |-> Step(x[1], x[2])]
           IsThis(f) == f = [k \in 0 .. n |-> IF k = 0 THEN Starts(g) ELSE Step(f[k - 1], k)]
           run == CHOOSE f : IsThis(f)
<1>1. Starts(g) \in D
  <2>1. \A id \in DOMAIN g : id \in Int /\ <<id>> \in Seq(Int)
    BY DEF IsGraph
  <2>2. \A id \in DOMAIN g : [nodes |-> <<id>>, at |-> id] \in W
    BY <2>1
  <2> HIDE DEF W
  <2> QED  BY <2>2 DEF Starts
<1>2. ASSUME NEW S \in D
      PROVE  Further(g, S) \in D
  <2>1. \A w \in S : w.nodes \in Seq(Int)
    OBVIOUS
  <2>2. \A id \in DOMAIN g : g[id].osm_id \in Int
    BY EdgesOfGraph DEF Nodes
  <2>3. \A w \in S : \A id \in DOMAIN g : [nodes |-> Append(w.nodes, OsmId(g, id)), at |-> id] \in W
    BY <2>1, <2>2 DEF OsmId
  <2> SUFFICES ASSUME NEW x \in Further(g, S)
               PROVE  x \in W
    OBVIOUS
  <2>4. PICK w \in S : \E e \in ToSet(GetEdges(g, w.at)) :
            HasNode(g, e.to) /\ x = [nodes |-> Append(w.nodes, OsmId(g, e.to)), at |-> e.to]
    BY DEF Further
  <2> HIDE DEF W
  <2> QED  BY <2>3, <2>4 DEF HasNode
<1>3. \A S \in D, k \in 1 .. n : step[<<S, k>>] = Step(S, k)
  OBVIOUS
<1>4. step \in [D \X (1 .. n) -> D]
  BY <1>2
<1>5. Walks(g, n) = UNION {run[k] : k \in 0 .. n}
  BY DEF Walks, Starts, Further
<1> HIDE DEF step, Step, D
<1>6. PICK f \in [0 .. n -> D] : IsRun(f, n, Starts(g), step)
  BY <1>1, <1>4, Recursion, Zenon
<1>7. IsThis(f)
  <2>1. ASSUME NEW k \in 0 .. n, k # 0
        PROVE  f[k] = Step(f[k - 1], k)
    BY <1>3, <1>6, <2>1, k - 1 \in 0 .. n, k \in 1 .. n DEF IsRun
  <2> QED  BY <1>6, <2>1 DEF IsRun
<1>8. IsThis(run)
  BY <1>7
<1> HIDE DEF run
<1>9. run[0] = Starts(g) /\ \A k \in 1 .. n : run[k] = Step(run[k - 1], k)
  BY <1>8
<1> QED  BY <1>5, <1>9 DEF Step

\* p goes as w does, and ends where it ends.
Goes(g, p, w) ==
    /\ IsPath(g, p) /\ p # << >> /\ Canonical(g, p[1])
    /\ w.nodes = Trace(g, p) /\ w.at = p[Len(p)]

LEMMA PathFurther ==
    ASSUME NEW g, IsGraph(g), NEW p, IsPath(g, p), p # << >>, NEW to \in DOMAIN g
    PROVE  /\ Len(Append(p, to)) = Len(p) + 1 /\ Append(p, to)[Len(p) + 1] = to
           /\ \A i \in DOMAIN p : Append(p, to)[i] = p[i]
           /\ Append(p, to) # << >>
           /\ Trace(g, Append(p, to)) = Append(Trace(g, p), g[to].osm_id)
           /\ (\E e \in EdgesOf(g, p[Len(p)]) : e.to = to) => IsPath(g, Append(p, to))
<1> DEFINE q == Append(p, to)
<1>1. p \in Seq(DOMAIN g) /\ Len(p) \in Nat \ {0} /\ DOMAIN p = 1 .. Len(p)
  BY DEF IsPath
<1>2. /\ q \in Seq(DOMAIN g) /\ Len(q) = Len(p) + 1 /\ DOMAIN q = 1 .. Len(p) + 1 /\ q # << >>
      /\ q[Len(p) + 1] = to /\ \A i \in DOMAIN p : q[i] = p[i]
  BY <1>1
<1>3. ASSUME NEW e \in EdgesOf(g, p[Len(p)]), e.to = to
      PROVE  IsPath(g, q)
  <2> HIDE DEF q
  <2>0. Len(q) - 1 = Len(p)
    BY <1>1, <1>2
  <2>1. ASSUME NEW i \in 1 .. Len(p)
        PROVE  \E d \in EdgesOf(g, q[i]) : d.to = q[i + 1]
    <3>1. CASE i = Len(p)
      <4>1. q[i] = p[Len(p)] /\ q[i + 1] = to
        BY <1>1, <1>2, <3>1
      <4> QED  BY <1>3, <4>1
    <3>2. CASE i # Len(p)
      <4>0. Len(p) \in Nat
        BY <1>1
      <4>1. i \in 1 .. Len(p) - 1
        BY <3>2, <4>0
      <4>a. i + 1 \in 1 .. Len(p)
        BY <4>0, <4>1
      <4>b. i \in DOMAIN p /\ i + 1 \in DOMAIN p
        BY <1>1, <4>a
      <4>2. q[i] = p[i] /\ q[i + 1] = p[i + 1]
        BY <1>2, <4>b
      <4> QED  BY <4>1, <4>2 DEF IsPath
    <3> QED  BY <3>1, <3>2
  <2> QED  BY <1>2, <2>0, <2>1 DEF IsPath
<1> HIDE DEF q
<1>4. Trace(g, q) = Append(Trace(g, p), g[to].osm_id)
  <2> DEFINE t == [i \in 1 .. Len(p) |-> g[p[i]].osm_id]
  <2>1. \A i \in 1 .. Len(p) : g[p[i]].osm_id \in Int
    BY <1>1, EdgesOfGraph DEF Nodes
  <2>2. t \in Seq(Int) /\ Len(t) = Len(p)
    BY <1>1, <2>1
  <2>3. Trace(g, p) = t
    BY <1>1 DEF Trace
  <2>4. Append(t, g[to].osm_id) = [i \in 1 .. Len(p) + 1 |-> IF i = Len(p) + 1 THEN g[to].osm_id ELSE t[i]]
    BY <1>1, <2>2
  <2>5. Trace(g, q) = [i \in 1 .. Len(p) + 1 |-> g[q[i]].osm_id]
    BY <1>2 DEF Trace
  <2>6. \A i \in 1 .. Len(p) + 1 :
            g[q[i]].osm_id = IF i = Len(p) + 1 THEN g[to].osm_id ELSE t[i]
    BY <1>1, <1>2
  <2> HIDE DEF t
  <2> QED  BY <2>3, <2>4, <2>5, <2>6
<1> QED  BY <1>2, <1>3, <1>4 DEF q

LEMMA PathOfOne ==
    ASSUME NEW g, NEW p, IsPath(g, p), Len(p) = 1, Canonical(g, p[1])
    PROVE  Trace(g, p) = <<p[1]>>
<1>1. DOMAIN p = {1} /\ g[p[1]].osm_id = p[1]
  BY DEF IsPath, Canonical, OsmId
<1> QED  BY <1>1 DEF Trace

LEMMA PathBefore ==
    ASSUME NEW g, NEW p, IsPath(g, p), Len(p) > 1
    PROVE  \E q, e : /\ IsPath(g, q) /\ q # << >> /\ Len(q) = Len(p) - 1 /\ q[1] = p[1]
                     /\ e \in EdgesOf(g, q[Len(q)]) /\ e.to \in DOMAIN g /\ q[Len(q)] \in DOMAIN g
                     /\ p = Append(q, e.to) /\ p[Len(p)] = e.to
<1> DEFINE n == Len(p) - 1
           q == [i \in 1 .. n |-> p[i]]
<1>1. p \in Seq(DOMAIN g) /\ n \in Nat \ {0} /\ Len(p) = n + 1
  BY DEF IsPath
<1>2. q \in Seq(DOMAIN g) /\ Len(q) = n /\ \A i \in 1 .. n : q[i] = p[i]
  BY <1>1
<1> HIDE DEF q
<1>3. PICK e \in EdgesOf(g, p[n]) : e.to = p[n + 1]
  <2>1. n \in 1 .. Len(p) - 1
    BY <1>1
  <2> HIDE DEF n
  <2> QED  BY <2>1 DEF IsPath
<1>4. p[n + 1] \in DOMAIN g /\ p[n] \in DOMAIN g
  BY <1>1
<1>5. p = Append(q, p[n + 1])
  BY <1>1 DEF q
<1>6. IsPath(g, q)
  <2>1. \A i \in 1 .. Len(q) - 1 : i \in 1 .. Len(p) - 1 /\ q[i] = p[i] /\ q[i + 1] = p[i + 1]
    BY <1>1, <1>2
  <2> QED  BY <1>2, <2>1 DEF IsPath
<1>7. q # << >> /\ q[1] = p[1] /\ q[Len(q)] = p[n]
  BY <1>1, <1>2
<1>8. e \in EdgesOf(g, q[Len(q)]) /\ e.to \in DOMAIN g /\ q[Len(q)] \in DOMAIN g
      /\ p = Append(q, e.to) /\ p[Len(p)] = e.to /\ Len(q) = Len(p) - 1
  BY <1>1, <1>2, <1>3, <1>4, <1>5, <1>7
<1> QED  BY <1>6, <1>7, <1>8

LEMMA WalksArePaths ==
    ASSUME NEW g, IsGraph(g), NEW n \in Nat, NEW s
    PROVE  s \in OsmWalks(g, n) <=>
              \E p : IsPath(g, p) /\ p # << >> /\ Len(p) <= n + 1 /\ Canonical(g, p[1]) /\ s = Trace(g, p)
<1>1. PICK run : /\ run[0] = Starts(g)
                 /\ \A k \in 1 .. n : run[k] = Further(g, run[k - 1])
                 /\ Walks(g, n) = UNION {run[k] : k \in 0 .. n}
  BY WalksRun
<1> DEFINE Reached(k) == \A w : w \in run[k] <=> \E p : Goes(g, p, w) /\ Len(p) = k + 1
                                                      /\ w = [nodes |-> w.nodes, at |-> w.at]
           Yes == {1}
           reached == [k \in 0 .. n |-> IF Reached(k) THEN 1 ELSE 0]
<1>2. Reached(0)
  <2>1. ASSUME NEW w, w \in run[0]
        PROVE  \E p : Goes(g, p, w) /\ Len(p) = 0 + 1 /\ w = [nodes |-> w.nodes, at |-> w.at]
    <3>1. PICK id \in DOMAIN g : Canonical(g, id) /\ w = [nodes |-> <<id>>, at |-> id]
      BY <1>1, <2>1 DEF Starts
    <3> DEFINE p == <<id>>
    <3>2. p \in Seq(DOMAIN g) /\ Len(p) = 1 /\ p[1] = id /\ p # << >>
      OBVIOUS
    <3> HIDE DEF p
    <3>3. IsPath(g, p)
      BY <3>2 DEF IsPath
    <3>4. Trace(g, p) = <<p[1]>>
      BY <3>1, <3>2, <3>3, PathOfOne
    <3>5. Goes(g, p, w)
      BY <3>1, <3>2, <3>3, <3>4 DEF Goes
    <3> QED  BY <3>1, <3>2, <3>5
  <2>2. ASSUME NEW w, NEW p, Goes(g, p, w), Len(p) = 0 + 1, w = [nodes |-> w.nodes, at |-> w.at]
        PROVE  w \in run[0]
    <3>1. p \in Seq(DOMAIN g) /\ Len(p) = 1
      BY <2>2 DEF Goes, IsPath
    <3>2. p[1] \in DOMAIN g /\ Canonical(g, p[1])
      BY <2>2, <3>1 DEF Goes
    <3>3. w.nodes = <<p[1]>> /\ w.at = p[1]
      BY <2>2, <3>1, <3>2, PathOfOne DEF Goes
    <3>4. w = [nodes |-> <<p[1]>>, at |-> p[1]]
      BY <2>2, <3>3
    <3> QED  BY <1>1, <3>2, <3>4 DEF Starts
  <2> QED  BY <2>1, <2>2
<1>3. ASSUME NEW k \in 1 .. n, Reached(k - 1)
      PROVE  Reached(k)
  <2>1. ASSUME NEW w, w \in run[k]
        PROVE  \E p : Goes(g, p, w) /\ Len(p) = k + 1 /\ w = [nodes |-> w.nodes, at |-> w.at]
    <3>0. PICK v \in run[k - 1] : \E e \in ToSet(GetEdges(g, v.at)) :
              HasNode(g, e.to) /\ w = [nodes |-> Append(v.nodes, OsmId(g, e.to)), at |-> e.to]
      BY <1>1, <2>1 DEF Further
    <3>1. PICK e \in ToSet(GetEdges(g, v.at)) :
              HasNode(g, e.to) /\ w = [nodes |-> Append(v.nodes, OsmId(g, e.to)), at |-> e.to]
      BY <3>0
    <3>2. PICK p : Goes(g, p, v) /\ Len(p) = k
      BY <1>3
    <3>3. IsPath(g, p) /\ p # << >> /\ p \in Seq(DOMAIN g) /\ Len(p) \in Nat \ {0}
          /\ v.at = p[Len(p)] /\ v.nodes = Trace(g, p) /\ Canonical(g, p[1])
      BY <3>2 DEF Goes, IsPath
    <3>4. p[Len(p)] \in DOMAIN g /\ 1 \in DOMAIN p
      BY <3>3
    <3>5. e \in EdgesOf(g, p[Len(p)]) /\ e.to \in DOMAIN g
      BY <3>1, <3>3, <3>4, EdgesOfGraph DEF EdgesOf, HasNode
    <3> DEFINE q == Append(p, e.to)
    <3>6. /\ Len(q) = k + 1 /\ q[k + 1] = e.to /\ q[1] = p[1] /\ q # << >> /\ IsPath(g, q)
          /\ Trace(g, q) = Append(v.nodes, OsmId(g, e.to))
      BY <3>2, <3>3, <3>4, <3>5, PathFurther DEF OsmId
    <3> HIDE DEF q
    <3>7. Goes(g, q, w)
      BY <3>1, <3>3, <3>6 DEF Goes
    <3> QED  BY <3>1, <3>6, <3>7
  <2>2. ASSUME NEW w, NEW p, Goes(g, p, w), Len(p) = k + 1, w = [nodes |-> w.nodes, at |-> w.at]
        PROVE  w \in run[k]
    <3>1. PICK q, e : /\ IsPath(g, q) /\ q # << >> /\ Len(q) = k /\ q[1] = p[1]
                      /\ e \in EdgesOf(g, q[Len(q)]) /\ e.to \in DOMAIN g /\ q[Len(q)] \in DOMAIN g
                      /\ p = Append(q, e.to) /\ p[Len(p)] = e.to
      <4>1. IsPath(g, p) /\ Len(p) > 1 /\ Len(p) - 1 = k
        BY <2>2 DEF Goes
      <4> QED  BY <4>1, PathBefore
    <3> DEFINE v == [nodes |-> Trace(g, q), at |-> q[Len(q)]]
    <3>2. Goes(g, q, v) /\ v = [nodes |-> v.nodes, at |-> v.at]
      BY <2>2, <3>1 DEF Goes
    <3>3. v \in run[k - 1]
      BY <1>3, <3>1, <3>2
    <3>4. w = [nodes |-> Append(v.nodes, OsmId(g, e.to)), at |-> e.to]
      BY <2>2, <3>1, PathFurther DEF Goes, OsmId
    <3>5. e \in ToSet(GetEdges(g, v.at)) /\ HasNode(g, e.to)
      BY <3>1, EdgesOfGraph DEF EdgesOf, HasNode
    <3> HIDE DEF v
    <3> QED  BY <1>1, <3>3, <3>4, <3>5 DEF Further
  <2> QED  BY <2>1, <2>2
<1>4. \A k \in 0 .. n : Reached(k)
  <2> HIDE DEF Reached
  <2>1. reached[0] \in Yes /\ \A k \in 1 .. n : reached[k - 1] \in Yes => reached[k] \in Yes
    BY <1>2, <1>3
  <2> HIDE DEF Yes, reached
  <2>2. \A k \in 0 .. n : reached[k] \in Yes
    BY <2>1, Induction
  <2> QED  BY <2>2 DEF Yes, reached
<1>5. ASSUME s \in OsmWalks(g, n)
      PROVE  \E p : IsPath(g, p) /\ p # << >> /\ Len(p) <= n + 1 /\ Canonical(g, p[1]) /\ s = Trace(g, p)
  <2>1. PICK k \in 0 .. n : \E v \in run[k] : s = v.nodes
    BY <1>1, <1>5 DEF OsmWalks
  <2>2. PICK w \in run[k] : s = w.nodes
    BY <2>1
  <2>3. PICK p : Goes(g, p, w) /\ Len(p) = k + 1
    BY <1>4
  <2> QED  BY <2>1, <2>2, <2>3 DEF Goes
<1>6. ASSUME NEW p, IsPath(g, p), p # << >>, Len(p) <= n + 1, Canonical(g, p[1]), s = Trace(g, p)
      PROVE  s \in OsmWalks(g, n)
  <2> DEFINE w == [nodes |-> Trace(g, p), at |-> p[Len(p)]]
             k == Len(p) - 1
  <2>1. Len(p) \in Nat \ {0}
    BY <1>6 DEF IsPath
  <2>2. k \in 0 .. n /\ Len(p) = k + 1
    BY <1>6, <2>1
  <2>3. Goes(g, p, w) /\ w = [nodes |-> w.nodes, at |-> w.at] /\ w.nodes = s
    BY <1>6 DEF Goes
  <2> HIDE DEF w, k
  <2>4. w \in run[k]
    BY <1>4, <2>2, <2>3
  <2> QED  BY <1>1, <2>2, <2>3, <2>4 DEF OsmWalks
<1> QED  BY <1>5, <1>6

---------------------------------------------------------------------------
(* Where the walk of a restriction goes *)

LEMMA CandidateResult ==
    ASSUME NEW g, IsGraph(g), NEW change, NEW previous, NEW osm_id,
           EdgesToOsm(g, change, previous, osm_id) # {}
    PROVE  LET from == Original(change, previous)
               candidate == Candidate(g, change, previous, osm_id)
           IN  /\ from \in DOMAIN g /\ candidate \in DOMAIN g /\ g[candidate].osm_id = osm_id
               /\ \E e \in EdgesOf(g, from) : e.to = candidate
<1> DEFINE from == Original(change, previous)
           candidate == Candidate(g, change, previous, osm_id)
           places == EdgesToOsm(g, change, previous, osm_id)
           es == GetEdges(g, from)
           k == Min(places)
<1>1. places = {j \in DOMAIN es : HasNode(g, es[j].to) /\ OsmId(g, es[j].to) = osm_id}
  BY DEF EdgesToOsm
<1>2. candidate = es[k].to
  BY DEF Candidate
<1>3. es \in Seq(Edge) /\ (from \in DOMAIN g => es = g[from].edges) /\ (from \notin DOMAIN g => es = << >>)
  <2> HIDE DEF from
  <2> QED  BY GetEdgesIsList
<1>4. places # {}
  OBVIOUS
<1> HIDE DEF es, from, candidate, places
<1>5. places \subseteq Nat
  BY <1>1, <1>3
<1>6. \E x \in places : \A y \in places : x <= y
  BY <1>4, <1>5, LeastNatural
<1>7. k \in places
  BY <1>6 DEF Min
<1> HIDE DEF k
<1>8. k \in DOMAIN es /\ es[k].to \in DOMAIN g /\ g[es[k].to].osm_id = osm_id
  BY <1>1, <1>7 DEF HasNode, OsmId
<1>9. from \in DOMAIN g /\ es = g[from].edges
  BY <1>3, <1>8
<1>10. \E e \in EdgesOf(g, from) : e.to = candidate
  BY <1>2, <1>8, <1>9 DEF EdgesOf, ToSet
<1> QED  BY <1>2, <1>8, <1>9, <1>10 DEF from, candidate

LEMMA NoCandidate ==
    ASSUME NEW g, IsGraph(g), NEW change, NEW previous, NEW osm_id,
           EdgesToOsm(g, change, previous, osm_id) = {},
           Original(change, previous) \in DOMAIN g
    PROVE  \A e \in EdgesOf(g, Original(change, previous)) : e.to \in DOMAIN g => g[e.to].osm_id # osm_id
BY EdgesOfGraph DEF EdgesToOsm, EdgesOf, ToSet, HasNode, OsmId

\* The first n nodes of a walk, or their originals, are where its edges lead.
Leads(g, nodes, change, c, n) ==
    /\ c[1] = nodes[1] /\ c[1] \notin DOMAIN change.new_nodes
    /\ \A j \in 2 .. n :
          LET from == Original(change, c[j - 1])
              to == Original(change, c[j])
          IN  /\ from \in DOMAIN g /\ to \in DOMAIN g /\ g[to].osm_id = nodes[j]
              /\ \E e \in EdgesOf(g, from) : e.to = to

\* Each new node is at one place of the walk, and relinked from the place before it.
Relinks(change, c, n) ==
    LET clones == DOMAIN change.new_nodes IN
    /\ \A j \in 2 .. n :
          c[j] \in clones => [from |-> c[j - 1], to |-> Original(change, c[j])] \in change.edges_to_remove
    /\ \A a \in change.edges_to_add :
          \E j \in 2 .. n : a.from = c[j - 1] /\ a.to = c[j] /\ c[j] \in clones
    /\ \A id \in clones : \E j \in 2 .. n : id = c[j]
    /\ \A j, k \in 2 .. n : c[j] \in clones /\ c[j] = c[k] => j = k

\* It is on clones of earlier restrictions, then on new ones of canonical nodes
\* first, and on new ones until its end.
Parts(nodes, change, c, n) ==
    LET clones == DOMAIN change.new_nodes IN
    /\ \A j, k \in 2 .. n : j <= k /\ k < Len(nodes) /\ c[j] \in clones => c[k] \in clones
    /\ \A j \in 2 .. n : j < Len(nodes) /\ c[j] \notin clones => c[j] # nodes[j]
    /\ \A j \in 3 .. n : c[j - 1] \notin clones /\ c[j] \in clones => Original(change, c[j]) = nodes[j]
    /\ n = Len(nodes) => c[n] \notin clones

Follows(g, nodes, change, c, n) ==
    Leads(g, nodes, change, c, n) /\ Relinks(change, c, n) /\ Parts(nodes, change, c, n)

\* The first n nodes of a walk, where its edges lead.
Trail(g, nodes, q, n) ==
    \A j \in 2 .. n :
        /\ q[j - 1] \in DOMAIN g /\ q[j] \in DOMAIN g /\ g[q[j]].osm_id = nodes[j]
        /\ \E e \in EdgesOf(g, q[j - 1]) : e.to = q[j]

\* A walk that gets nowhere: no edge leads from its m-th node to the next.
Ends(g, nodes, q, m) ==
    /\ q[1] = nodes[1] /\ Trail(g, nodes, q, m)
    /\ q[m] \in DOMAIN g =>
          \A e \in EdgesOf(g, q[m]) : e.to \in DOMAIN g => g[e.to].osm_id # nodes[m + 1]

\* The next node of a walk is one of the graph.
LEMMA FollowsCandidate ==
    ASSUME NEW g, NEW nodes, Len(nodes) \in Nat, NEW change, NEW n \in Nat \ {0}, n < Len(nodes),
           NEW c, NEW d, \A j \in 1 .. n : d[j] = c[j],
           Follows(g, nodes, change, c, n),
           Original(change, c[n]) \in DOMAIN g,
           d[n + 1] \in DOMAIN g, g[d[n + 1]].osm_id = nodes[n + 1],
           \E e \in EdgesOf(g, Original(change, c[n])) : e.to = d[n + 1],
           DOMAIN g \cap DOMAIN change.new_nodes = {},
           n + 1 < Len(nodes) => d[n + 1] # nodes[n + 1] /\ (n = 1 \/ c[n] \notin DOMAIN change.new_nodes)
    PROVE  Follows(g, nodes, change, d, n + 1)
<1>1. Original(change, d[n + 1]) = d[n + 1] /\ d[n + 1] \notin DOMAIN change.new_nodes
  BY DEF Original
<1>2. \A j \in 2 .. n + 1 : j # n + 1 => j \in 2 .. n /\ d[j] = c[j] /\ d[j - 1] = c[j - 1]
  OBVIOUS
<1>3. d[1] = c[1] /\ d[n] = c[n]
  OBVIOUS
<1>4. Leads(g, nodes, change, d, n + 1)
  <2>1. ASSUME NEW j \in 2 .. n + 1
        PROVE  /\ Original(change, d[j - 1]) \in DOMAIN g /\ Original(change, d[j]) \in DOMAIN g
               /\ g[Original(change, d[j])].osm_id = nodes[j]
               /\ \E e \in EdgesOf(g, Original(change, d[j - 1])) : e.to = Original(change, d[j])
    <3>1. CASE j = n + 1
      BY <1>1, <1>3, <3>1
    <3>2. CASE j # n + 1
      BY <1>2, <3>2 DEF Follows, Leads
    <3> QED  BY <3>1, <3>2
  <2> QED  BY <1>3, <2>1 DEF Follows, Leads
<1>5. Relinks(change, d, n + 1)
  <2> DEFINE clones == DOMAIN change.new_nodes
  <2>1. \A j \in 2 .. n : j \in 2 .. n + 1 /\ d[j] = c[j] /\ d[j - 1] = c[j - 1]
    OBVIOUS
  <2>2. Relinks(change, c, n)
    BY DEF Follows
  <2>3. \A j \in 2 .. n + 1 : d[j] \in clones => j \in 2 .. n
    BY <1>1, <1>2
  <2>4. \A j \in 2 .. n + 1 :
           d[j] \in clones => [from |-> d[j - 1], to |-> Original(change, d[j])] \in change.edges_to_remove
    BY <2>1, <2>2, <2>3 DEF Relinks
  <2>5. \A a \in change.edges_to_add :
           \E j \in 2 .. n + 1 : a.from = d[j - 1] /\ a.to = d[j] /\ d[j] \in clones
    BY <2>1, <2>2 DEF Relinks
  <2>6. \A id \in clones : \E j \in 2 .. n + 1 : id = d[j]
    BY <2>1, <2>2 DEF Relinks
  <2>7. \A j, k \in 2 .. n + 1 : d[j] \in clones /\ d[j] = d[k] => j = k
    BY <2>1, <2>2, <2>3 DEF Relinks
  <2> QED  BY <2>4, <2>5, <2>6, <2>7 DEF Relinks
<1>6. Parts(nodes, change, d, n + 1)
  <2>1. \A j, k \in 2 .. n + 1 : j <= k /\ k < Len(nodes) /\ d[j] \in DOMAIN change.new_nodes
            => d[k] \in DOMAIN change.new_nodes
    BY <1>1, <1>2 DEF Follows, Parts
  <2>2. \A j \in 2 .. n + 1 : j < Len(nodes) /\ d[j] \notin DOMAIN change.new_nodes => d[j] # nodes[j]
    BY <1>1, <1>2 DEF Follows, Parts
  <2>3. \A j \in 3 .. n + 1 : d[j - 1] \notin DOMAIN change.new_nodes /\ d[j] \in DOMAIN change.new_nodes
            => Original(change, d[j]) = nodes[j]
    BY <1>1, <1>2 DEF Follows, Parts
  <2> QED  BY <1>1, <2>1, <2>2, <2>3 DEF Parts
<1> QED  BY <1>4, <1>5, <1>6 DEF Follows

\* The next node of a walk is a new clone.
LEMMA FollowsClone ==
    ASSUME NEW g, NEW nodes, Len(nodes) \in Nat, NEW change, NEW n \in Nat \ {0}, n + 1 < Len(nodes),
           NEW c, NEW d, \A j \in 1 .. n : d[j] = c[j],
           Follows(g, nodes, change, c, n),
           NEW candidate \in DOMAIN g,
           Original(change, c[n]) \in DOMAIN g, g[candidate].osm_id = nodes[n + 1],
           \E e \in EdgesOf(g, Original(change, c[n])) : e.to = candidate,
           d[n + 1] = change.phantom_node_id_counter + 1,
           d[n + 1] \notin DOMAIN g, d[n + 1] \notin DOMAIN change.new_nodes,
           candidate = nodes[n + 1] \/ (n # 1 /\ c[n] \in DOMAIN change.new_nodes)
    PROVE  Follows(g, nodes, Relinked(g, change, c[n], candidate), d, n + 1)
<1> DEFINE new == Relinked(g, change, c[n], candidate)
           clones == DOMAIN change.new_nodes
           O(j) == Original(change, c[j])
<1>1. /\ DOMAIN new.new_nodes = clones \cup {d[n + 1]}
      /\ new.new_nodes[d[n + 1]] = candidate
      /\ \A id \in clones : new.new_nodes[id] = change.new_nodes[id]
      /\ new.edges_to_remove = change.edges_to_remove \cup {[from |-> c[n], to |-> candidate]}
  BY DEF Relinked
<1>2. \E cost : new.edges_to_add = change.edges_to_add
                    \cup {[from |-> c[n], to |-> d[n + 1], cost |-> cost]}
  BY DEF Relinked
<1> HIDE DEF new
<1>3. \A j \in 2 .. n + 1 : j # n + 1 => j \in 2 .. n /\ d[j] = c[j] /\ d[j - 1] = c[j - 1]
  OBVIOUS
<1>4. d[1] = c[1] /\ d[n] = c[n]
  OBVIOUS
\* The nodes so far are no new clone, and stay what they are.
<1>5. ASSUME NEW j \in 1 .. n
      PROVE  c[j] # d[n + 1] /\ Original(new, d[j]) = O(j)
  <2>1. O(j) \in DOMAIN g
    <3>1. CASE j = n
      BY <3>1
    <3>2. CASE j # n
      <4>1. j + 1 \in 2 .. n /\ (j + 1) - 1 = j
        BY <3>2
      <4> QED  BY <4>1 DEF Follows, Leads
    <3> QED  BY <3>1, <3>2
  <2>2. c[j] # d[n + 1]
    BY <2>1 DEF Original
  <2> QED  BY <1>1, <2>2 DEF Original
<1>6. Original(new, d[n + 1]) = candidate
  BY <1>1 DEF Original
<1>7. \A j \in 1 .. n : d[j] \in DOMAIN new.new_nodes <=> c[j] \in clones
  BY <1>1, <1>5
<1>8. Leads(g, nodes, new, d, n + 1)
  <2>1. ASSUME NEW j \in 2 .. n + 1
        PROVE  /\ Original(new, d[j - 1]) \in DOMAIN g /\ Original(new, d[j]) \in DOMAIN g
               /\ g[Original(new, d[j])].osm_id = nodes[j]
               /\ \E e \in EdgesOf(g, Original(new, d[j - 1])) : e.to = Original(new, d[j])
    <3>1. CASE j = n + 1
      <4>1. Original(new, d[j - 1]) = O(n)
        BY <1>5, <3>1
      <4> QED  BY <1>6, <3>1, <4>1
    <3>2. CASE j # n + 1
      <4>1. j \in 2 .. n /\ Original(new, d[j]) = O(j) /\ Original(new, d[j - 1]) = O(j - 1)
        BY <1>5, <3>2
      <4> QED  BY <4>1 DEF Follows, Leads
    <3> QED  BY <3>1, <3>2
  <2>2. d[1] = nodes[1] /\ d[1] \notin DOMAIN new.new_nodes
    BY <1>4, <1>7 DEF Follows, Leads
  <2> QED  BY <2>1, <2>2 DEF Leads
<1>9. Relinks(new, d, n + 1)
  <2>1. ASSUME NEW j \in 2 .. n + 1, d[j] \in DOMAIN new.new_nodes
        PROVE  [from |-> d[j - 1], to |-> Original(new, d[j])] \in new.edges_to_remove
    <3>1. CASE j = n + 1
      BY <1>1, <1>4, <1>6, <3>1
    <3>2. CASE j # n + 1
      <4>1. j \in 2 .. n /\ c[j] \in clones /\ Original(new, d[j]) = O(j) /\ d[j - 1] = c[j - 1]
        BY <1>3, <1>5, <1>7, <2>1, <3>2
      <4> QED  BY <1>1, <4>1 DEF Follows, Relinks
    <3> QED  BY <3>1, <3>2
  <2>2. ASSUME NEW a \in new.edges_to_add
        PROVE  \E j \in 2 .. n + 1 : a.from = d[j - 1] /\ a.to = d[j] /\ d[j] \in DOMAIN new.new_nodes
    <3>1. CASE a \in change.edges_to_add
      <4>1. PICK j \in 2 .. n : a.from = c[j - 1] /\ a.to = c[j] /\ c[j] \in clones
        BY <3>1 DEF Follows, Relinks
      <4>2. j \in 2 .. n + 1 /\ d[j] = c[j] /\ d[j - 1] = c[j - 1]
        OBVIOUS
      <4> QED  BY <1>1, <4>1, <4>2
    <3>2. CASE a \notin change.edges_to_add
      <4>1. a.from = c[n] /\ a.to = d[n + 1]
        BY <1>2, <3>2
      <4>2. n + 1 \in 2 .. n + 1 /\ (n + 1) - 1 = n
        OBVIOUS
      <4> QED  BY <1>1, <1>4, <4>1, <4>2
    <3> QED  BY <3>1, <3>2
  <2>3. ASSUME NEW id \in DOMAIN new.new_nodes
        PROVE  \E j \in 2 .. n + 1 : id = d[j]
    <3>1. CASE id = d[n + 1]
      BY <3>1
    <3>2. CASE id \in clones
      BY <1>3, <3>2 DEF Follows, Relinks
    <3> QED  BY <1>1, <3>1, <3>2
  <2>4. ASSUME NEW j \in 2 .. n + 1, NEW k \in 2 .. n + 1, d[j] \in DOMAIN new.new_nodes, d[j] = d[k]
        PROVE  j = k
    <3>1. CASE j = n + 1 \/ k = n + 1
      BY <1>3, <1>5, <2>4, <3>1
    <3>2. CASE j # n + 1 /\ k # n + 1
      <4>1. j \in 2 .. n /\ k \in 2 .. n /\ c[j] = c[k] /\ c[j] \in clones
        BY <1>3, <1>7, <2>4, <3>2
      <4> QED  BY <4>1 DEF Follows, Relinks
    <3> QED  BY <3>1, <3>2
  <2> QED  BY <2>1, <2>2, <2>3, <2>4 DEF Relinks
<1>10. Parts(nodes, new, d, n + 1)
  <2>1. ASSUME NEW j \in 2 .. n + 1, NEW k \in 2 .. n + 1, j <= k, k < Len(nodes),
               d[j] \in DOMAIN new.new_nodes
        PROVE  d[k] \in DOMAIN new.new_nodes
    <3>1. CASE k = n + 1
      BY <1>1, <3>1
    <3>2. CASE k # n + 1
      <4>1. j \in 2 .. n /\ k \in 2 .. n /\ d[k] = c[k] /\ c[j] \in clones
        BY <1>3, <1>7, <2>1, <3>2
      <4>2. c[k] \in clones
        BY <2>1, <4>1 DEF Follows, Parts
      <4> QED  BY <1>1, <4>1, <4>2
    <3> QED  BY <3>1, <3>2
  <2>2. ASSUME NEW j \in 2 .. n + 1, j < Len(nodes), d[j] \notin DOMAIN new.new_nodes
        PROVE  d[j] # nodes[j]
    <3>1. j # n + 1
      BY <1>1, <2>2
    <3>2. j \in 2 .. n /\ d[j] = c[j] /\ c[j] \notin clones
      BY <1>1, <1>3, <2>2, <3>1
    <3> QED  BY <2>2, <3>2 DEF Follows, Parts
  <2>3. ASSUME NEW j \in 3 .. n + 1, d[j - 1] \notin DOMAIN new.new_nodes, d[j] \in DOMAIN new.new_nodes
        PROVE  Original(new, d[j]) = nodes[j]
    <3>1. CASE j = n + 1
      <4>1. c[n] \notin clones
        BY <1>1, <1>4, <2>3, <3>1
      <4> QED  BY <1>6, <3>1, <4>1
    <3>2. CASE j # n + 1
      <4>1. j \in 3 .. n /\ j \in 1 .. n /\ j - 1 \in 1 .. n
        BY <3>2
      <4>2. c[j - 1] \notin clones /\ c[j] \in clones /\ Original(new, d[j]) = O(j)
        BY <1>5, <1>7, <2>3, <4>1
      <4> QED  BY <4>1, <4>2 DEF Follows, Parts
    <3> QED  BY <3>1, <3>2
  <2> QED  BY <2>1, <2>2, <2>3 DEF Parts
<1> QED  BY <1>8, <1>9, <1>10 DEF Follows, new

\* A walk that has got to its n-th node, or nowhere.
IsOnWay(g, nodes, walk, n) ==
    /\ walk.ok =>
          /\ Len(walk.cloned_nodes) = n
          /\ Follows(g, nodes, walk.change, walk.cloned_nodes, n)
          /\ n < Len(nodes) =>
                (walk.following <=> n >= 2 /\ walk.cloned_nodes[n] \notin DOMAIN walk.change.new_nodes)
    /\ ~ walk.ok => \E m \in 1 .. Len(nodes) - 1 : \E q : Ends(g, nodes, q, m)

LEMMA WalkedFollows ==
    ASSUME NEW g, IsGraph(g), NEW counter \in Nat, NoIdBeyond(g, counter),
           NEW nodes \in Seq(Int), NEW n \in 1 .. Len(nodes) - 1,
           NEW walk \in Progress(g, counter), IsOnWay(g, nodes, walk, n)
    PROVE  IsOnWay(g, nodes, Walked(g, nodes, walk, n + 1), n + 1)
<1> DEFINE change == walk.change
           c == walk.cloned_nodes
           clones == DOMAIN change.new_nodes
           previous == Last(c)
           from == Original(change, previous)
           osm_id == nodes[n + 1]
           places == EdgesToOsm(g, change, previous, osm_id)
           candidate == Candidate(g, change, previous, osm_id)
           following == Reuses(walk, n + 1, candidate, osm_id)
           relinked == Relinked(g, change, previous, candidate)
           next == Walked(g, nodes, walk, n + 1)
<1>1. /\ walk \in [ok : BOOLEAN, following : BOOLEAN, change : Changes(g), cloned_nodes : Seq(Int)]
      /\ c \in Seq(Int) /\ IsSound(g, counter, change)
  BY DEF Progress
<1>2. /\ change.phantom_node_id_counter \in Nat /\ change.phantom_node_id_counter >= counter
      /\ clones \subseteq counter + 1 .. change.phantom_node_id_counter
  BY <1>1 DEF IsSound
<1>3. Len(nodes) \in Nat /\ n \in Nat \ {0} /\ n < Len(nodes)
  OBVIOUS
<1>4. CASE ~ walk.ok
  BY <1>4 DEF Walked, IsOnWay
<1>5. CASE walk.ok
  <2>1. /\ Len(c) = n /\ Follows(g, nodes, change, c, n)
        /\ walk.following <=> n >= 2 /\ c[n] \notin clones
    BY <1>3, <1>5 DEF IsOnWay
  <2>2. previous = c[n] /\ n \in DOMAIN c
    BY <1>1, <1>3, <2>1 DEF Last
  <2>3. CASE places = {}
    <3>1. next.ok = FALSE
      BY <1>1, <1>5, <2>3 DEF Walked
    <3> DEFINE q == [j \in 1 .. n |-> Original(change, c[j])]
    <3>2. q[1] = nodes[1]
      BY <1>3, <2>1 DEF Follows, Leads, Original
    <3>3. \A j \in 2 .. n : q[j] = Original(change, c[j]) /\ q[j - 1] = Original(change, c[j - 1])
      BY <1>3, SMTT(30)
    <3>4. q[n] = from
      BY <1>3, <2>2
    <3>5. from \in DOMAIN g => \A e \in EdgesOf(g, from) : e.to \in DOMAIN g => g[e.to].osm_id # osm_id
      <4>1. places = {} /\ from \in DOMAIN g =>
                \A e \in EdgesOf(g, from) : e.to \in DOMAIN g => g[e.to].osm_id # osm_id
        BY NoCandidate
      <4> QED  BY <2>3, <4>1
    <3> HIDE DEF q, from, previous
    <3>6. Ends(g, nodes, q, n)
      <4>1. ASSUME NEW j \in 2 .. n
            PROVE  /\ q[j - 1] \in DOMAIN g /\ q[j] \in DOMAIN g /\ g[q[j]].osm_id = nodes[j]
                   /\ \E e \in EdgesOf(g, q[j - 1]) : e.to = q[j]
        <5>1. q[j] = Original(change, c[j]) /\ q[j - 1] = Original(change, c[j - 1])
          BY <3>3
        <5>2. Leads(g, nodes, change, c, n)
          BY <2>1 DEF Follows
        <5> QED  BY <5>1, <5>2 DEF Leads
      <4>2. Trail(g, nodes, q, n)
        BY <4>1 DEF Trail
      <4> QED  BY <3>2, <3>4, <3>5, <4>2 DEF Ends
    <3> QED  BY <1>3, <3>1, <3>6 DEF IsOnWay
  <2>4. CASE places # {}
    <3>1. /\ from \in DOMAIN g /\ candidate \in DOMAIN g /\ g[candidate].osm_id = osm_id
          /\ \E e \in EdgesOf(g, from) : e.to = candidate
      BY <2>4, CandidateResult
    <3>2. candidate \in Int /\ \A id \in DOMAIN g : id \in Int /\ id <= counter
      BY <3>1, EdgesOfGraph DEF NoIdBeyond
    <3>3. DOMAIN g \cap clones = {}
      BY <1>2, <3>2
    <3>4. following <=> candidate # osm_id /\ (n = 1 \/ (n >= 2 /\ c[n] \notin clones))
      BY <1>3, <2>1 DEF Reuses
    <3> HIDE DEF candidate, previous, from, following, relinked
    <3>5. CASE n + 1 = Len(nodes) \/ following
      <4> DEFINE d == Append(c, candidate)
      <4>1. /\ next.ok /\ next.change = change /\ next.cloned_nodes = d
            /\ next.following = following
        BY <1>1, <1>5, <2>4, <3>5 DEF Walked, previous, candidate, following, relinked
      <4>2. Len(d) = n + 1 /\ d[n + 1] = candidate /\ \A j \in 1 .. n : d[j] = c[j]
        BY <1>1, <1>3, <2>1, <3>2
      <4> HIDE DEF d
      <4>3. n + 1 < Len(nodes) => following
        BY <3>5
      <4>4. Follows(g, nodes, change, d, n + 1)
        <5> HIDE DEF change, c
        <5> QED  BY <1>3, <2>1, <2>2, <3>1, <3>3, <3>4, <4>2, <4>3, FollowsCandidate DEF from
      <4>5. n + 1 < Len(nodes) => n + 1 >= 2 /\ d[n + 1] \notin clones /\ following
        BY <1>3, <3>1, <3>3, <4>2, <4>3
      <4>6. n + 1 < Len(nodes) =>
                (next.following
                    <=> n + 1 >= 2 /\ next.cloned_nodes[n + 1] \notin DOMAIN next.change.new_nodes)
        BY <4>1, <4>5
      <4>7. Len(next.cloned_nodes) = n + 1 /\ Follows(g, nodes, next.change, next.cloned_nodes, n + 1)
        BY <4>1, <4>2, <4>4
      <4> HIDE DEF next
      <4>z. IsOnWay(g, nodes, next, n + 1)
        BY <4>1, <4>6, <4>7 DEF IsOnWay
      <4> QED  BY <4>z DEF next
    <3>6. CASE n + 1 # Len(nodes) /\ ~ following
      <4> DEFINE clone == change.phantom_node_id_counter + 1
                 d == Append(c, clone)
      <4>1. /\ next.ok /\ next.change = relinked /\ next.cloned_nodes = Append(c, relinked.phantom_node_id_counter)
            /\ next.following = following
        BY <1>1, <1>5, <2>4, <3>6 DEF Walked, previous, candidate, following, relinked
      <4>2. relinked.phantom_node_id_counter = clone /\ clone \in DOMAIN relinked.new_nodes
        BY DEF relinked, Relinked
      <4>3. clone \in Int /\ clone \notin DOMAIN g /\ clone \notin clones
        BY <1>2, <3>2, SMTT(30)
      <4>4. Len(d) = n + 1 /\ d[n + 1] = clone /\ \A j \in 1 .. n : d[j] = c[j]
        BY <1>1, <1>3, <2>1, <4>3
      <4> HIDE DEF d
      <4>5. n + 1 < Len(nodes)
        BY <1>3, <3>6
      <4>6. candidate = osm_id \/ (n # 1 /\ c[n] \in clones)
        BY <1>3, <3>4, <3>6
      <4>7. Follows(g, nodes, relinked, d, n + 1)
        <5>1. Original(change, c[n]) \in DOMAIN g /\ \E e \in EdgesOf(g, Original(change, c[n])) : e.to = candidate
          BY <2>2, <3>1 DEF from
        <5>2. relinked = Relinked(g, change, c[n], candidate)
          BY <2>2 DEF relinked
        <5> HIDE DEF change, c
        <5> QED  BY <1>3, <2>1, <3>1, <4>3, <4>4, <4>5, <4>6, <5>1, <5>2, FollowsClone
      <4>8. next.cloned_nodes = d
        BY <4>1, <4>2 DEF d
      <4>9. next.cloned_nodes[n + 1] \in DOMAIN next.change.new_nodes /\ ~ next.following
        BY <3>6, <4>1, <4>2, <4>4, <4>8
      <4>10. Len(next.cloned_nodes) = n + 1 /\ Follows(g, nodes, next.change, next.cloned_nodes, n + 1)
        BY <4>1, <4>4, <4>7, <4>8
      <4> HIDE DEF next
      <4>z. IsOnWay(g, nodes, next, n + 1)
        BY <4>1, <4>9, <4>10 DEF IsOnWay
      <4> QED  BY <4>z DEF next
    <3> QED  BY <3>5, <3>6
  <2> QED  BY <2>3, <2>4
<1> QED  BY <1>4, <1>5

\* restriction_as_cloned_nodes gets to the end of the restriction, or nowhere.
LEMMA ClonedNodesFollow ==
    ASSUME NEW g, IsGraph(g), NEW counter \in Nat, NoIdBeyond(g, counter),
           NEW nodes \in Seq(Int), nodes # << >>
    PROVE  LET walk == ClonedNodes(g, counter, nodes) IN
           IsOnWay(g, nodes, walk, Len(nodes)) /\ walk \in Progress(g, counter)
<1> DEFINE N == Len(nodes) - 1
           Yes == {1}
<1>1. Len(nodes) \in Nat \ {0} /\ N \in Nat
  OBVIOUS
<1>2. NoWalk(counter, nodes) \in Progress(g, counter)
  BY NoWalkIsProgress
<1>3. \A walk \in Progress(g, counter) : \A i \in 1 .. Len(nodes) - 1 :
         Walked(g, nodes, walk, i + 1) \in Progress(g, counter)
  BY WalkedKeeps DEF NoIdBeyond
<1>4. PICK run : /\ ClonedNodes(g, counter, nodes) = run[N] /\ run[0] = NoWalk(counter, nodes)
                 /\ \A i \in 0 .. N : run[i] \in Progress(g, counter)
                 /\ \A i \in 1 .. N : run[i] = Walked(g, nodes, run[i - 1], i + 1)
  <2> DEFINE D == Progress(g, counter)
  <2>1. NoWalk(counter, nodes) \in D
    BY <1>2
  <2>2. \A h \in D : \A i \in 1 .. Len(nodes) - 1 : Walked(g, nodes, h, i + 1) \in D
    BY <1>3
  <2>3. Len(nodes) \in Nat \ {0}
    BY <1>1
  <2> HIDE DEF D, N
  <2>4. LET M == Len(nodes) - 1 IN
        \E run : /\ ClonedNodes(g, counter, nodes) = run[M] /\ run[0] = NoWalk(counter, nodes)
                 /\ \A i \in 0 .. M : run[i] \in D
                 /\ \A i \in 1 .. M : run[i] = Walked(g, nodes, run[i - 1], i + 1)
    BY <2>1, <2>2, <2>3, ClonedNodesRun
  <2> QED  BY <2>4 DEF D, N
<1>5. IsOnWay(g, nodes, run[0], 1)
  <2> DEFINE none == NoChange(counter)
             c == <<nodes[1]>>
  <2>1. DOMAIN none.new_nodes = {} /\ none.edges_to_add = {}
    BY DEF NoChange
  <2>2. Len(c) = 1 /\ c[1] = nodes[1]
    OBVIOUS
  <2>3. run[0].ok /\ run[0].change = none /\ run[0].cloned_nodes = c /\ ~ run[0].following
    BY <1>4 DEF NoWalk
  <2> HIDE DEF none, c
  <2>4. \A j \in 2 .. 1 : FALSE
    OBVIOUS
  <2>5. \A j \in 3 .. 1 : FALSE
    OBVIOUS
  <2>6. Leads(g, nodes, none, c, 1)
    BY <2>1, <2>2, <2>4 DEF Leads
  <2>7. Relinks(none, c, 1)
    BY <2>1, <2>4 DEF Relinks
  <2>8. Parts(nodes, none, c, 1)
    BY <2>1, <2>4, <2>5 DEF Parts
  <2> QED  BY <2>2, <2>3, <2>6, <2>7, <2>8 DEF IsOnWay, Follows
<1> DEFINE on == [i \in 0 .. N |-> IF IsOnWay(g, nodes, run[i], i + 1) THEN 1 ELSE 0]
<1>6. \A i \in 0 .. N : on[i] \in Yes <=> IsOnWay(g, nodes, run[i], i + 1)
  OBVIOUS
<1>7. ASSUME NEW i \in 1 .. N, IsOnWay(g, nodes, run[i - 1], i)
      PROVE  IsOnWay(g, nodes, run[i], i + 1)
  <2>1. run[i - 1] \in Progress(g, counter) /\ i \in 1 .. Len(nodes) - 1
    BY <1>1, <1>4
  <2> HIDE DEF N
  <2>2. run[i] = Walked(g, nodes, run[i - 1], i + 1)
    BY <1>4
  <2>3. IsOnWay(g, nodes, Walked(g, nodes, run[i - 1], i + 1), i + 1)
    BY <1>7, <2>1, WalkedFollows
  <2> QED  BY <2>2, <2>3
<1> HIDE DEF on, N, Yes
<1>8. on[0] \in Yes
  <2>1. 0 \in 0 .. N /\ 0 + 1 = 1
    BY <1>1
  <2> QED  BY <1>5, <1>6, <2>1
<1>9. ASSUME NEW i \in 1 .. N, on[i - 1] \in Yes
      PROVE  on[i] \in Yes
  <2>1. i - 1 \in 0 .. N /\ (i - 1) + 1 = i /\ i \in 0 .. N
    BY <1>1
  <2> QED  BY <1>6, <1>7, <1>9, <2>1
<1>10. \A i \in 0 .. N : on[i] \in Yes
  BY <1>1, <1>8, <1>9, Induction
<1>11. N \in 0 .. N /\ N + 1 = Len(nodes)
  BY <1>1 DEF N
<1> QED  BY <1>4, <1>6, <1>10, <1>11

---------------------------------------------------------------------------
(* What a restriction leaves of the paths along it *)

\* Set after set of numbers, one step at a time.
LEMMA StepByStep ==
    ASSUME NEW n \in Nat, NEW S, 1 \in S, \A j \in 1 .. n - 1 : j \in S => j + 1 \in S
    PROVE  \A j \in 1 .. n : j \in S
<1> DEFINE Bad == {j \in 1 .. n : j \notin S}
<1> SUFFICES ASSUME Bad # {}
             PROVE  FALSE
  OBVIOUS
<1>1. PICK b \in Bad : \A j \in Bad : b <= j
  <2>1. Bad \subseteq Nat
    OBVIOUS
  <2> HIDE DEF Bad
  <2> QED  BY <2>1, LeastNatural
<1>2. b \in 2 .. n
  OBVIOUS
<1>3. b - 1 \in 1 .. n - 1 /\ b - 1 \notin Bad /\ (b - 1) + 1 = b
  BY <1>1, <1>2
<1> QED  BY <1>2, <1>3

\* No two edges of a node lead to the same OSM node.
OneEdgePerOsm(g) ==
    \A id \in DOMAIN g : \A d, e \in EdgesOf(g, id) :
        d.to \in DOMAIN g /\ e.to \in DOMAIN g /\ g[d.to].osm_id = g[e.to].osm_id => d.to = e.to

\* From its i-th node on, a path goes along the first m nodes of a restriction.
Along(g, p, i, nodes, m) ==
    \A j \in 1 .. m : i + j - 1 \in 1 .. Len(p) /\ g[p[i + j - 1]].osm_id = nodes[j]

LEMMA PathStep ==
    ASSUME NEW g, NEW p, IsPath(g, p), NEW i \in Nat \ {0}, NEW nodes, NEW m \in Nat, Along(g, p, i, nodes, m),
           NEW j \in 1 .. m - 1
    PROVE  /\ p[i + j - 1] \in DOMAIN g /\ p[i + j] \in DOMAIN g /\ g[p[i + j]].osm_id = nodes[j + 1]
           /\ \E e \in EdgesOf(g, p[i + j - 1]) : e.to = p[i + j]
<1>1. j \in 1 .. m /\ j + 1 \in 1 .. m /\ i + (j + 1) - 1 = i + j
  OBVIOUS
<1>2. i + j - 1 \in 1 .. Len(p) /\ i + j \in 1 .. Len(p) /\ g[p[i + j]].osm_id = nodes[j + 1]
  BY <1>1 DEF Along
<1>3. p \in Seq(DOMAIN g) /\ Len(p) \in Nat
  BY DEF IsPath
<1>4. p[i + j - 1] \in DOMAIN g /\ p[i + j] \in DOMAIN g
  BY <1>2, <1>3
<1>5. i + j - 1 \in 1 .. Len(p) - 1 /\ (i + j - 1) + 1 = i + j
  BY <1>2, <1>3
<1>6. \E e \in EdgesOf(g, p[i + j - 1]) : e.to = p[(i + j - 1) + 1]
  BY <1>5 DEF IsPath
<1> QED  BY <1>2, <1>4, <1>5, <1>6

\* Where no two edges lead to the same OSM node, there is one path along a walk.
LEMMA OnePath ==
    ASSUME NEW g, OneEdgePerOsm(g), NEW nodes, NEW q, NEW n \in Nat \ {0},
           Trail(g, nodes, q, n),
           NEW p, IsPath(g, p), NEW i \in Nat \ {0}, Along(g, p, i, nodes, n), p[i] = q[1]
    PROVE  \A j \in 1 .. n : p[i + j - 1] = q[j]
<1> DEFINE Same == {j \in 1 .. n : p[i + j - 1] = q[j]}
<1>1. 1 \in Same
  BY i + 1 - 1 = i
<1>2. ASSUME NEW j \in 1 .. n - 1, j \in Same
      PROVE  j + 1 \in Same
  <2>1. j + 1 \in 2 .. n /\ (j + 1) - 1 = j /\ i + (j + 1) - 1 = i + j
    OBVIOUS
  <2>2. /\ q[j] \in DOMAIN g /\ q[j + 1] \in DOMAIN g /\ g[q[j + 1]].osm_id = nodes[j + 1]
        /\ \E e \in EdgesOf(g, q[j]) : e.to = q[j + 1]
    BY <2>1 DEF Trail
  <2>3. /\ p[i + j - 1] \in DOMAIN g /\ p[i + j] \in DOMAIN g /\ g[p[i + j]].osm_id = nodes[j + 1]
        /\ \E e \in EdgesOf(g, p[i + j - 1]) : e.to = p[i + j]
    BY PathStep
  <2>4. p[i + j - 1] = q[j]
    BY <1>2
  <2>5. p[i + j] = q[j + 1]
    BY <2>2, <2>3, <2>4 DEF OneEdgePerOsm
  <2> QED  BY <2>1, <2>5
<1> HIDE DEF Same
<1>3. \A j \in 1 .. n : j \in Same
  BY <1>1, <1>2, StepByStep
<1> QED  BY <1>3 DEF Same

\* Where the walk of a restriction gets nowhere, no path goes along it.
LEMMA NoPathAlong ==
    ASSUME NEW g, OneEdgePerOsm(g), NEW nodes, Len(nodes) \in Nat, NEW q, NEW m \in 1 .. Len(nodes) - 1,
           Ends(g, nodes, q, m),
           NEW p, IsPath(g, p), NEW i \in Nat \ {0}, Along(g, p, i, nodes, Len(nodes)), p[i] = nodes[1]
    PROVE  FALSE
<1>1. \A j \in 1 .. m : j \in 1 .. Len(nodes)
  OBVIOUS
<1>2. Along(g, p, i, nodes, m)
  BY <1>1 DEF Along
<1>3. p[i + m - 1] = q[m]
  <2>1. m \in Nat \ {0} /\ m \in 1 .. m
    OBVIOUS
  <2>2. \A j \in 1 .. m : p[i + j - 1] = q[j]
    BY <1>2, <2>1, OnePath DEF Ends
  <2> QED  BY <2>1, <2>2
<1>4. /\ p[i + m - 1] \in DOMAIN g /\ p[i + m] \in DOMAIN g /\ g[p[i + m]].osm_id = nodes[m + 1]
      /\ \E e \in EdgesOf(g, p[i + m - 1]) : e.to = p[i + m]
  BY PathStep
<1> QED  BY <1>3, <1>4 DEF Ends

\* The edges that a change leaves of those of the original, or adds.
IsRelinked(g, change, h) ==
    \A id \in DOMAIN h : \A e \in EdgesOf(h, id) :
        \/ /\ e \in EdgesOf(g, Original(change, id))
           /\ [from |-> id, to |-> e.to] \notin change.edges_to_remove
        \/ \E a \in change.edges_to_add : a.from = id /\ a.to = e.to

\* An edge is from the k-th place of a walk to a new node at the next one.  If its
\* start is at another place too, neither that nor the one after has a new node.
LeadsToClone(nodes, change, c, a, k) ==
    LET clones == DOMAIN change.new_nodes IN
    /\ a.from = c[k] /\ a.to = c[k + 1] /\ c[k + 1] \in clones
    /\ \A j \in 1 .. Len(nodes) - 1 :
          c[j] = c[k] => j = k \/ (j < k /\ c[j] \notin clones /\ c[j + 1] \notin clones)

LEMMA AddedEdge ==
    ASSUME NEW g, NEW nodes, Len(nodes) \in Nat, NEW change, NEW c, Follows(g, nodes, change, c, Len(nodes)),
           NEW a \in change.edges_to_add
    PROVE  \E k \in 1 .. Len(nodes) - 2 : LeadsToClone(nodes, change, c, a, k)
<1> DEFINE clones == DOMAIN change.new_nodes
           N == Len(nodes)
<1>1. PICK i \in 2 .. N : a.from = c[i - 1] /\ a.to = c[i] /\ c[i] \in clones
  BY DEF Follows, Relinks
<1>2. /\ c[1] \notin clones /\ c[N] \notin clones
      /\ \A j, k \in 2 .. N : j <= k /\ k < N /\ c[j] \in clones => c[k] \in clones
      /\ \A j, k \in 2 .. N : c[j] \in clones /\ c[j] = c[k] => j = k
  BY DEF Follows, Leads, Relinks, Parts
<1> DEFINE k == i - 1
<1>3. k \in 1 .. N - 2 /\ k + 1 = i
  BY <1>1, <1>2
<1> HIDE DEF k, clones
<1>4. ASSUME NEW j \in 1 .. N - 1, c[j] = c[k], j # k
      PROVE  j < k /\ c[j] \notin clones /\ c[j + 1] \notin clones
  <2>1. c[j] \notin clones
    BY <1>2, <1>3, <1>4
  <2>2. ~ j > k
    <3>1. j > k => k + 1 \in 2 .. N /\ j \in 2 .. N /\ k + 1 <= j /\ j < N
      BY <1>3
    <3> QED  BY <1>1, <1>2, <1>3, <2>1, <3>1
  <2>3. j < k
    BY <1>3, <1>4, <2>2
  <2>4. c[j + 1] \notin clones
    <3>1. j + 1 \in 2 .. N /\ k \in 2 .. N /\ j + 1 <= k /\ k < N
      BY <1>3, <2>3
    <3> QED  BY <1>2, <1>4, <2>1, <3>1
  <2> QED  BY <2>1, <2>3, <2>4
<1>5. a.from = c[k] /\ a.to = c[k + 1] /\ c[k + 1] \in clones
  <2>1. i - 1 = k
    BY DEF k
  <2> QED  BY <1>1, <1>3, <2>1
<1>6. LeadsToClone(nodes, change, c, a, k)
  <2>1. \A j \in 1 .. N - 1 : c[j] = c[k] => j = k \/ (j < k /\ c[j] \notin clones /\ c[j + 1] \notin clones)
    BY <1>4
  <2> QED  BY <1>5, <2>1 DEF clones, LeadsToClone
<1> QED  BY <1>3, <1>6

\* What a change along a walk makes of a graph.
IsRestricted(g, nodes, change, c, h) ==
    /\ IsGraph(g) /\ NoEdgeDangles(g) /\ OneEdgePerOsm(g)
    /\ IsChanged(g, change, h) /\ IsRelinked(g, change, h)
    /\ Len(nodes) \in Nat /\ Follows(g, nodes, change, c, Len(nodes))
    /\ DOMAIN g \cap DOMAIN change.new_nodes = {}

LEMMA FollowsNext ==
    ASSUME NEW g, NEW nodes, NEW change, NEW c, NEW n \in Nat, Follows(g, nodes, change, c, n),
           NEW j \in 1 .. n - 1
    PROVE  LET from == Original(change, c[j])
               to == Original(change, c[j + 1])
           IN  /\ from \in DOMAIN g /\ to \in DOMAIN g /\ g[to].osm_id = nodes[j + 1]
               /\ \E e \in EdgesOf(g, from) : e.to = to
               /\ c[j + 1] \in DOMAIN change.new_nodes =>
                     [from |-> c[j], to |-> to] \in change.edges_to_remove
<1>1. j + 1 \in 2 .. n /\ (j + 1) - 1 = j
  OBVIOUS
<1>2. LET from == Original(change, c[(j + 1) - 1])
          to == Original(change, c[j + 1])
      IN  /\ from \in DOMAIN g /\ to \in DOMAIN g /\ g[to].osm_id = nodes[j + 1]
          /\ \E e \in EdgesOf(g, from) : e.to = to
  BY <1>1 DEF Follows, Leads
<1>3. c[j + 1] \in DOMAIN change.new_nodes =>
          [from |-> c[(j + 1) - 1], to |-> Original(change, c[j + 1])] \in change.edges_to_remove
  BY <1>1 DEF Follows, Relinks
<1> QED  BY <1>1, <1>2, <1>3

\* From each place of the walk, the next is the only one of its OSM node to go to.
LEMMA NextOnWalk ==
    ASSUME NEW g, NEW nodes, NEW change, NEW c, NEW h, IsRestricted(g, nodes, change, c, h),
           NEW j \in 1 .. Len(nodes) - 1, c[j] \in DOMAIN h,
           NEW e \in EdgesOf(h, c[j]), h[e.to].osm_id = nodes[j + 1]
    PROVE  e.to = c[j + 1]
<1> DEFINE N == Len(nodes)
           clones == DOMAIN change.new_nodes
           O(i) == Original(change, c[i])
<1>1. N \in Nat /\ Follows(g, nodes, change, c, N) /\ IsGraph(g)
  BY DEF IsRestricted
<1>2. \A i \in 1 .. N - 1 :
          /\ O(i) \in DOMAIN g /\ O(i + 1) \in DOMAIN g /\ g[O(i + 1)].osm_id = nodes[i + 1]
          /\ \E d \in EdgesOf(g, O(i)) : d.to = O(i + 1)
          /\ c[i + 1] \in clones => [from |-> c[i], to |-> O(i + 1)] \in change.edges_to_remove
  BY <1>1, FollowsNext
<1>3. \A i : c[i] \notin clones => O(i) = c[i]
  BY DEF Original
<1>4. \A id \in DOMAIN g : id \in DOMAIN h /\ h[id].osm_id = g[id].osm_id
  BY DEF IsRestricted, IsChanged
<1>5. ASSUME NEW d \in EdgesOf(g, O(j)), d.to \in DOMAIN g, g[d.to].osm_id = nodes[j + 1]
      PROVE  d.to = O(j + 1)
  <2>1. PICK f \in EdgesOf(g, O(j)) : f.to = O(j + 1)
    BY <1>2
  <2>2. O(j) \in DOMAIN g /\ f.to \in DOMAIN g /\ g[f.to].osm_id = nodes[j + 1]
    BY <1>2, <2>1
  <2> HIDE DEF O
  <2> QED  BY <1>5, <2>1, <2>2 DEF IsRestricted, OneEdgePerOsm
<1>6. CASE e \in EdgesOf(g, O(j)) /\ [from |-> c[j], to |-> e.to] \notin change.edges_to_remove
  <2>1. e.to \in DOMAIN g
    BY <1>2, <1>6 DEF IsRestricted, NoEdgeDangles
  <2>2. e.to = O(j + 1)
    BY <1>4, <1>5, <1>6, <2>1
  <2> HIDE DEF O, clones
  <2>3. c[j + 1] \notin clones
    BY <1>2, <1>6, <2>2
  <2> QED  BY <1>3, <2>2, <2>3
<1>7. ASSUME NEW a \in change.edges_to_add, a.from = c[j], a.to = e.to
      PROVE  e.to = c[j + 1]
  <2>0. PICK k \in 1 .. N - 2 : LeadsToClone(nodes, change, c, a, k)
    BY <1>1, AddedEdge
  <2>1. /\ a.from = c[k] /\ a.to = c[k + 1] /\ c[k + 1] \in clones
        /\ \A i \in 1 .. N - 1 :
              c[i] = c[k] => i = k \/ (i < k /\ c[i] \notin clones /\ c[i + 1] \notin clones)
    BY <2>0 DEF LeadsToClone
  <2> SUFFICES ASSUME j # k
               PROVE  FALSE
    BY <1>7, <2>1
  <2>2. j < k /\ c[j] \notin clones /\ c[j + 1] \notin clones /\ c[j] = c[k]
    BY <1>7, <2>1
  <2>3. k \in 2 .. N - 2 /\ k \in 1 .. N - 1 /\ j + 1 \in 2 .. N /\ j + 1 < N /\ k + 1 \in 3 .. N /\ (k + 1) - 1 = k
    BY <1>1, <2>2
\* They would lead to the same node: to a new one of a canonical node, and to a
\* clone of an earlier restriction.
  <2>4. O(k + 1) = nodes[k + 1]
    BY <1>1, <2>1, <2>2, <2>3 DEF Follows, Parts
  <2>5. c[j + 1] # nodes[j + 1]
    BY <1>1, <2>2, <2>3 DEF Follows, Parts
  <2>6. O(j) = O(k) /\ O(j + 1) = c[j + 1]
    BY <1>3, <2>2
  <2>7. h[e.to].osm_id = nodes[k + 1]
    <3>1. e.to = c[k + 1] /\ e.to \in DOMAIN h
      BY <1>7, <2>1 DEF IsRestricted, IsChanged
    <3>2. h[e.to].osm_id = g[O(k + 1)].osm_id
      BY <3>1 DEF IsRestricted, IsChanged
    <3> QED  BY <1>2, <2>3, <3>2
  <2>8. O(k + 1) = O(j + 1)
    <3>1. PICK d \in EdgesOf(g, O(k)) : d.to = O(k + 1)
      BY <1>2, <2>3
    <3>2. d.to \in DOMAIN g /\ g[d.to].osm_id = nodes[j + 1]
      BY <1>2, <2>3, <2>7, <3>1
    <3> QED  BY <1>5, <2>6, <3>1, <3>2
  <2> QED  BY <2>4, <2>5, <2>6, <2>7, <2>8
<1> QED  BY <1>6, <1>7 DEF IsRestricted, IsRelinked

\* A path along the walk is on its clones.
LEMMA PathIsOnWalk ==
    ASSUME NEW g, NEW nodes, NEW change, NEW c, NEW h, IsRestricted(g, nodes, change, c, h),
           NEW p, IsPath(h, p), NEW i \in Nat \ {0}, NEW m \in 1 .. Len(nodes),
           Along(h, p, i, nodes, m), p[i] = nodes[1]
    PROVE  \A j \in 1 .. m : p[i + j - 1] = c[j]
<1> DEFINE On == {j \in 1 .. m : p[i + j - 1] = c[j]}
<1>1. Len(nodes) \in Nat /\ c[1] = nodes[1] /\ m \in Nat
  BY DEF IsRestricted, Follows, Leads
<1>2. 1 \in On
  BY <1>1, i + 1 - 1 = i
<1>3. ASSUME NEW j \in 1 .. m - 1, j \in On
      PROVE  j + 1 \in On
  <2>1. /\ p[i + j - 1] \in DOMAIN h /\ h[p[i + j]].osm_id = nodes[j + 1]
        /\ \E e \in EdgesOf(h, p[i + j - 1]) : e.to = p[i + j]
    BY <1>1, PathStep, SMTT(30)
  <2>2. p[i + j - 1] = c[j]
    BY <1>3
  <2>3. PICK e \in EdgesOf(h, c[j]) : e.to = p[i + j]
    BY <2>1, <2>2
  <2>4. j \in 1 .. Len(nodes) - 1 /\ c[j] \in DOMAIN h /\ h[e.to].osm_id = nodes[j + 1]
    BY <1>1, <2>1, <2>2, <2>3
  <2>5. e.to = c[j + 1]
    BY <2>4, NextOnWalk
  <2>6. i + (j + 1) - 1 = i + j /\ j + 1 \in 1 .. m
    BY <1>1
  <2> QED  BY <2>3, <2>5, <2>6
<1> HIDE DEF On
<1>4. \A j \in 1 .. m : j \in On
  BY <1>1, <1>2, <1>3, StepByStep
<1> QED  BY <1>4 DEF On

\* An edge that is kept and one that is added do not lead to the same OSM node.
LEMMA KeptOrAdded ==
    ASSUME NEW g, NEW nodes, NEW change, NEW c, NEW h, IsRestricted(g, nodes, change, c, h),
           NEW id \in DOMAIN h,
           NEW d \in EdgesOf(g, Original(change, id)), [from |-> id, to |-> d.to] \notin change.edges_to_remove,
           NEW a \in change.edges_to_add, a.from = id
    PROVE  d.to \in DOMAIN h /\ a.to \in DOMAIN h /\ h[d.to].osm_id # h[a.to].osm_id
<1> DEFINE N == Len(nodes)
           from == Original(change, id)
<1>1. N \in Nat /\ Follows(g, nodes, change, c, N)
  BY DEF IsRestricted
<1>2. PICK k \in 1 .. N - 2 : LeadsToClone(nodes, change, c, a, k)
  BY <1>1, AddedEdge
<1> DEFINE to == Original(change, c[k + 1])
<1>3. a.from = c[k] /\ a.to = c[k + 1] /\ c[k + 1] \in DOMAIN change.new_nodes
  BY <1>2 DEF LeadsToClone
<1>4. /\ from \in DOMAIN g /\ to \in DOMAIN g
      /\ \E e \in EdgesOf(g, from) : e.to = to
      /\ [from |-> id, to |-> to] \in change.edges_to_remove
  <2>1. N \in Nat /\ k \in 1 .. N - 1
    BY <1>1
  <2>2. /\ Original(change, c[k]) \in DOMAIN g /\ to \in DOMAIN g
        /\ \E e \in EdgesOf(g, Original(change, c[k])) : e.to = to
        /\ c[k + 1] \in DOMAIN change.new_nodes => [from |-> c[k], to |-> to] \in change.edges_to_remove
    BY <1>1, <2>1, FollowsNext
  <2> QED  BY <1>3, <2>2
<1>5. /\ a.to \in DOMAIN h /\ h[a.to].osm_id = g[to].osm_id
  BY <1>3 DEF IsRestricted, IsChanged
<1>6. d.to \in DOMAIN g
  BY <1>4 DEF IsRestricted, NoEdgeDangles
<1>7. d.to \in DOMAIN h /\ h[d.to].osm_id = g[d.to].osm_id
  BY <1>6 DEF IsRestricted, IsChanged
<1> HIDE DEF from, to
<1>8. d.to # to
  BY <1>4
<1>9. g[d.to].osm_id # g[to].osm_id
  BY <1>4, <1>6, <1>8 DEF IsRestricted, OneEdgePerOsm, from
<1> QED  BY <1>5, <1>7, <1>9

\* There is still one edge at most to each OSM node.
LEMMA RestrictedOneEdge ==
    ASSUME NEW g, NEW nodes, NEW change, NEW c, NEW h, IsRestricted(g, nodes, change, c, h)
    PROVE  OneEdgePerOsm(h)
<1> SUFFICES ASSUME NEW id \in DOMAIN h, NEW d \in EdgesOf(h, id), NEW e \in EdgesOf(h, id),
                    d.to \in DOMAIN h, e.to \in DOMAIN h, h[d.to].osm_id = h[e.to].osm_id
             PROVE  d.to = e.to
  BY DEF OneEdgePerOsm
<1> DEFINE from == Original(change, id)
           IsKept(f) == f \in EdgesOf(g, from) /\ [from |-> id, to |-> f.to] \notin change.edges_to_remove
           IsAdded(f) == \E a \in change.edges_to_add : a.from = id /\ a.to = f.to
<1>1. (IsKept(d) \/ IsAdded(d)) /\ (IsKept(e) \/ IsAdded(e))
  BY DEF IsRestricted, IsRelinked
<1>2. from \in DOMAIN g /\ \A x \in DOMAIN g : x \in DOMAIN h /\ h[x].osm_id = g[x].osm_id
  BY DEF IsRestricted, IsChanged
<1>3. CASE IsKept(d) /\ IsKept(e)
  <2>1. d.to \in DOMAIN g /\ e.to \in DOMAIN g
    BY <1>2, <1>3 DEF IsRestricted, NoEdgeDangles
  <2>2. g[d.to].osm_id = g[e.to].osm_id
    BY <1>2, <2>1
  <2> HIDE DEF from
  <2> QED  BY <1>2, <1>3, <2>1, <2>2 DEF IsRestricted, OneEdgePerOsm
<1>4. ~ (IsKept(d) /\ IsAdded(e))
  <2> SUFFICES ASSUME IsKept(d), NEW a \in change.edges_to_add, a.from = id, a.to = e.to
               PROVE  FALSE
    OBVIOUS
  <2>1. h[d.to].osm_id # h[a.to].osm_id
    BY KeptOrAdded
  <2> QED  BY <2>1
<1>5. ~ (IsAdded(d) /\ IsKept(e))
  <2> SUFFICES ASSUME IsKept(e), NEW a \in change.edges_to_add, a.from = id, a.to = d.to
               PROVE  FALSE
    OBVIOUS
  <2>1. h[e.to].osm_id # h[a.to].osm_id
    BY KeptOrAdded
  <2> QED  BY <2>1
<1>6. CASE IsAdded(d) /\ IsAdded(e)
  <2>1. Len(nodes) \in Nat /\ Follows(g, nodes, change, c, Len(nodes))
    BY DEF IsRestricted
  <2>2. PICK a \in change.edges_to_add : a.from = id /\ a.to = d.to
    BY <1>6
  <2>3. PICK b \in change.edges_to_add : b.from = id /\ b.to = e.to
    BY <1>6
  <2>4. PICK k \in 1 .. Len(nodes) - 2 : LeadsToClone(nodes, change, c, a, k)
    BY <2>1, AddedEdge
  <2>5. PICK l \in 1 .. Len(nodes) - 2 : LeadsToClone(nodes, change, c, b, l)
    BY <2>1, AddedEdge
  <2>6. k \in 1 .. Len(nodes) - 1 /\ l \in 1 .. Len(nodes) - 1 /\ c[k] = c[l]
    BY <2>1, <2>2, <2>3, <2>4, <2>5 DEF LeadsToClone
  <2>7. k = l
    BY <2>4, <2>5, <2>6 DEF LeadsToClone
  <2> QED  BY <2>2, <2>3, <2>4, <2>5, <2>7 DEF LeadsToClone
<1> QED  BY <1>1, <1>3, <1>4, <1>5, <1>6

\* The last edge of a prohibitory restriction is gone, ...
LEMMA LastEdgeIsGone ==
    ASSUME NEW g, NEW nodes, NEW change, NEW c, NEW h, IsRestricted(g, nodes, change, c, h),
           Len(nodes) >= 2,
           [from |-> c[Len(nodes) - 1], to |-> c[Len(nodes)]] \in change.edges_to_remove,
           NEW p, IsPath(h, p), NEW i \in Nat \ {0}, Along(h, p, i, nodes, Len(nodes)), p[i] = nodes[1]
    PROVE  FALSE
<1> DEFINE N == Len(nodes)
<1>1. N \in Nat /\ Follows(g, nodes, change, c, N)
  BY DEF IsRestricted
<1>2. PICK n \in 1 .. N - 1 : n = N - 1
  BY <1>1
<1>3. \A j \in 1 .. N : p[i + j - 1] = c[j]
  BY <1>1, N \in 1 .. N, PathIsOnWalk
<1>4. p[i + n - 1] = c[N - 1] /\ p[i + n] = c[N]
  <2>1. i + n = i + N - 1 /\ n \in 1 .. N /\ N \in 1 .. N
    BY <1>1, <1>2
  <2> QED  BY <1>2, <1>3, <2>1
<1>5. p[i + n - 1] \in DOMAIN h /\ \E e \in EdgesOf(h, p[i + n - 1]) : e.to = p[i + n]
  <2>1. Len(nodes) \in Nat
    BY <1>1
  <2>2. n \in 1 .. Len(nodes) - 1
    OBVIOUS
  <2> HIDE DEF N
  <2> QED  BY <2>1, <2>2, PathStep
<1>6. PICK e \in EdgesOf(h, c[N - 1]) : e.to = c[N]
  BY <1>4, <1>5
<1>7. c[N - 1] \in DOMAIN h
  BY <1>4, <1>5
<1>8. PICK a \in change.edges_to_add : a.from = c[N - 1] /\ a.to = c[N]
  BY <1>6, <1>7 DEF IsRestricted, IsRelinked
<1>9. c[N] \in DOMAIN change.new_nodes
  <2>1. PICK k \in 1 .. N - 2 : LeadsToClone(nodes, change, c, a, k)
    BY <1>1, AddedEdge
  <2> QED  BY <1>8, <2>1 DEF LeadsToClone
<1> QED  BY <1>1, <1>9 DEF Follows, Parts

\* ... and so are all edges that leave a mandatory one.
OnlyAhead(g, nodes, change, c) ==
    \A k \in 2 .. Len(nodes) - 1 :
        /\ \A e \in EdgesOf(g, Original(change, c[k])) :
              e.to # c[k + 1] => [from |-> c[k], to |-> e.to] \in change.edges_to_remove
        /\ \A a \in change.edges_to_add : a.from = c[k] => a.to = c[k + 1]

LEMMA NoEdgeLeaves ==
    ASSUME NEW g, NEW nodes, NEW change, NEW c, NEW h, IsRestricted(g, nodes, change, c, h),
           OnlyAhead(g, nodes, change, c), Len(nodes) >= 2,
           NEW p, IsPath(h, p), NEW i \in Nat \ {0}, Along(h, p, i, nodes, 2), p[i] = nodes[1]
    PROVE  \A m \in 1 .. Len(nodes) : i + m - 1 <= Len(p) => Along(h, p, i, nodes, m)
<1> DEFINE N == Len(nodes)
           S == {m \in 1 .. N : i + m - 1 <= Len(p) => Along(h, p, i, nodes, m)}
<1>1. N \in Nat /\ Follows(g, nodes, change, c, N) /\ p \in Seq(DOMAIN h) /\ Len(p) \in Nat
  BY DEF IsRestricted, IsPath
<1>4. \A j \in 1 .. N - 1 : g[Original(change, c[j + 1])].osm_id = nodes[j + 1]
  <2>1. N \in Nat /\ Follows(g, nodes, change, c, N)
    BY <1>1
  <2> HIDE DEF N
  <2>2. \A j \in 1 .. N - 1 :
            LET from == Original(change, c[j])
                to == Original(change, c[j + 1])
            IN  /\ from \in DOMAIN g /\ to \in DOMAIN g /\ g[to].osm_id = nodes[j + 1]
                /\ \E e \in EdgesOf(g, from) : e.to = to
                /\ c[j + 1] \in DOMAIN change.new_nodes =>
                      [from |-> c[j], to |-> to] \in change.edges_to_remove
    BY <2>1, FollowsNext
  <2> QED  BY <2>2
<1>2. 1 \in S
  <2>1. \A j \in 1 .. 1 : j \in 1 .. 2
    OBVIOUS
  <2> QED  BY <1>1, <2>1 DEF Along
<1>3. ASSUME NEW m \in 1 .. N - 1, m \in S
      PROVE  m + 1 \in S
  <2>0. m + 1 \in 1 .. N /\ i + (m + 1) - 1 = i + m
    BY <1>1
  <2> SUFFICES ASSUME i + m <= Len(p)
               PROVE  Along(h, p, i, nodes, m + 1)
    BY <2>0
  <2>1. CASE m = 1
    BY <2>1
  <2>2. CASE m # 1
    <3>1. m \in 2 .. N - 1 /\ m \in 1 .. N
      BY <1>1, <2>2
    <3>2. Along(h, p, i, nodes, m)
      BY <1>1, <1>3
    <3>3. p[i + m - 1] = c[m]
      <4>1. \A j \in 1 .. m : p[i + j - 1] = c[j]
        BY <3>1, <3>2, PathIsOnWalk
      <4> QED  BY <1>1, <4>1, m \in 1 .. m
    <3>4. i + m - 1 \in 1 .. Len(p) - 1 /\ (i + m - 1) + 1 = i + m /\ i + m - 1 \in 1 .. Len(p)
      BY <1>1
    <3>5. \E e \in EdgesOf(h, p[i + m - 1]) : e.to = p[(i + m - 1) + 1]
      BY <3>4 DEF IsPath
    <3>6. PICK e \in EdgesOf(h, c[m]) : e.to = p[i + m]
      BY <3>3, <3>4, <3>5
    <3>7. c[m] \in DOMAIN h
      BY <1>1, <3>3, <3>4
    <3>8. e.to = c[m + 1]
      <4>1. \/ /\ e \in EdgesOf(g, Original(change, c[m]))
               /\ [from |-> c[m], to |-> e.to] \notin change.edges_to_remove
            \/ \E a \in change.edges_to_add : a.from = c[m] /\ a.to = e.to
        BY <3>6, <3>7 DEF IsRestricted, IsRelinked
      <4> QED  BY <3>1, <4>1 DEF OnlyAhead
    <3>9. h[p[i + m]].osm_id = nodes[m + 1]
      <4>1. p[i + m] = c[m + 1] /\ p[i + m] \in DOMAIN h
        <5>1. i + m \in 1 .. Len(p)
          BY <1>1, <3>4
        <5>2. p[i + m] \in DOMAIN h
          BY <1>1, <5>1
        <5> QED  BY <3>6, <3>8, <5>2
      <4>2. h[c[m + 1]].osm_id = g[Original(change, c[m + 1])].osm_id
        BY <4>1 DEF IsRestricted, IsChanged
      <4>3. g[Original(change, c[m + 1])].osm_id = nodes[m + 1]
        BY <1>4
      <4> QED  BY <4>1, <4>2, <4>3
    <3>10. ASSUME NEW j \in 1 .. m + 1
           PROVE  i + j - 1 \in 1 .. Len(p) /\ h[p[i + j - 1]].osm_id = nodes[j]
      <4>1. CASE j = m + 1
        BY <1>1, <3>9, <4>1
      <4>2. CASE j # m + 1
        <5>1. j \in 1 .. m
          BY <4>2
        <5> QED  BY <3>2, <5>1 DEF Along
      <4> QED  BY <4>1, <4>2
    <3> QED  BY <3>10 DEF Along
  <2> QED  BY <2>1, <2>2
<1> HIDE DEF S
<1>5. \A m \in 1 .. N : m \in S
  BY <1>1, <1>2, <1>3, StepByStep
<1> QED  BY <1>5 DEF S

LEMMA OccursAlong ==
    ASSUME NEW h, NEW p, IsPath(h, p), NEW nodes \in Seq(Int), nodes # << >>, HasNoClone(h, nodes[1]),
           NEW i \in DOMAIN Trace(h, p), Occurs(nodes, Trace(h, p), i)
    PROVE  i \in Nat \ {0} /\ Along(h, p, i, nodes, Len(nodes)) /\ p[i] = nodes[1]
<1>1. DOMAIN Trace(h, p) = 1 .. Len(p) /\ DOMAIN nodes = 1 .. Len(nodes) /\ Len(p) \in Nat /\ p \in Seq(DOMAIN h)
  BY DEF IsPath, Trace
<1>2. \A x \in 1 .. Len(p) : Trace(h, p)[x] = h[p[x]].osm_id
  BY <1>1 DEF Trace
<1>3. Along(h, p, i, nodes, Len(nodes))
  BY <1>1, <1>2 DEF Occurs, Along
<1>4. h[p[i]].osm_id = nodes[1] /\ p[i] \in DOMAIN h
  <2>1. 1 \in 1 .. Len(nodes) /\ i + 1 - 1 = i
    BY <1>1
  <2> QED  BY <1>1, <1>3, <2>1 DEF Along
<1> QED  BY <1>1, <1>3, <1>4 DEF HasNoClone, OsmId

\* A graph without a path along a restriction abides by its prohibition, ...
LEMMA ProhibitionHolds ==
    ASSUME NEW h, NEW nodes \in Seq(Int), nodes # << >>, HasNoClone(h, nodes[1]),
           \A p : \A i \in Nat \ {0} :
              IsPath(h, p) /\ Along(h, p, i, nodes, Len(nodes)) => p[i] # nodes[1]
    PROVE  Abides(h, {[kind |-> "prohibitory", nodes |-> nodes]})
<1> SUFFICES ASSUME NEW p, IsPath(h, p), NEW i \in DOMAIN Trace(h, p), Occurs(nodes, Trace(h, p), i)
             PROVE  FALSE
  BY DEF Abides, Lawful, Prohibits
<1> QED  BY OccursAlong

\* ... and one whose paths do not leave it by its mandate.
LEMMA MandateHolds ==
    ASSUME NEW h, NEW nodes \in Seq(Int), Len(nodes) >= 2, HasNoClone(h, nodes[1]),
           \A p : \A i \in Nat \ {0} :
              IsPath(h, p) /\ Along(h, p, i, nodes, 2) /\ p[i] = nodes[1] =>
                  \A m \in 1 .. Len(nodes) : i + m - 1 <= Len(p) => Along(h, p, i, nodes, m)
    PROVE  Abides(h, {[kind |-> "mandatory", nodes |-> nodes]})
<1> DEFINE start == <<nodes[1], nodes[2]>>
<1> SUFFICES ASSUME NEW p, IsPath(h, p), NEW i \in DOMAIN Trace(h, p), Occurs(start, Trace(h, p), i),
                    NEW m \in DOMAIN nodes, i + m - 1 \in DOMAIN Trace(h, p),
                    Trace(h, p)[i + m - 1] # nodes[m]
             PROVE  FALSE
  BY SMTT(30) DEF Abides, Lawful, Deviates
<1>1. start \in Seq(Int) /\ start # << >> /\ start[1] = nodes[1] /\ start[2] = nodes[2] /\ Len(start) = 2
  OBVIOUS
<1>2. /\ DOMAIN Trace(h, p) = 1 .. Len(p) /\ DOMAIN nodes = 1 .. Len(nodes) /\ Len(p) \in Nat
      /\ Trace(h, p)[i + m - 1] = h[p[i + m - 1]].osm_id
  BY DEF IsPath, Trace
<1> HIDE DEF start
<1>3. i \in Nat \ {0} /\ Along(h, p, i, start, 2) /\ p[i] = nodes[1]
  <2>1. HasNoClone(h, start[1])
    BY <1>1
  <2>2. i \in Nat \ {0} /\ Along(h, p, i, start, Len(start)) /\ p[i] = start[1]
    <3>1. start \in Seq(Int) /\ start # << >>
      BY <1>1
    <3>2. i \in DOMAIN Trace(h, p) /\ Occurs(start, Trace(h, p), i)
      OBVIOUS
    <3>3. IsPath(h, p)
      OBVIOUS
    <3> QED  BY <2>1, <3>1, <3>2, <3>3, OccursAlong
  <2> QED  BY <1>1, <2>2
<1>4. Along(h, p, i, nodes, 2)
  <2>1. \A j \in 1 .. 2 : start[j] = nodes[j]
    <3>1. \A j \in 1 .. 2 : j = 1 \/ j = 2
      OBVIOUS
    <3> QED  BY <1>1, <3>1
  <2> QED  BY <1>3, <2>1 DEF Along
<1>5. Along(h, p, i, nodes, m)
  BY <1>2, <1>3, <1>4
<1>6. m \in 1 .. m
  BY <1>2
<1> QED  BY <1>2, <1>5, <1>6 DEF Along

---------------------------------------------------------------------------
(* What store_restriction and GraphChange::apply do along a walk *)

LEMMA FollowsMore ==
    ASSUME NEW g, NEW nodes, NEW change, NEW c, NEW n, Follows(g, nodes, change, c, n),
           NEW more, more.new_nodes = change.new_nodes,
           change.edges_to_remove \subseteq more.edges_to_remove, more.edges_to_add \subseteq change.edges_to_add
    PROVE  Follows(g, nodes, more, c, n)
<1>1. \A x : Original(more, x) = Original(change, x)
  BY DEF Original
<1>2. Leads(g, nodes, more, c, n)
  BY <1>1 DEF Follows, Leads
<1>3. Relinks(more, c, n)
  BY <1>1 DEF Follows, Relinks
<1>4. Parts(nodes, more, c, n)
  BY <1>1 DEF Follows, Parts
<1> QED  BY <1>2, <1>3, <1>4 DEF Follows

\* What a restriction asks for, if its walk gets to its end.
LEMMA ChangeFollows ==
    ASSUME NEW g, IsGraph(g), NEW counter \in Nat, NoIdBeyond(g, counter),
           NEW nodes \in Seq(Int), nodes # << >>, NEW kind \in {"mandatory", "prohibitory"},
           ClonedNodes(g, counter, nodes).ok
    PROVE  LET change == RestrictionChange(g, counter, nodes, kind)
               c == ClonedNodes(g, counter, nodes).cloned_nodes
               N == Len(nodes)
           IN  /\ Follows(g, nodes, change, c, N)
               /\ kind = "prohibitory" => [from |-> c[N - 1], to |-> c[N]] \in change.edges_to_remove
               /\ kind = "mandatory" => OnlyAhead(g, nodes, change, c)
<1> DEFINE walk == ClonedNodes(g, counter, nodes)
           c == walk.cloned_nodes
           N == Len(nodes)
           pair == [from |-> c[N - 1], to |-> c[N]]
           change == RestrictionChange(g, counter, nodes, kind)
<1>1. /\ Len(c) = N /\ Follows(g, nodes, walk.change, c, N)
      /\ walk.change \in Changes(g)
  BY ClonedNodesFollow DEF IsOnWay, Progress
<1>2. CASE kind = "prohibitory"
  <2>1. change = [walk.change EXCEPT !.edges_to_remove = @ \cup {pair}]
    BY <1>1, <1>2 DEF RestrictionChange
  <2> HIDE DEF walk, pair
  <2>2. /\ change.new_nodes = walk.change.new_nodes
        /\ change.edges_to_remove = walk.change.edges_to_remove \cup {pair}
        /\ change.edges_to_add = walk.change.edges_to_add
    BY <1>1, <2>1 DEF Changes
  <2> HIDE DEF change
  <2>3. Follows(g, nodes, change, c, N)
    BY <1>1, <2>2, FollowsMore
  <2> QED  BY <1>2, <2>2, <2>3 DEF walk, pair, change
<1>3. CASE kind = "mandatory"
  <2> DEFINE inner == 2 .. Len(c) - 1
             Others(i) == {e \in ToSet(GetEdges(g, Original(walk.change, c[i]))) : e.to # c[i + 1]}
             Pairs(i) == {[from |-> c[i], to |-> e.to] : e \in Others(i)}
  <2>1. change = OnlyEdges(g, walk.change, c)
    BY <1>3 DEF RestrictionChange
  <2> HIDE DEF walk
  <2>2. /\ change.new_nodes = walk.change.new_nodes
        /\ change.edges_to_remove = walk.change.edges_to_remove \cup UNION {Pairs(i) : i \in inner}
        /\ change.edges_to_add =
              {e \in walk.change.edges_to_add : \A i \in inner : e.from = c[i] => e.to = c[i + 1]}
    BY <1>1, <2>1 DEF OnlyEdges, Changes
  <2> HIDE DEF change
  <2>3. Follows(g, nodes, change, c, N)
    BY <1>1, <2>2, FollowsMore
  <2>4. ASSUME NEW k \in inner
        PROVE  /\ \A e \in EdgesOf(g, Original(change, c[k])) :
                     e.to # c[k + 1] => [from |-> c[k], to |-> e.to] \in change.edges_to_remove
               /\ \A a \in change.edges_to_add : a.from = c[k] => a.to = c[k + 1]
    <3>1. \A a \in change.edges_to_add : a.from = c[k] => a.to = c[k + 1]
      BY <2>2
    <3>2. ASSUME NEW e \in EdgesOf(g, Original(change, c[k])), e.to # c[k + 1]
          PROVE  [from |-> c[k], to |-> e.to] \in Pairs(k)
      <4>1. Original(change, c[k]) = Original(walk.change, c[k]) /\ Original(change, c[k]) \in DOMAIN g
        <5>1. /\ k + 1 \in 2 .. N /\ (k + 1) - 1 = k
          BY <1>1, SMTT(30)
        <5>2. Original(change, c[(k + 1) - 1]) \in DOMAIN g
          BY <2>3, <5>1 DEF Follows, Leads
        <5>3. Original(change, c[k]) = Original(walk.change, c[k])
          BY <2>2, SMTT(30) DEF Original
        <5> QED  BY <5>1, <5>2, <5>3
      <4>2. e \in ToSet(GetEdges(g, Original(walk.change, c[k])))
        BY <4>1, EdgesOfGraph DEF EdgesOf
      <4> QED  BY <3>2, <4>2
    <3> HIDE DEF Pairs
    <3> QED  BY <2>2, <3>1, <3>2
  <2>5. OnlyAhead(g, nodes, change, c)
    BY <1>1, <2>4 DEF OnlyAhead
  <2> QED  BY <1>3, <2>3, <2>5 DEF walk, change
<1> QED  BY <1>2, <1>3

LEMMA AppliedRelinks ==
    ASSUME NEW g, IsGraph(g), NEW counter \in Nat, NoIdBeyond(g, counter),
           NEW change, IsSound(g, counter, change),
           NEW removals \in SetToSeqs(change.edges_to_remove),
           NEW additions \in SetToSeqs(change.edges_to_add)
    PROVE  IsRelinked(g, change, Applied(g, change, removals, additions))
<1> DEFINE h == Applied(g, change, removals, additions)
           w == WithClones(g, change)
           d == DeleteEdges(w, removals)
<1>1. /\ Len(removals) \in Nat /\ Len(additions) \in Nat
      /\ \A i \in 1 .. Len(additions) : additions[i] \in change.edges_to_add
      /\ \A x \in change.edges_to_remove : \E i \in 1 .. Len(removals) : removals[i] = x
  BY SeqsOfFiniteSet DEF IsSound
<1>2. \A i \in 1 .. Len(additions) : additions[i].cost \in Nat
  BY <1>1 DEF IsSound, StandsForEdge
<1>3. /\ IsGraph(w) /\ DOMAIN w = DOMAIN g \cup DOMAIN change.new_nodes
      /\ \A id \in DOMAIN w : Original(change, id) \in DOMAIN g /\ w[id] = g[Original(change, id)]
      /\ \A id \in DOMAIN g : Original(change, id) = id
  BY WithClonesResult
<1>4. h = SetEdges(d, additions)
  BY DEF Applied
<1> HIDE DEF w
<1>5. /\ SameNodes(w, d) /\ \A id \in DOMAIN w : EdgesOf(d, id) \subseteq EdgesOf(w, id)
      /\ \A i \in 1 .. Len(removals) :
            removals[i].from \in DOMAIN w => \A e \in EdgesOf(d, removals[i].from) : e.to # removals[i].to
  BY <1>1, <1>3, DeleteEdgesResult
<1> HIDE DEF d, h
<1>6. IsGraph(d) /\ DOMAIN d = DOMAIN w
  BY <1>3, <1>5, SameNodesFacts
<1>7. /\ SameNodes(d, h)
      /\ \A id \in DOMAIN d : \A e \in EdgesOf(h, id) : e \in EdgesOf(d, id) \/ IsSet(d, additions, id, e)
  BY <1>1, <1>2, <1>4, <1>6, SetEdgesResult
<1>8. DOMAIN h = DOMAIN w
  BY <1>6, <1>7, SameNodesFacts
<1>9. ASSUME NEW id \in DOMAIN w, NEW e \in EdgesOf(d, id)
      PROVE  e \in EdgesOf(g, Original(change, id)) /\ [from |-> id, to |-> e.to] \notin change.edges_to_remove
  <2>1. e \in EdgesOf(g, Original(change, id))
    BY <1>3, <1>5 DEF EdgesOf
  <2> SUFFICES ASSUME [from |-> id, to |-> e.to] \in change.edges_to_remove
               PROVE  FALSE
    BY <2>1
  <2>2. PICK i \in 1 .. Len(removals) : removals[i] = [from |-> id, to |-> e.to]
    BY <1>1
  <2>3. removals[i].from = id /\ removals[i].to = e.to
    BY <2>2
  <2> QED  BY <1>5, <2>3
<1>10. ASSUME NEW id \in DOMAIN h, NEW e \in EdgesOf(h, id), IsSet(d, additions, id, e)
       PROVE  \E a \in change.edges_to_add : a.from = id /\ a.to = e.to
  <2>1. PICK i \in 1 .. Len(additions) :
            additions[i].from = id /\ e = [to |-> additions[i].to, cost |-> additions[i].cost]
    BY <1>10 DEF IsSet
  <2>2. additions[i].to = e.to
    BY <2>1
  <2> QED  BY <1>1, <2>1, <2>2
<1> QED  BY <1>6, <1>7, <1>8, <1>9, <1>10 DEF h, IsRelinked

\* A restriction whose walk gets to its end, and one whose walk gets nowhere.
LEMMA RelationFollows ==
    ASSUME TypeInv, NEW r \in Read("relation"), AddRelation(r)
    PROVE  LET nodes == NodesOf(r)
               change == Change(r)
               walk == ClonedNodes(graph, phantom_node_id_counter, nodes)
               c == walk.cloned_nodes
               N == Len(nodes)
           IN  /\ nodes \in Seq(Int) /\ nodes # << >> /\ KindOf(r) \in {"mandatory", "prohibitory"}
               /\ IsChanged(graph, change, graph') /\ IsRelinked(graph, change, graph')
               /\ DOMAIN graph \cap DOMAIN change.new_nodes = {}
               /\ walk.ok =>
                     /\ Follows(graph, nodes, change, c, N)
                     /\ KindOf(r) = "prohibitory" =>
                           [from |-> c[N - 1], to |-> c[N]] \in change.edges_to_remove
                     /\ KindOf(r) = "mandatory" => OnlyAhead(graph, nodes, change, c)
               /\ ~ walk.ok =>
                     /\ DOMAIN change.new_nodes = {}
                     /\ \E m \in 1 .. N - 1 : \E q : Ends(graph, nodes, q, m)
<1> DEFINE counter == phantom_node_id_counter
           change == Change(r)
           nodes == NodesOf(r)
           kind == KindOf(r)
           walk == ClonedNodes(graph, counter, nodes)
           c == walk.cloned_nodes
           N == Len(nodes)
<1>1. r \in Features /\ r.type = "relation"
  BY ReadResult
<1>2. r.members \in Seq(ToSet(r.members)) /\ \A m \in ToSet(r.members) : m.type = "node" => m.ref \in Int
  BY <1>1, SessionsAssumption
<1>3. nodes # << >>
  BY DEF AddRelation
<1>4. kind \in {"mandatory", "prohibitory"} /\ nodes = RestrictionNodes(graph, way_nodes, r)
  BY <1>3 DEF NodesOf, KindOf, RestrictionKind
<1>5. nodes \in Seq(Int)
  BY <1>2, <1>4, RestrictionNodesResult DEF TypeInv
<1>6. IsGraph(graph) /\ counter \in Nat /\ NoIdBeyond(graph, counter)
  BY DEF TypeInv
<1>7. change = RestrictionChange(graph, counter, nodes, kind)
  BY DEF Change
<1>8. PICK removals \in SetToSeqs(change.edges_to_remove), additions \in SetToSeqs(change.edges_to_add) :
          graph' = Applied(graph, change, removals, additions)
  BY DEF AddRelation
<1>9. IsChanged(graph, change, graph')
  BY AddRelationResult
<1> HIDE DEF change, counter, nodes, kind, walk
<1>10. IsSound(graph, counter, change)
  BY <1>3, <1>4, <1>5, <1>6, <1>7, RestrictionChangeIsSound DEF NoIdBeyond
<1>11. IsRelinked(graph, change, graph')
  BY <1>6, <1>8, <1>10, AppliedRelinks, Zenon
<1>12. DOMAIN graph \cap DOMAIN change.new_nodes = {}
  <2>1. DOMAIN change.new_nodes \subseteq counter + 1 .. change.phantom_node_id_counter
    BY <1>10 DEF IsSound
  <2>2. \A id \in DOMAIN graph : id \in Int /\ id <= counter
    BY <1>6 DEF NoIdBeyond, IsGraph
  <2> QED  BY <1>6, <2>1, <2>2
<1>13. ASSUME walk.ok
       PROVE  /\ Follows(graph, nodes, change, c, N)
              /\ kind = "prohibitory" => [from |-> c[N - 1], to |-> c[N]] \in change.edges_to_remove
              /\ kind = "mandatory" => OnlyAhead(graph, nodes, change, c)
  BY <1>3, <1>4, <1>5, <1>6, <1>7, <1>13, ChangeFollows DEF walk
<1>14. ASSUME ~ walk.ok
       PROVE  DOMAIN change.new_nodes = {} /\ \E m \in 1 .. N - 1 : \E q : Ends(graph, nodes, q, m)
  <2>1. change = NoChange(counter)
    BY <1>4, <1>7, <1>14 DEF RestrictionChange, walk
  <2>2. IsOnWay(graph, nodes, walk, N)
    BY <1>3, <1>5, <1>6, ClonedNodesFollow DEF walk
  <2> QED  BY <1>14, <2>1, <2>2 DEF NoChange, IsOnWay
<1> QED  BY <1>3, <1>4, <1>5, <1>9, <1>11, <1>12, <1>13, <1>14 DEF change, counter, nodes, kind, walk

\* The part of a path that goes along a restriction.
LEMMA PartOfPath ==
    ASSUME NEW g, NEW p, IsPath(g, p), NEW i \in Nat \ {0}, NEW nodes \in Seq(Int), nodes # << >>,
           Along(g, p, i, nodes, Len(nodes))
    PROVE  LET q == [j \in 1 .. Len(nodes) |-> p[i + j - 1]] IN
           /\ IsPath(g, q) /\ Len(q) = Len(nodes) /\ Trace(g, q) = nodes
           /\ q # << >> /\ q[1] = p[i]
<1> DEFINE N == Len(nodes)
           q == [j \in 1 .. N |-> p[i + j - 1]]
<1>1. N \in Nat \ {0} /\ p \in Seq(DOMAIN g) /\ Len(p) \in Nat
  BY DEF IsPath
<1>2. \A j \in 1 .. N : /\ q[j] = p[i + j - 1] /\ q[j] \in DOMAIN g /\ g[q[j]].osm_id = nodes[j]
  <2>1. \A j \in 1 .. N : i + j - 1 \in 1 .. Len(p) /\ g[p[i + j - 1]].osm_id = nodes[j]
    BY DEF Along
  <2> QED  BY <1>1, <2>1
<1>3. q \in Seq(DOMAIN g) /\ Len(q) = N /\ DOMAIN q = 1 .. N
  BY <1>1, <1>2
<1>4. ASSUME NEW j \in 1 .. N - 1
      PROVE  \E e \in EdgesOf(g, q[j]) : e.to = q[j + 1]
  <2>1. \E e \in EdgesOf(g, p[i + j - 1]) : e.to = p[i + j]
    <3> DEFINE k == i + j - 1
    <3>1. k \in 1 .. Len(p) - 1 /\ k + 1 = i + j
      <4>1. j \in 1 .. N /\ j + 1 \in 1 .. N /\ i + (j + 1) - 1 = i + j
        BY <1>1
      <4>2. i + j - 1 \in 1 .. Len(p) /\ i + j \in 1 .. Len(p)
        BY <4>1 DEF Along
      <4> QED  BY <1>1, <4>2
    <3> HIDE DEF k
    <3>2. \E e \in EdgesOf(g, p[k]) : e.to = p[k + 1]
      BY <3>1 DEF IsPath
    <3> QED  BY <3>1, <3>2 DEF k
  <2>2. j \in 1 .. N /\ j + 1 \in 1 .. N /\ i + (j + 1) - 1 = i + j
    BY <1>1
  <2>3. q[j] = p[i + j - 1] /\ q[j + 1] = p[i + j]
    BY <1>2, <2>2
  <2> QED  BY <2>1, <2>3
<1>5. q[1] = p[i]
  <2>1. 1 \in 1 .. N /\ i + 1 - 1 = i
    BY <1>1
  <2> QED  BY <1>2, <2>1
<1> HIDE DEF q
<1>6. Trace(g, q) = nodes
  <2>1. nodes = [j \in 1 .. N |-> nodes[j]]
    OBVIOUS
  <2>2. Trace(g, q) = [j \in 1 .. N |-> g[q[j]].osm_id]
    BY <1>3 DEF Trace
  <2> QED  BY <1>2, <2>1, <2>2
<1> QED  BY <1>1, <1>3, <1>4, <1>5, <1>6 DEF IsPath, q

\* The graph goes where the roads go.
LEMMA RoadsAreImage ==
    ASSUME CostsInv
    PROVE  IsImage(graph, roads, [id \in DOMAIN graph |-> graph[id].osm_id])
<1>1. \A id \in DOMAIN roads : roads[id].osm_id = id
  BY DEF CostsInv, OrphansInv, RoadsInv
<1>2. \A id \in DOMAIN graph : graph[id].osm_id \in DOMAIN roads
  BY DEF CostsInv, StandForRoads
<1>3. ASSUME NEW id \in DOMAIN graph, NEW e \in EdgesOf(graph, id), e.to \in DOMAIN graph
      PROVE  \E d \in EdgesOf(roads, graph[id].osm_id) : d.to = graph[e.to].osm_id
  <2>1. [to |-> graph[e.to].osm_id, cost |-> e.cost] \in EdgesOf(roads, graph[id].osm_id)
    BY <1>3 DEF CostsInv, StandForRoads
  <2> QED  BY <2>1
<1> QED  BY <1>1, <1>2, <1>3 DEF IsImage

---------------------------------------------------------------------------
(* Rules and what is made of them *)

\* The nodes that a restriction clones.
Inner(nodes) == {nodes[k] : k \in 2 .. Len(nodes) - 1}

\* Clones are of inner nodes of rules.
ClonesAreInner(g, rs) ==
    \A id \in DOMAIN g : g[id].osm_id # id => \E i \in DOMAIN rs : g[id].osm_id \in Inner(rs[i].nodes)

Rule == [kind : {"mandatory", "prohibitory"}, nodes : {s \in Seq(Int) : Len(s) >= 3}]

\* Turns lead through nodes of OpenStreetMap.
TurnsNameOsmNodes ==
    \A f \in Features : f.type = "relation" => \A i \in DOMAIN f.meant : f.meant[i] < MAX_NODE_ID

\* In a first load, every way comes before the restrictions.
WaysComeFirst == loads = 1 /\ rules # << >> => \A w \in Read("way") : ~ Routable(graph, w)

\* In a first load, what is read off the members of a relation is the turn that
\* they describe, if it is anything; nothing is where the roads do not have the turn.
MembersMean ==
    loads = 1 =>
        \A r \in Read("relation") :
            /\ NodesOf(r) # << >> => NodesOf(r) = r.meant
            /\ NodesOf(r) = << >> /\ Given(r) # << >> => r.meant \notin OsmWalks(roads, Len(r.meant) - 1)

\* In a first load, the graph has the turn of a mandatory restriction that breaks no
\* earlier one: none has closed it beside its own.
TurnsAreThere ==
    loads = 1 =>
        \A r \in Read("relation") :
            KindOf(r) = "mandatory" /\ Given(r) # << >> => r.meant \in OsmWalks(graph, Len(r.meant) - 1)

LEMMA ChangedIsImage ==
    ASSUME NEW g, NEW change, NEW h, IsChanged(g, change, h), NoEdgeDangles(g)
    PROVE  IsImage(h, g, [id \in DOMAIN h |-> Original(change, id)])
<1>1. \A id \in DOMAIN h : Original(change, id) \in DOMAIN g /\ h[id].osm_id = g[Original(change, id)].osm_id
  BY DEF IsChanged
<1>2. ASSUME NEW id \in DOMAIN h, NEW e \in EdgesOf(h, id), e.to \in DOMAIN h
      PROVE  \E d \in EdgesOf(g, Original(change, id)) : d.to = Original(change, e.to)
  <2>1. CASE e \in EdgesOf(g, Original(change, id))
    <3>1. e.to \in DOMAIN g
      BY <1>1, <2>1 DEF NoEdgeDangles
    <3>2. Original(change, e.to) = e.to
      BY <3>1 DEF IsChanged
    <3> QED  BY <2>1, <3>2
  <2>2. CASE /\ e.to \in DOMAIN change.new_nodes
             /\ [to |-> change.new_nodes[e.to], cost |-> e.cost] \in EdgesOf(g, Original(change, id))
    <3>1. Original(change, e.to) = change.new_nodes[e.to]
      BY <2>2 DEF Original
    <3> QED  BY <2>2, <3>1
  <2> QED  BY <2>1, <2>2 DEF IsChanged
<1> QED  BY <1>1, <1>2 DEF IsImage

LEMMA AbidesByBoth ==
    ASSUME NEW g, NEW R, NEW S, Abides(g, R), Abides(g, S)
    PROVE  Abides(g, R \cup S)
BY DEF Abides, Lawful

LEMMA RulesWithOne ==
    ASSUME NEW rs \in Seq(Rule), NEW r \in Rule
    PROVE  /\ rs \o <<r>> \in Seq(Rule) /\ ToSet(rs \o <<r>>) = ToSet(rs) \cup {r}
           /\ DOMAIN (rs \o <<r>>) = DOMAIN rs \cup {Len(rs) + 1}
           /\ (rs \o <<r>>)[Len(rs) + 1] = r
           /\ \A i \in DOMAIN rs : (rs \o <<r>>)[i] = rs[i]
<1> DEFINE all == rs \o <<r>>
<1>1. /\ all \in Seq(Rule) /\ DOMAIN all = 1 .. Len(rs) + 1 /\ DOMAIN rs = 1 .. Len(rs) /\ Len(rs) \in Nat
      /\ all[Len(rs) + 1] = r /\ \A i \in 1 .. Len(rs) : all[i] = rs[i]
  BY DEF Rule
<1> HIDE DEF all
<1>2. ToSet(all) = ToSet(rs) \cup {r}
  BY <1>1 DEF ToSet
<1>3. DOMAIN all = DOMAIN rs \cup {Len(rs) + 1}
  BY <1>1
<1> QED  BY <1>1, <1>2, <1>3 DEF all

\* What GivenMeans says of a rule is what makes it one.
LEMMA GivenResult ==
    ASSUME NEW r \in Features, r.type = "relation"
    PROVE  \/ Given(r) = << >>
           \/ LET rule == [kind |-> KindOf(r), nodes |-> r.meant] IN
              /\ Given(r) = <<rule>> /\ rule \in Rule
              /\ rule.kind = "mandatory" =>
                    r.meant \in OsmWalks(roads, Len(r.meant) - 1) /\ Lawful(ToSet(rules), r.meant)
<1>1. r.meant # << >> => r.meant \in Seq(Int) /\ Len(r.meant) >= 3
  BY TurnsAssumption
<1>2. KindOf(r) # "inapplicable" => KindOf(r) \in {"mandatory", "prohibitory"}
  BY DEF KindOf, RestrictionKind
<1> QED  BY <1>1, <1>2 DEF Given, Rule, LawfulWalks

\* Where the graph has a path along a turn, the roads have the turn.
LEMMA RoadsHaveTurn ==
    ASSUME CostsInv, NEW nodes \in Seq(Int), nodes # << >>,
           NEW p, IsPath(graph, p), NEW i \in Nat \ {0}, Along(graph, p, i, nodes, Len(nodes))
    PROVE  nodes \in OsmWalks(roads, Len(nodes) - 1)
<1> DEFINE q == [j \in 1 .. Len(nodes) |-> p[i + j - 1]]
           f == [id \in DOMAIN graph |-> graph[id].osm_id]
           t == [j \in DOMAIN q |-> f[q[j]]]
<1>1. IsPath(graph, q) /\ Len(q) = Len(nodes) /\ Trace(graph, q) = nodes
  BY PartOfPath
<1>2. IsImage(graph, roads, f)
  BY RoadsAreImage
<1> HIDE DEF q, f
<1>3. IsPath(roads, t) /\ Trace(roads, t) = Trace(graph, q) /\ Len(t) = Len(q)
  BY <1>1, <1>2, ImageOfPath
<1> HIDE DEF t
<1>4. t \in Seq(DOMAIN roads) /\ Len(t) = Len(nodes) /\ Len(nodes) \in Nat \ {0}
  BY <1>1, <1>3 DEF IsPath
<1>5. t # << >> /\ t[1] \in DOMAIN roads
  BY <1>4
<1>6. IsGraph(roads) /\ Canonical(roads, t[1])
  BY <1>5 DEF CostsInv, OrphansInv, RoadsInv, Canonical, HasNode, OsmId
<1>7. Len(nodes) - 1 \in Nat /\ Len(t) <= (Len(nodes) - 1) + 1
  BY <1>4
<1>8. IsPath(roads, t) /\ nodes = Trace(roads, t)
  BY <1>1, <1>3
<1> QED  BY <1>5, <1>6, <1>7, <1>8, WalksArePaths

\* Where a graph has a turn, it has a path along it from its first node.
LEMMA TurnHasPath ==
    ASSUME NEW g, IsGraph(g), NEW nodes \in Seq(Int), nodes # << >>, nodes \in OsmWalks(g, Len(nodes) - 1)
    PROVE  \E p : IsPath(g, p) /\ Along(g, p, 1, nodes, Len(nodes)) /\ p[1] = nodes[1]
<1>1. Len(nodes) \in Nat \ {0} /\ Len(nodes) - 1 \in Nat /\ DOMAIN nodes = 1 .. Len(nodes)
  OBVIOUS
<1>2. PICK p : IsPath(g, p) /\ p # << >> /\ Canonical(g, p[1]) /\ nodes = Trace(g, p)
  BY <1>1, WalksArePaths
<1>3. p \in Seq(DOMAIN g) /\ DOMAIN p = 1 .. Len(p) /\ Len(p) \in Nat
  BY <1>2 DEF IsPath
<1>4. DOMAIN p = DOMAIN nodes /\ Len(p) = Len(nodes) /\ \A j \in DOMAIN p : nodes[j] = g[p[j]].osm_id
  BY <1>1, <1>2, <1>3 DEF Trace
<1>5. Along(g, p, 1, nodes, Len(nodes))
  <2>1. \A j \in 1 .. Len(nodes) : 1 + j - 1 = j
    BY <1>1
  <2> QED  BY <1>3, <1>4, <2>1 DEF Along
<1>6. p[1] = nodes[1]
  <2>1. 1 \in DOMAIN p
    BY <1>1, <1>3, <1>4
  <2> QED  BY <1>2, <1>4, <2>1 DEF Canonical, OsmId
<1> QED  BY <1>2, <1>5, <1>6

\* The walk of a restriction, where it gets to its end, is its turn.
LEMMA WalkIsTurn ==
    ASSUME CostsInv, NEW nodes \in Seq(Int), Len(nodes) >= 3, nodes[1] < MAX_NODE_ID,
           NEW change, NEW c, Follows(graph, nodes, change, c, Len(nodes))
    PROVE  \E p : IsPath(graph, p) /\ Along(graph, p, 1, nodes, Len(nodes)) /\ Trace(graph, p) = nodes
<1> DEFINE N == Len(nodes)
           p == [j \in 1 .. N |-> Original(change, c[j])]
<1>1. N \in Nat /\ N >= 3 /\ DOMAIN nodes = 1 .. N /\ nodes = [j \in 1 .. N |-> nodes[j]]
  OBVIOUS
<1>2. ASSUME NEW j \in 1 .. N - 1
      PROVE  /\ Original(change, c[j]) \in DOMAIN graph /\ Original(change, c[j + 1]) \in DOMAIN graph
             /\ graph[Original(change, c[j + 1])].osm_id = nodes[j + 1]
             /\ \E e \in EdgesOf(graph, Original(change, c[j])) : e.to = Original(change, c[j + 1])
  <2>1. j + 1 \in 2 .. N /\ (j + 1) - 1 = j
    BY <1>1
  <2>2. Leads(graph, nodes, change, c, N)
    BY DEF Follows
  <2> HIDE DEF p, N
  <2> QED  BY <2>1, <2>2 DEF Leads
<1>3. Original(change, c[1]) = nodes[1] /\ nodes[1] \in DOMAIN graph
  <2>1. c[1] = nodes[1] /\ c[1] \notin DOMAIN change.new_nodes
    BY DEF Follows, Leads
  <2>2. Original(change, c[1]) = nodes[1]
    BY <2>1 DEF Original
  <2>3. 1 \in 1 .. N - 1
    BY <1>1
  <2> QED  BY <1>2, <2>2, <2>3
<1>4. graph[nodes[1]].osm_id = nodes[1]
  BY <1>3 DEF CostsInv, OrphansInv, RoadsInv
<1>5. \A j \in 1 .. N : Original(change, c[j]) \in DOMAIN graph /\ graph[Original(change, c[j])].osm_id = nodes[j]
  <2>1. \A j \in 1 .. N : j = 1 \/ (j - 1 \in 1 .. N - 1 /\ (j - 1) + 1 = j)
    BY <1>1
  <2> QED  BY <1>2, <1>3, <1>4, <2>1
<1>6. /\ p \in Seq(DOMAIN graph) /\ Len(p) = N /\ DOMAIN p = 1 .. N
      /\ \A j \in 1 .. N : p[j] = Original(change, c[j])
  BY <1>1, <1>5
<1> HIDE DEF p
<1>7. IsPath(graph, p)
  <2>1. \A j \in 1 .. N - 1 : j \in 1 .. N /\ j + 1 \in 1 .. N
    BY <1>1
  <2> QED  BY <1>2, <1>6, <2>1 DEF IsPath
<1>8. Trace(graph, p) = nodes
  BY <1>1, <1>5, <1>6 DEF Trace
<1>9. Along(graph, p, 1, nodes, N)
  <2>1. \A j \in 1 .. N : 1 + j - 1 = j
    BY <1>1
  <2> QED  BY <1>5, <1>6, <2>1 DEF Along
<1> QED  BY <1>7, <1>8, <1>9

\* No rule starts at a node that one before it clones, or that itself clones.
Ordered(rs) ==
    \A i, j \in DOMAIN rs : i <= j => rs[j].nodes[1] \notin Inner(rs[i].nodes)

LEMMA InOrderMeans == InOrder <=> loads = 1 /\ Ordered(rules)
BY DEF InOrder, Ordered, Inner

LEMMA OrderedBefore ==
    ASSUME NEW rs \in Seq(Rule), NEW r \in Rule, Ordered(rs \o <<r>>)
    PROVE  /\ Ordered(rs)
           /\ \A g : ClonesAreInner(g, rs \o <<r>>) => HasNoClone(g, r.nodes[1])
<1> DEFINE all == rs \o <<r>>
           n == Len(rs) + 1
<1>1. /\ DOMAIN all = DOMAIN rs \cup {n} /\ all[n] = r /\ \A i \in DOMAIN rs : all[i] = rs[i]
  BY RulesWithOne
<1>2. DOMAIN rs = 1 .. Len(rs) /\ Len(rs) \in Nat
  OBVIOUS
<1>3. Ordered(rs)
  <2> HIDE DEF all, n
  <2>1. Ordered(all)
    BY DEF all
  <2> QED  BY <1>1, <2>1 DEF Ordered
<1>4. \A i \in DOMAIN all : i <= n
  BY <1>1, <1>2
<1>5. \A i \in DOMAIN all : r.nodes[1] \notin Inner(all[i].nodes)
  <2> HIDE DEF all, n
  <2>1. Ordered(all)
    BY DEF all
  <2> QED  BY <1>1, <1>4, <2>1 DEF Ordered
<1> HIDE DEF all
<1>6. \A g : ClonesAreInner(g, all) => HasNoClone(g, r.nodes[1])
  BY <1>5 DEF ClonesAreInner, HasNoClone, OsmId
<1> QED  BY <1>3, <1>6 DEF all

\* What the rules are for the builder, in a first load.
RulesHold(g, rs) == OneEdgePerOsm(g) /\ ClonesAreInner(g, rs) /\ Abides(g, ToSet(rs))

\* The graph and the rules of a first load in which rules come in order.
IsFirstLoad ==
    /\ CostsInv /\ NoEdgeDangles(graph) /\ loads = 1
    /\ rules \in Seq(Rule) /\ Ordered(rules) /\ RulesHold(graph, rules)

\* A mandatory restriction whose walk gets to its end is a rule.
LEMMA WalkedIsGiven ==
    ASSUME IsFirstLoad, TurnsNameOsmNodes,
           NEW r \in Features, r.type = "relation", KindOf(r) \in {"mandatory", "prohibitory"}, r.meant # << >>,
           NEW change, NEW c, Follows(graph, r.meant, change, c, Len(r.meant))
    PROVE  /\ Given(r) = <<[kind |-> KindOf(r), nodes |-> r.meant]>>
           /\ [kind |-> KindOf(r), nodes |-> r.meant] \in Rule
<1> DEFINE nodes == r.meant
<1>1. nodes \in Seq(Int) /\ Len(nodes) >= 3
  BY TurnsAssumption
<1>2. [kind |-> KindOf(r), nodes |-> nodes] \in Rule
  BY <1>1 DEF Rule
<1>3. nodes[1] < MAX_NODE_ID
  BY <1>1 DEF TurnsNameOsmNodes
<1>4. CostsInv
  BY DEF IsFirstLoad
<1> HIDE DEF nodes
<1>5. PICK p : IsPath(graph, p) /\ Along(graph, p, 1, nodes, Len(nodes)) /\ Trace(graph, p) = nodes
  <2>1. Follows(graph, nodes, change, c, Len(nodes))
    BY DEF nodes
  <2> QED  BY <1>1, <1>3, <1>4, <2>1, WalkIsTurn
<1>6. nodes \in OsmWalks(roads, Len(nodes) - 1)
  <2>1. nodes # << >> /\ 1 \in Nat \ {0}
    BY <1>1
  <2> QED  BY <1>1, <1>4, <1>5, <2>1, RoadsHaveTurn
<1>7. Lawful(ToSet(rules), nodes)
  BY <1>5 DEF IsFirstLoad, RulesHold, Abides
<1>8. nodes \in LawfulWalks(roads, ToSet(rules), Len(nodes) - 1)
  BY <1>6, <1>7 DEF LawfulWalks
<1> QED  BY <1>2, <1>8 DEF Given, nodes

\* The new clones are of inner nodes.
LEMMA ClonesOfWalk ==
    ASSUME NEW g, NEW nodes, Len(nodes) \in Nat, NEW change, NEW c, NEW h, IsChanged(g, change, h),
           Follows(g, nodes, change, c, Len(nodes)), NEW id \in DOMAIN change.new_nodes
    PROVE  h[id].osm_id \in Inner(nodes)
<1>1. PICK j \in 2 .. Len(nodes) : id = c[j]
  BY DEF Follows, Relinks
<1>2. j # Len(nodes)
  BY <1>1 DEF Follows, Parts
<1>3. j \in 2 .. Len(nodes) - 1
  BY <1>2
<1>4. g[Original(change, id)].osm_id = nodes[j]
  BY <1>1 DEF Follows, Leads
<1>5. h[id].osm_id = nodes[j]
  BY <1>4 DEF IsChanged
<1> QED  BY <1>3, <1>5 DEF Inner

LEMMA ClonesAreInnerStill ==
    ASSUME NEW g, NEW change, NEW h, IsChanged(g, change, h), NEW rs \in Seq(Rule), NEW r \in Rule,
           ClonesAreInner(g, rs),
           \A id \in DOMAIN change.new_nodes : h[id].osm_id \in Inner(r.nodes)
    PROVE  ClonesAreInner(h, rs \o <<r>>)
<1> DEFINE all == rs \o <<r>>
<1>1. /\ DOMAIN all = DOMAIN rs \cup {Len(rs) + 1} /\ all[Len(rs) + 1] = r /\ \A i \in DOMAIN rs : all[i] = rs[i]
  BY RulesWithOne
<1> HIDE DEF all
<1>2. ASSUME NEW id \in DOMAIN h, h[id].osm_id # id
      PROVE  \E i \in DOMAIN all : h[id].osm_id \in Inner(all[i].nodes)
  <2>1. CASE id \in DOMAIN change.new_nodes
    BY <1>1, <2>1
  <2>2. CASE id \in DOMAIN g
    <3>1. h[id].osm_id = g[id].osm_id
      BY <2>2 DEF IsChanged
    <3> QED  BY <1>1, <1>2, <2>2, <3>1 DEF ClonesAreInner
  <2> QED  BY <2>1, <2>2 DEF IsChanged
<1> QED  BY <1>2 DEF ClonesAreInner, all

\* A restriction whose walk gets to its end holds from then on, and the others still do.
LEMMA WalkedHolds ==
    ASSUME IsFirstLoad, TurnsNameOsmNodes, NEW r \in Read("relation"), AddRelation(r), NodesOf(r) = r.meant,
           rules' = rules \o Given(r), Ordered(rules'),
           ClonedNodes(graph, phantom_node_id_counter, NodesOf(r)).ok
    PROVE  rules' \in Seq(Rule) /\ RulesHold(graph', rules')
<1> DEFINE nodes == NodesOf(r)
           change == Change(r)
           c == ClonedNodes(graph, phantom_node_id_counter, nodes).cloned_nodes
           kind == KindOf(r)
           rule == [kind |-> kind, nodes |-> nodes]
<1>1. TypeInv /\ IsGraph(graph) /\ NoEdgeDangles(graph) /\ rules \in Seq(Rule) /\ RulesHold(graph, rules)
  BY DEF IsFirstLoad, CostsInv, ClonesInv, EdgesInv, TypeInv
<1>2. /\ nodes \in Seq(Int) /\ nodes # << >> /\ kind \in {"mandatory", "prohibitory"}
      /\ IsChanged(graph, change, graph') /\ IsRelinked(graph, change, graph')
      /\ DOMAIN graph \cap DOMAIN change.new_nodes = {}
      /\ Follows(graph, nodes, change, c, Len(nodes))
      /\ kind = "prohibitory" => [from |-> c[Len(nodes) - 1], to |-> c[Len(nodes)]] \in change.edges_to_remove
      /\ kind = "mandatory" => OnlyAhead(graph, nodes, change, c)
  BY <1>1, RelationFollows
<1>3. r \in Features /\ r.type = "relation"
  BY <1>1, ReadResult
<1> HIDE DEF change, c
<1>4. Given(r) = <<rule>> /\ rule \in Rule
  <2>1. r.meant # << >> /\ Follows(graph, r.meant, change, c, Len(r.meant))
    BY <1>2
  <2>2. KindOf(r) \in {"mandatory", "prohibitory"}
    BY <1>2
  <2>3. /\ Given(r) = <<[kind |-> KindOf(r), nodes |-> r.meant]>>
        /\ [kind |-> KindOf(r), nodes |-> r.meant] \in Rule
    BY <1>3, <2>1, <2>2, WalkedIsGiven
  <2> QED  BY <2>3
<1>5. rules' = rules \o <<rule>> /\ rules' \in Seq(Rule) /\ ToSet(rules') = ToSet(rules) \cup {rule}
  BY <1>1, <1>4, RulesWithOne
<1>6. rule.nodes = nodes /\ Len(nodes) \in Nat /\ Len(nodes) >= 3
  BY <1>4 DEF Rule
<1> HIDE DEF nodes, rule
<1>7. IsRestricted(graph, nodes, change, c, graph')
  BY <1>1, <1>2, <1>6 DEF IsRestricted, RulesHold
<1>8. OneEdgePerOsm(graph')
  BY <1>7, RestrictedOneEdge
<1>9. ClonesAreInner(graph', rules')
  <2>1. \A id \in DOMAIN change.new_nodes : graph'[id].osm_id \in Inner(rule.nodes)
    BY <1>2, <1>6, ClonesOfWalk
  <2>2. ClonesAreInner(graph, rules)
    BY <1>1 DEF RulesHold
  <2> QED  BY <1>1, <1>2, <1>4, <1>5, <2>1, <2>2, ClonesAreInnerStill
<1>10. HasNoClone(graph', nodes[1])
  <2>1. Ordered(rules \o <<rule>>) /\ ClonesAreInner(graph', rules \o <<rule>>)
    BY <1>5, <1>9
  <2>2. \A g : ClonesAreInner(g, rules \o <<rule>>) => HasNoClone(g, rule.nodes[1])
    BY <1>1, <1>4, <2>1, OrderedBefore
  <2> QED  BY <1>6, <2>1, <2>2
<1>11. Abides(graph', ToSet(rules))
  <2>1. Abides(graph, ToSet(rules))
    BY <1>1 DEF RulesHold
  <2>2. IsImage(graph', graph, [id \in DOMAIN graph' |-> Original(change, id)])
    BY <1>1, <1>2, ChangedIsImage
  <2> QED  BY <2>1, <2>2, ImageAbides
<1>12. Abides(graph', {rule})
  <2>1. CASE kind = "prohibitory"
    <3>1. [from |-> c[Len(nodes) - 1], to |-> c[Len(nodes)]] \in change.edges_to_remove
      BY <1>2, <2>1
    <3>a. Len(nodes) >= 2
      BY <1>6
    <3>2. ASSUME NEW p, NEW i \in Nat \ {0}, IsPath(graph', p), Along(graph', p, i, nodes, Len(nodes)),
                 p[i] = nodes[1]
          PROVE  FALSE
      <4>1. IsPath(graph', p) /\ Along(graph', p, i, nodes, Len(nodes)) /\ p[i] = nodes[1]
        BY <3>2
      <4> QED  BY <1>7, <3>a, <3>1, <4>1, LastEdgeIsGone
    <3>3. Abides(graph', {[kind |-> "prohibitory", nodes |-> nodes]})
      BY <1>2, <1>10, <3>2, ProhibitionHolds
    <3> QED  BY <2>1, <3>3 DEF rule
  <2>2. CASE kind = "mandatory"
    <3>1. OnlyAhead(graph, nodes, change, c)
      BY <1>2, <2>2
    <3>2. ASSUME NEW p, NEW i \in Nat \ {0}, IsPath(graph', p), Along(graph', p, i, nodes, 2), p[i] = nodes[1]
          PROVE  \A m \in 1 .. Len(nodes) : i + m - 1 <= Len(p) => Along(graph', p, i, nodes, m)
      BY <1>6, <1>7, <3>1, <3>2, NoEdgeLeaves, SMTT(30)
    <3>3. Len(nodes) >= 2
      BY <1>6
    <3>4. Abides(graph', {[kind |-> "mandatory", nodes |-> nodes]})
      BY <1>2, <1>10, <3>2, <3>3, MandateHolds
    <3> QED  BY <2>2, <3>4 DEF rule
  <2> QED  BY <1>2, <2>1, <2>2
<1>13. Abides(graph', ToSet(rules'))
  BY <1>5, <1>11, <1>12, AbidesByBoth
<1> QED  BY <1>5, <1>8, <1>9, <1>13 DEF RulesHold

\* A graph that is another but for some of its edges.
IsWithin(h, g) ==
    /\ DOMAIN h = DOMAIN g
    /\ \A id \in DOMAIN g : h[id].osm_id = g[id].osm_id /\ EdgesOf(h, id) \subseteq EdgesOf(g, id)

LEMMA WithinHolds ==
    ASSUME NEW g, NEW h, IsWithin(h, g), NEW rs, RulesHold(g, rs)
    PROVE  RulesHold(h, rs) /\ \A p : IsPath(h, p) => IsPath(g, p) /\ Trace(h, p) = Trace(g, p)
<1>1. OneEdgePerOsm(h)
  <2>1. OneEdgePerOsm(g)
    BY DEF RulesHold
  <2> QED  BY <2>1 DEF OneEdgePerOsm, IsWithin
<1>2. ClonesAreInner(h, rs)
  <2>1. ClonesAreInner(g, rs)
    BY DEF RulesHold
  <2> QED  BY <2>1 DEF ClonesAreInner, IsWithin
<1>3. ASSUME NEW p, IsPath(h, p)
      PROVE  IsPath(g, p) /\ Trace(h, p) = Trace(g, p)
  <2>1. p \in Seq(DOMAIN g) /\ p \in Seq(DOMAIN h) /\ DOMAIN p = 1 .. Len(p) /\ Len(p) \in Nat
    BY <1>3 DEF IsPath, IsWithin
  <2>2. \A i \in DOMAIN p : p[i] \in DOMAIN g
    BY <2>1
  <2>3. IsPath(g, p)
    <3>1. \A i \in 1 .. Len(p) - 1 : p[i] \in DOMAIN g
      BY <2>1, <2>2
    <3> QED  BY <1>3, <2>1, <3>1 DEF IsPath, IsWithin
  <2>4. Trace(h, p) = Trace(g, p)
    BY <2>2 DEF Trace, IsWithin
  <2> QED  BY <2>3, <2>4
<1>4. Abides(h, ToSet(rs))
  BY <1>3 DEF Abides, RulesHold
<1> QED  BY <1>1, <1>2, <1>3, <1>4 DEF RulesHold

\* A prohibitory restriction that no path is along holds, and the others still do.
LEMMA UnmetHolds ==
    ASSUME IsFirstLoad, NEW h, IsWithin(h, graph), NEW r \in Features, r.type = "relation",
           KindOf(r) = "mandatory" => Given(r) = << >>,
           \A p : \A i \in Nat \ {0} :
              Given(r) # << >> /\ IsPath(graph, p) /\ Along(graph, p, i, r.meant, Len(r.meant)) => p[i] # r.meant[1],
           Ordered(rules \o Given(r))
    PROVE  rules \o Given(r) \in Seq(Rule) /\ RulesHold(h, rules \o Given(r))
<1> DEFINE nodes == r.meant
           rule == [kind |-> KindOf(r), nodes |-> nodes]
<1>1. rules \in Seq(Rule) /\ RulesHold(h, rules)
  BY WithinHolds DEF IsFirstLoad
<1>2. CASE Given(r) = << >>
  <2>1. rules \o Given(r) = rules
    BY <1>1, <1>2
  <2> QED  BY <1>1, <2>1
<1>3. CASE Given(r) # << >>
  <2>1. Given(r) = <<rule>> /\ rule \in Rule
    BY <1>3, GivenResult
  <2>2. KindOf(r) = "prohibitory"
    BY <1>3, <2>1 DEF Rule
  <2>3. nodes \in Seq(Int) /\ nodes # << >> /\ rule = [kind |-> "prohibitory", nodes |-> nodes]
        /\ rule.nodes = nodes /\ Len(nodes) \in Nat
    BY <2>1, <2>2 DEF Rule
  <2> DEFINE all == rules \o <<rule>>
  <2>4. /\ all \in Seq(Rule) /\ ToSet(all) = ToSet(rules) \cup {rule}
        /\ DOMAIN all = DOMAIN rules \cup {Len(rules) + 1} /\ \A i \in DOMAIN rules : all[i] = rules[i]
    BY <1>1, <2>1, RulesWithOne
  <2>5. Ordered(all)
    BY <2>1
  <2>6. \A g : ClonesAreInner(g, all) => HasNoClone(g, rule.nodes[1])
    <3>1. Ordered(rules \o <<rule>>)
      BY <2>5
    <3>2. rule \in Rule
      BY <2>1
    <3> HIDE DEF rule
    <3> QED  BY <1>1, <3>1, <3>2, OrderedBefore
  <2> HIDE DEF all
  <2>7. ClonesAreInner(h, all)
    <3>1. ClonesAreInner(h, rules)
      BY <1>1 DEF RulesHold
    <3> QED  BY <2>4, <3>1 DEF ClonesAreInner
  <2>8. HasNoClone(h, nodes[1])
    BY <2>3, <2>6, <2>7
  <2>9. ASSUME NEW p, NEW i \in Nat \ {0}, IsPath(h, p), Along(h, p, i, nodes, Len(nodes))
        PROVE  p[i] # nodes[1]
    <3>1. IsPath(graph, p) /\ p \in Seq(DOMAIN graph)
      <4>1. RulesHold(graph, rules)
        BY DEF IsFirstLoad
      <4>2. IsPath(graph, p)
        BY <2>9, <4>1, WithinHolds
      <4> QED  BY <4>2 DEF IsPath
    <3>2. \A j \in 1 .. Len(p) : p[j] \in DOMAIN graph
      BY <3>1
    <3>3. Along(graph, p, i, nodes, Len(nodes))
      BY <2>9, <3>2 DEF Along, IsWithin
    <3> QED  BY <1>3, <3>1, <3>3
  <2>10. Abides(h, {rule})
    BY <2>3, <2>8, <2>9, ProhibitionHolds
  <2>11. Abides(h, ToSet(all))
    <3>1. Abides(h, ToSet(rules))
      BY <1>1 DEF RulesHold
    <3> QED  BY <2>4, <2>10, <3>1, AbidesByBoth
  <2>12. RulesHold(h, all)
    <3>1. OneEdgePerOsm(h)
      BY <1>1 DEF RulesHold
    <3> QED  BY <2>7, <2>11, <3>1 DEF RulesHold
  <2> QED  BY <2>1, <2>4, <2>12 DEF all
<1> QED  BY <1>2, <1>3

\* A restriction whose walk gets nowhere has no path along it, and leaves the graph as it is.
LEMMA UnwalkedHolds ==
    ASSUME IsFirstLoad, TurnsAreThere, NEW r \in Read("relation"), AddRelation(r), NodesOf(r) = r.meant,
           rules' = rules \o Given(r), Ordered(rules'),
           ~ ClonedNodes(graph, phantom_node_id_counter, NodesOf(r)).ok
    PROVE  rules' \in Seq(Rule) /\ RulesHold(graph', rules')
<1> DEFINE nodes == NodesOf(r)
           change == Change(r)
<1>1. TypeInv /\ IsGraph(graph) /\ OneEdgePerOsm(graph) /\ loads = 1
  BY DEF IsFirstLoad, CostsInv, ClonesInv, EdgesInv, TypeInv, RulesHold
<1>2. /\ nodes \in Seq(Int) /\ nodes # << >>
      /\ IsChanged(graph, change, graph') /\ DOMAIN change.new_nodes = {}
      /\ \E m \in 1 .. Len(nodes) - 1 : \E q : Ends(graph, nodes, q, m)
  BY <1>1, RelationFollows
<1>3. r \in Features /\ r.type = "relation" /\ nodes = r.meant /\ Len(nodes) \in Nat
  BY <1>1, <1>2, ReadResult
<1> HIDE DEF change, nodes
<1>4. PICK m \in 1 .. Len(nodes) - 1 : \E q : Ends(graph, nodes, q, m)
  BY <1>2
<1>5. PICK q : Ends(graph, nodes, q, m)
  BY <1>4
<1>6. ASSUME NEW p, NEW i \in Nat \ {0}, IsPath(graph, p), Along(graph, p, i, nodes, Len(nodes)), p[i] = nodes[1]
      PROVE  FALSE
  <2>1. IsPath(graph, p) /\ Along(graph, p, i, nodes, Len(nodes)) /\ p[i] = nodes[1]
    BY <1>6
  <2>2. OneEdgePerOsm(graph) /\ Len(nodes) \in Nat /\ Ends(graph, nodes, q, m)
    BY <1>1, <1>3, <1>5
  <2> QED  BY <2>1, <2>2, NoPathAlong
<1>7. KindOf(r) = "mandatory" => Given(r) = << >>
  <2>1. SUFFICES ASSUME KindOf(r) = "mandatory", Given(r) # << >>
                 PROVE  FALSE
    OBVIOUS
  <2>2. nodes \in OsmWalks(graph, Len(nodes) - 1)
    BY <1>1, <1>3, <2>1 DEF TurnsAreThere
  <2>3. PICK p : IsPath(graph, p) /\ Along(graph, p, 1, nodes, Len(nodes)) /\ p[1] = nodes[1]
    BY <1>1, <1>2, <2>2, TurnHasPath
  <2>4. 1 \in Nat \ {0}
    OBVIOUS
  <2> QED  BY <1>6, <2>3, <2>4
<1>8. IsWithin(graph', graph)
  <2>1. /\ DOMAIN graph' = DOMAIN graph
        /\ \A id \in DOMAIN graph : Original(change, id) = id
    BY <1>2 DEF IsChanged
  <2>2. \A id \in DOMAIN graph : /\ graph'[id].osm_id = graph[id].osm_id
                                 /\ \A e \in EdgesOf(graph', id) : e \in EdgesOf(graph, id)
    BY <1>2, <2>1 DEF IsChanged
  <2> QED  BY <2>1, <2>2 DEF IsWithin
<1>9. \A p : \A i \in Nat \ {0} :
          Given(r) # << >> /\ IsPath(graph, p) /\ Along(graph, p, i, r.meant, Len(r.meant)) => p[i] # r.meant[1]
  BY <1>3, <1>6
<1>10. Ordered(rules \o Given(r))
  OBVIOUS
<1>11. rules \o Given(r) \in Seq(Rule) /\ RulesHold(graph', rules \o Given(r))
  BY <1>3, <1>7, <1>8, <1>9, <1>10, UnmetHolds
<1> QED  BY <1>11

\* What is no restriction to the builder is one that no path is along, if anything.
LEMMA IgnoredHolds ==
    ASSUME IsFirstLoad, MembersMean, NEW r \in Read("relation"), IgnoreRelation(r),
           rules' = rules \o Given(r), Ordered(rules')
    PROVE  rules' \in Seq(Rule) /\ RulesHold(graph', rules')
<1> DEFINE nodes == r.meant
           rule == [kind |-> KindOf(r), nodes |-> nodes]
<1>1. TypeInv /\ CostsInv /\ loads = 1 /\ graph' = graph /\ NodesOf(r) = << >>
  BY DEF IsFirstLoad, CostsInv, ClonesInv, EdgesInv, IgnoreRelation
<1>2. r \in Features /\ r.type = "relation"
  BY <1>1, ReadResult
<1>3. Given(r) # << >> =>
          /\ nodes \notin OsmWalks(roads, Len(nodes) - 1)
          /\ rule \in Rule
          /\ rule.kind = "mandatory" => nodes \in OsmWalks(roads, Len(nodes) - 1)
  BY <1>1, <1>2, GivenResult DEF MembersMean
<1>4. KindOf(r) = "mandatory" => Given(r) = << >>
  BY <1>3
<1>5. ASSUME NEW p, NEW i \in Nat \ {0}, Given(r) # << >>, IsPath(graph, p),
             Along(graph, p, i, nodes, Len(nodes))
      PROVE  FALSE
  <2>1. nodes \in Seq(Int) /\ nodes # << >>
    BY <1>3, <1>5 DEF Rule
  <2> HIDE DEF nodes
  <2>2. IsPath(graph, p) /\ Along(graph, p, i, nodes, Len(nodes))
    BY <1>5
  <2>3. nodes \in OsmWalks(roads, Len(nodes) - 1)
    BY <1>1, <2>1, <2>2, RoadsHaveTurn
  <2> QED  BY <1>3, <1>5, <2>3
<1>6. \A p : \A i \in Nat \ {0} :
          Given(r) # << >> /\ IsPath(graph, p) /\ Along(graph, p, i, r.meant, Len(r.meant)) => p[i] # r.meant[1]
  BY <1>5
<1>7. IsWithin(graph', graph)
  BY <1>1 DEF IsWithin
<1>8. Ordered(rules \o Given(r))
  OBVIOUS
<1>9. rules \o Given(r) \in Seq(Rule) /\ RulesHold(graph', rules \o Given(r))
  BY <1>2, <1>4, <1>6, <1>7, <1>8, UnmetHolds
<1> QED  BY <1>9

---------------------------------------------------------------------------
(* What else a first load does to the graph *)

LEMMA PartHolds ==
    ASSUME NEW g, NEW S, S \subseteq DOMAIN g, NEW rs, RulesHold(g, rs)
    PROVE  RulesHold([id \in S |-> g[id]], rs)
<1> DEFINE h == [id \in S |-> g[id]]
<1>1. DOMAIN h = S /\ \A id \in S : h[id] = g[id] /\ id \in DOMAIN g /\ EdgesOf(h, id) = EdgesOf(g, id)
  BY DEF EdgesOf
<1>2. IsImage(h, g, [id \in S |-> id])
  BY PartIsImage
<1> HIDE DEF h
<1>3. Abides(h, ToSet(rs))
  <2>1. Abides(g, ToSet(rs))
    BY DEF RulesHold
  <2> QED  BY <1>2, <2>1, ImageAbides
<1>4. OneEdgePerOsm(h) /\ ClonesAreInner(h, rs)
  BY <1>1 DEF RulesHold, OneEdgePerOsm, ClonesAreInner
<1> QED  BY <1>3, <1>4 DEF RulesHold, h

\* No rule is about a single node.
LEMMA ShortIsLawful ==
    ASSUME NEW rs \in Seq(Rule), NEW walk, DOMAIN walk \subseteq {1}
    PROVE  Lawful(ToSet(rs), walk)
<1> SUFFICES ASSUME NEW r \in ToSet(rs), IF r.kind = "mandatory" THEN Deviates(r.nodes, walk)
                                                                 ELSE Prohibits(r.nodes, walk)
             PROVE  FALSE
  BY DEF Lawful
<1>1. r \in Rule
  BY DEF ToSet
<1>2. r.nodes \in Seq(Int) /\ Len(r.nodes) >= 3
  BY <1>1 DEF Rule
<1>3. ASSUME NEW nodes, 2 \in DOMAIN nodes, NEW i \in DOMAIN walk
      PROVE  ~ Occurs(nodes, walk, i)
  <2>1. i = 1 /\ i + 2 - 1 = 2
    OBVIOUS
  <2>2. 2 \notin DOMAIN walk
    OBVIOUS
  <2> QED  BY <1>3, <2>1, <2>2 DEF Occurs
<1>4. 2 \in DOMAIN r.nodes /\ 2 \in DOMAIN <<r.nodes[1], r.nodes[2]>>
  BY <1>2
<1> QED  BY <1>3, <1>4 DEF Deviates, Prohibits

LEMMA NodeHolds ==
    ASSUME TypeInv, NoEdgeDangles(graph), NEW n \in Read("node"), AddNode(n),
           NEW rs \in Seq(Rule), RulesHold(graph, rs)
    PROVE  RulesHold(graph', rs)
<1>1. /\ n.id \notin DOMAIN graph /\ DOMAIN graph' = DOMAIN graph \cup {n.id}
      /\ \A id \in DOMAIN graph : graph'[id] = graph[id]
      /\ graph'[n.id].osm_id = n.id /\ EdgesOf(graph', n.id) = {}
  BY AddNodeResult
<1>2. \A id \in DOMAIN graph' : \A e \in EdgesOf(graph', id) :
          id \in DOMAIN graph /\ e \in EdgesOf(graph, id) /\ e.to \in DOMAIN graph
  BY <1>1 DEF EdgesOf, NoEdgeDangles
<1>3. OneEdgePerOsm(graph')
  BY <1>1, <1>2 DEF OneEdgePerOsm, RulesHold
<1>4. ClonesAreInner(graph', rs)
  BY <1>1 DEF ClonesAreInner, RulesHold
<1>5. ASSUME NEW p, IsPath(graph', p)
      PROVE  Lawful(ToSet(rs), Trace(graph', p))
  <2>1. p \in Seq(DOMAIN graph') /\ DOMAIN p = 1 .. Len(p) /\ Len(p) \in Nat
    BY <1>5 DEF IsPath
  <2>2. CASE Len(p) <= 1
    <3>1. DOMAIN Trace(graph', p) \subseteq {1}
      BY <2>1, <2>2 DEF Trace
    <3> QED  BY <3>1, ShortIsLawful
  <2>3. CASE Len(p) > 1
    <3>1. ASSUME NEW i \in 1 .. Len(p) - 1
          PROVE  /\ p[i] \in DOMAIN graph /\ p[i + 1] \in DOMAIN graph
                 /\ \E e \in EdgesOf(graph, p[i]) : e.to = p[i + 1]
      <4>1. p[i] \in DOMAIN graph'
        BY <2>1
      <4>2. PICK e \in EdgesOf(graph', p[i]) : e.to = p[i + 1]
        BY <1>5 DEF IsPath
      <4> QED  BY <1>2, <4>1, <4>2
    <3>2. \A i \in DOMAIN p : p[i] \in DOMAIN graph
      <4>1. \A i \in DOMAIN p : i \in 1 .. Len(p) - 1 \/ (i - 1 \in 1 .. Len(p) - 1 /\ (i - 1) + 1 = i)
        BY <2>1, <2>3
      <4> QED  BY <3>1, <4>1
    <3>3. p \in Seq(DOMAIN graph)
      BY <2>1, <3>2
    <3>4. IsPath(graph, p)
      BY <3>1, <3>3 DEF IsPath
    <3>5. Trace(graph', p) = Trace(graph, p)
      BY <1>1, <3>2 DEF Trace
    <3> QED  BY <3>4, <3>5 DEF RulesHold, Abides
  <2> QED  BY <2>1, <2>2, <2>3
<1> QED  BY <1>3, <1>4, <1>5 DEF RulesHold, Abides

LEMMA NoRulesNoClones ==
    ASSUME NEW g
    PROVE  RulesHold(g, << >>) <=> \A id \in DOMAIN g : g[id].osm_id = id
<1>1. DOMAIN << >> = {} /\ ToSet(<< >>) = {}
  BY DEF ToSet
<1>2. Abides(g, {})
  BY DEF Abides, Lawful
<1>3. ClonesAreInner(g, << >>) <=> \A id \in DOMAIN g : g[id].osm_id = id
  BY <1>1 DEF ClonesAreInner
<1>4. (\A id \in DOMAIN g : g[id].osm_id = id) => OneEdgePerOsm(g)
  BY DEF OneEdgePerOsm
<1> QED  BY <1>1, <1>2, <1>3, <1>4 DEF RulesHold

LEMMA WayHolds ==
    ASSUME TypeInv, NEW w \in Read("way"), AddWay(w), RulesHold(graph, << >>)
    PROVE  RulesHold(graph', << >>)
<1>1. DOMAIN graph' = DOMAIN graph /\ SameNodes(graph, graph')
  BY AddWayResult
<1>2. \A id \in DOMAIN graph : graph'[id].osm_id = graph[id].osm_id
  BY <1>1 DEF SameNodes
<1> QED  BY <1>1, <1>2, NoRulesNoClones

LEMMA SameCosts ==
    ASSUME NEW g, IsGraph(g), NEW h, IsGraph(h), NEW from \in DOMAIN g,
           from \in DOMAIN h => EdgesOf(h, from) \subseteq EdgesOf(g, from),
           NEW to, HasEdge(h, from, to)
    PROVE  GetEdge(h, from, to) = GetEdge(g, from, to)
<1>1. from \in DOMAIN h /\ \E e \in EdgesOf(h, from) : e.to = to
  BY HasEdgeMeans
<1>2. PICK e \in EdgesOf(h, from) : e.to = to
  BY <1>1
<1>3. GetEdge(h, from, e.to) = e.cost
  BY <1>1, GetEdgeMeans
<1>4. GetEdge(g, from, e.to) = e.cost
  BY <1>1, GetEdgeMeans
<1> QED  BY <1>2, <1>3, <1>4

---------------------------------------------------------------------------
(* Restrictions that are given in order hold *)

\* What makes RestrictionsInOrderHold inductive: through the first load, paths
\* abide by the rules wherever they start, no two edges of a node lead to the same
\* OSM node, and only inner nodes of rules have clones.
RulesInv ==
    /\ loads \in Nat
    /\ loads <= 1 => CostsInv
    /\ loads = 0 => DOMAIN graph = {} /\ rules = << >> /\ pc = "idle"
    /\ loads = 1 => rules \in Seq(Rule)
    /\ loads = 1 /\ Ordered(rules) => RulesHold(graph, rules)

\* Without clones, every way keeps the costs that matter.
LEMMA FirstRoadsKeepCosts ==
    ASSUME WaysNameOsmNodes, CostsInv, RNext, RoadsAreKept,
           \A w \in Read("way") : AddWay(w) => \A x \in DOMAIN graph : graph[x].osm_id = x
    PROVE  RoadsKeepCosts
<1>1. RoadsInv /\ IsGraph(roads) /\ \A id \in DOMAIN roads : id \in DOMAIN graph
  BY DEF CostsInv, OrphansInv, RoadsInv
<1>2. IsGraph(roads')
  <2>1. RoadsInv'
    BY <1>1, RoadsNext
  <2> QED  BY <2>1 DEF RoadsInv
<1>3. ASSUME \A id \in DOMAIN roads : id \in DOMAIN roads' => EdgesOf(roads', id) \subseteq EdgesOf(roads, id)
      PROVE  RoadsKeepCosts
  <2> SUFFICES ASSUME NEW from \in DOMAIN roads, NEW to \in DOMAIN roads, HasEdge(roads', from, to)
               PROVE  GetEdge(roads', from, to) = GetEdge(roads, from, to)
    BY DEF RoadsKeepCosts
  <2>1. from \in DOMAIN roads' => EdgesOf(roads', from) \subseteq EdgesOf(roads, from)
    BY <1>3
  <2> QED  BY <1>1, <1>2, <2>1, SameCosts
<1>4. CASE roads' = roads
  BY <1>3, <1>4
<1>5. CASE RCleanup
  <2>1. roads' = [id \in DOMAIN roads \ unused_nodes |-> roads[id]]
    BY <1>5 DEF RCleanup
  <2>2. \A id \in DOMAIN roads : id \in DOMAIN roads' => EdgesOf(roads', id) \subseteq EdgesOf(roads, id)
    BY <2>1 DEF EdgesOf
  <2> QED  BY <1>3, <2>2
<1>6. ASSUME NEW n \in Read("node"), AddNode(n), roads' = SetNode(roads, n.id, n.id, n.pos)
      PROVE  RoadsKeepCosts
  <2>1. \A id \in DOMAIN roads : EdgesOf(roads', id) = EdgesOf(roads, id)
    BY <1>1, <1>6, NodeOfRoads
  <2> QED  BY <1>3, <2>1
<1>7. ASSUME NEW w \in Read("way"), AddWay(w)
      PROVE  RoadsKeepCosts
  <2>1. \A x \in DOMAIN roads : HasNoClone(graph, x)
    BY <1>7 DEF HasNoClone, OsmId
  <2> QED  BY <2>1 DEF RoadsKeepCosts
<1>8. CASE RDelete
  BY <1>1, <1>4, <1>8, DeletedClone
<1>9. \/ RCleanup \/ RDelete
      \/ \E n \in Read("node") : AddNode(n) /\ roads' = SetNode(roads, n.id, n.id, n.pos)
      \/ \E w \in Read("way") : AddWay(w)
      \/ roads' = roads
  BY DEF RNext, RLoad, RNode, RWay, RRelation, RFail, history
<1> QED  BY <1>4, <1>5, <1>6, <1>7, <1>8, <1>9

\* A load begins with RLoad.
LEMMA LoadIsRLoad ==
    ASSUME RNext, Load, ~ UNCHANGED vars
    PROVE  RLoad
<1>1. pc = "idle" /\ Head(session).op = "load"
  BY DEF Load, Do
<1>2. ~ RDelete
  BY <1>1 DEF RDelete, Delete, Do
<1>3. ~ RCleanup /\ ~ RFail
  BY <1>1 DEF RCleanup, Cleanup, RFail, Fail
<1>4. ~ RNode /\ ~ RWay /\ ~ RRelation
  BY <1>1 DEF RNode, RWay, RRelation, Read
<1> QED  BY <1>2, <1>3, <1>4 DEF RNext, Done

LEMMA FirstLoadCosts ==
    ASSUME WaysNameOsmNodes, RulesInv, RNext, RoadsAreKept, WaysComeFirst, loads' <= 1
    PROVE  CostsInv'
<1>1. loads \in Nat /\ loads <= 1 /\ CostsInv
  <2>1. loads \in Nat /\ (loads' = loads \/ loads' = loads + 1)
    BY DEF RulesInv, RNext, RLoad, RNode, RWay, RRelation, RCleanup, RFail, RDelete, history
  <2>2. loads <= 1
    BY <2>1
  <2> QED  BY <2>1, <2>2 DEF RulesInv
<1>2. (Load => NoEdgeDangles(graph)) \/ UNCHANGED vars
  <2>1. SUFFICES ASSUME Load, ~ UNCHANGED vars
                 PROVE  NoEdgeDangles(graph)
    OBVIOUS
  <2>2. loads' = loads + 1
    BY <2>1, LoadIsRLoad DEF RLoad
  <2>3. loads = 0
    BY <1>1, <2>2
  <2> QED  BY <2>3 DEF RulesInv, NoEdgeDangles
<1>3. ASSUME NEW w \in Read("way"), AddWay(w)
      PROVE  \A x \in DOMAIN graph : graph[x].osm_id = x
  <2>1. pc = "loading"
    BY DEF Read
  <2>2. loads = 1
    BY <1>1, <2>1 DEF RulesInv
  <2>3. rules = << >>
    BY <1>3, <2>2 DEF WaysComeFirst, AddWay
  <2>4. Ordered(rules)
    BY <2>3 DEF Ordered
  <2>5. RulesHold(graph, << >>)
    BY <2>2, <2>3, <2>4 DEF RulesInv
  <2> QED  BY <2>5, NoRulesNoClones
<1>4. RoadsKeepCosts
  BY <1>1, <1>3, FirstRoadsKeepCosts
<1> QED  BY <1>1, <1>2, <1>4, CostsNext

LEMMA RulesNext ==
    ASSUME WaysNameOsmNodes, TurnsNameOsmNodes, RulesInv, RNext, RoadsAreKept,
           WaysComeFirst, MembersMean, TurnsAreThere
    PROVE  RulesInv'
<1>1. loads \in Nat /\ (loads' = loads \/ loads' = loads + 1)
  BY DEF RulesInv, RNext, RLoad, RNode, RWay, RRelation, RCleanup, RFail, RDelete, history
<1>2. loads' \in Nat /\ (loads' <= 1 => CostsInv')
  BY <1>1, FirstLoadCosts
<1>3. CASE loads' > 1
  BY <1>2, <1>3 DEF RulesInv
<1>4. CASE RLoad /\ loads' <= 1
  <2>1. loads' = loads + 1 /\ rules' = rules /\ graph' = graph
    BY <1>4 DEF RLoad, Load
  <2>2. loads = 0 /\ loads' = 1
    BY <1>1, <1>4, <2>1
  <2>3. DOMAIN graph' = {} /\ rules' = << >>
    BY <2>1, <2>2 DEF RulesInv
  <2>4. RulesHold(graph', << >>)
    BY <2>3, NoRulesNoClones
  <2> QED  BY <1>2, <2>2, <2>3, <2>4 DEF RulesInv
<1>5. CASE loads' = loads /\ loads = 0
  <2>1. DOMAIN graph = {} /\ rules = << >> /\ pc = "idle"
    BY <1>5 DEF RulesInv
  <2>2. ~ RCleanup /\ ~ RFail /\ ~ RNode /\ ~ RWay /\ ~ RRelation
    BY <2>1 DEF RCleanup, Cleanup, RFail, Fail, RNode, RWay, RRelation, Read
  <2>3. ~ RLoad
    BY <1>5 DEF RLoad
  <2>4. DOMAIN graph' = {} /\ rules' = << >> /\ pc' = "idle"
    <3>1. CASE RDelete
      <4>1. graph' = [id \in DOMAIN graph \ {Head(session).id} |-> graph[id]] /\ rules' = rules /\ pc' = pc
        BY <3>1 DEF RDelete, Delete, DeleteNode
      <4> QED  BY <2>1, <4>1
    <3>2. CASE Done /\ UNCHANGED history
      BY <2>1, <3>2 DEF Done, vars, reader, history
    <3> QED  BY <2>2, <2>3, <3>1, <3>2 DEF RNext
  <2> QED  BY <1>2, <1>5, <2>4 DEF RulesInv
<1>6. CASE loads' = loads /\ loads = 1
  <2>1. /\ CostsInv /\ TypeInv /\ rules \in Seq(Rule) /\ (Ordered(rules) => RulesHold(graph, rules))
        /\ pc = "loading" => NoEdgeDangles(graph)
    BY <1>6 DEF RulesInv, CostsInv, ClonesInv, EdgesInv
  <2> SUFFICES rules' \in Seq(Rule) /\ (Ordered(rules') => RulesHold(graph', rules'))
    BY <1>2, <1>6 DEF RulesInv
  <2>2. ASSUME NEW S, S \subseteq DOMAIN graph, graph' = [id \in S |-> graph[id]], rules' = rules
        PROVE  rules' \in Seq(Rule) /\ (Ordered(rules') => RulesHold(graph', rules'))
    BY <2>1, <2>2, PartHolds
  <2>3. CASE RCleanup
    <3>1. graph' = [id \in DOMAIN graph \ unused_nodes |-> graph[id]] /\ rules' = rules
      BY <2>3 DEF RCleanup, Cleanup
    <3>2. DOMAIN graph \ unused_nodes \subseteq DOMAIN graph
      OBVIOUS
    <3> QED  BY <2>2, <3>1, <3>2
  <2>4. CASE RDelete
    <3>1. graph' = [id \in DOMAIN graph \ {Head(session).id} |-> graph[id]] /\ rules' = rules
      BY <2>4 DEF RDelete, Delete, DeleteNode
    <3>2. DOMAIN graph \ {Head(session).id} \subseteq DOMAIN graph
      OBVIOUS
    <3> QED  BY <2>2, <3>1, <3>2
  <2>5. ASSUME NEW n \in Read("node"), AddNode(n), rules' = rules
        PROVE  rules' \in Seq(Rule) /\ (Ordered(rules') => RulesHold(graph', rules'))
    <3>1. NoEdgeDangles(graph)
      BY <2>1 DEF Read
    <3> QED  BY <2>1, <2>5, <3>1, NodeHolds
  <2>6. ASSUME NEW w \in Read("way"), AddWay(w), rules' = rules
        PROVE  rules' \in Seq(Rule) /\ (Ordered(rules') => RulesHold(graph', rules'))
    <3>1. rules = << >>
      BY <1>6, <2>6 DEF WaysComeFirst, AddWay
    <3>2. Ordered(rules)
      BY <3>1 DEF Ordered
    <3>3. RulesHold(graph, << >>)
      BY <2>1, <3>1, <3>2
    <3>4. RulesHold(graph', << >>)
      BY <2>1, <2>6, <3>3, WayHolds
    <3> QED  BY <2>1, <2>6, <3>1, <3>4
  <2>7. ASSUME NEW r \in Read("relation"), AddRelation(r) \/ IgnoreRelation(r), rules' = rules \o Given(r)
        PROVE  rules' \in Seq(Rule) /\ (Ordered(rules') => RulesHold(graph', rules'))
    <3>1. r \in Features /\ r.type = "relation" /\ pc = "loading" /\ NoEdgeDangles(graph)
      BY <2>1, ReadResult
    <3>2. Given(r) = << >> \/ \E rule \in Rule : Given(r) = <<rule>>
      BY <3>1, GivenResult
    <3>3. rules' \in Seq(Rule)
      <4>1. CASE Given(r) = << >>
        <5>1. rules' = rules
          BY <2>1, <2>7, <4>1
        <5> QED  BY <2>1, <5>1
      <4>2. CASE \E rule \in Rule : Given(r) = <<rule>>
        <5>1. PICK rule \in Rule : Given(r) = <<rule>>
          BY <4>2
        <5>2. rules \o <<rule>> \in Seq(Rule)
          BY <2>1, RulesWithOne
        <5> QED  BY <2>7, <5>1, <5>2
      <4> QED  BY <3>2, <4>1, <4>2
    <3>4. ASSUME Ordered(rules')
          PROVE  RulesHold(graph', rules')
      <4>1. Ordered(rules)
        <5>1. CASE Given(r) = << >>
          <6>1. rules' = rules
            BY <2>1, <2>7, <5>1
          <6> QED  BY <3>4, <6>1
        <5>2. CASE \E rule \in Rule : Given(r) = <<rule>>
          <6>1. PICK rule \in Rule : Given(r) = <<rule>>
            BY <5>2
          <6>2. Ordered(rules \o <<rule>>)
            BY <2>7, <3>4, <6>1
          <6> QED  BY <2>1, <6>2, OrderedBefore
        <5> QED  BY <3>2, <5>1, <5>2
      <4>2. IsFirstLoad
        BY <1>6, <2>1, <3>1, <4>1 DEF IsFirstLoad
      <4>3. CASE IgnoreRelation(r)
        BY <2>7, <3>4, <4>2, <4>3, IgnoredHolds
      <4>4. CASE AddRelation(r)
        <5>1. NodesOf(r) = r.meant
          BY <1>6, <4>4 DEF MembersMean, AddRelation
        <5>2. CASE ClonedNodes(graph, phantom_node_id_counter, NodesOf(r)).ok
          BY <2>7, <3>4, <4>2, <4>4, <5>1, <5>2, WalkedHolds
        <5>3. CASE ~ ClonedNodes(graph, phantom_node_id_counter, NodesOf(r)).ok
          BY <2>7, <3>4, <4>2, <4>4, <5>1, <5>3, UnwalkedHolds
        <5> QED  BY <5>2, <5>3
      <4> QED  BY <2>7, <4>3, <4>4
    <3> QED  BY <3>3, <3>4
  <2>8. CASE graph' = graph /\ rules' = rules
    BY <2>1, <2>8
  <2>9. ~ RLoad
    BY <1>6 DEF RLoad
  <2>10. \/ RCleanup \/ RDelete
         \/ \E n \in Read("node") : AddNode(n) /\ rules' = rules
         \/ \E w \in Read("way") : AddWay(w) /\ rules' = rules
         \/ \E r \in Read("relation") : (AddRelation(r) \/ IgnoreRelation(r)) /\ rules' = rules \o Given(r)
         \/ graph' = graph /\ rules' = rules
    BY <2>9 DEF RNext, RNode, RWay, RRelation, RFail, Fail, IgnoreNode, IgnoreWay, Done, history, vars
  <2> QED  BY <2>3, <2>4, <2>5, <2>6, <2>7, <2>8, <2>10
<1>7. \/ loads' > 1 \/ (RLoad /\ loads' <= 1) \/ (loads' = loads /\ loads = 0) \/ (loads' = loads /\ loads = 1)
  <2>1. RLoad \/ loads' = loads
    BY DEF RNext, RNode, RWay, RRelation, RCleanup, RFail, RDelete, history
  <2> QED  BY <1>1, <2>1
<1> QED  BY <1>3, <1>4, <1>5, <1>6, <1>7

LEMMA RulesInvImplies ==
    ASSUME RulesInv
    PROVE  RestrictionsInOrderHold
<1> SUFFICES ASSUME loads = 1, Ordered(rules), NEW s \in OsmWalks(graph, WalkLength)
             PROVE  s \in LawfulWalks(roads, ToSet(rules), WalkLength)
  BY InOrderMeans DEF RestrictionsInOrderHold, RestrictionsHold, GraphWalks, RoadWalks
<1>1. CostsInv /\ RulesHold(graph, rules) /\ WalkLength \in Nat
  BY WalkLengthAssumption DEF RulesInv
<1>2. IsGraph(graph) /\ IsGraph(roads) /\ \A id \in DOMAIN roads : roads[id].osm_id = id
  BY <1>1 DEF CostsInv, OrphansInv, RoadsInv, TypeInv
<1>3. PICK p : IsPath(graph, p) /\ p # << >> /\ Len(p) <= WalkLength + 1 /\ s = Trace(graph, p)
  BY <1>1, <1>2, WalksArePaths
<1> DEFINE f == [id \in DOMAIN graph |-> graph[id].osm_id]
           t == [i \in DOMAIN p |-> f[p[i]]]
<1>4. IsImage(graph, roads, f)
  BY <1>1, RoadsAreImage
<1> HIDE DEF f
<1>5. IsPath(roads, t) /\ Trace(roads, t) = Trace(graph, p) /\ Len(t) = Len(p)
  BY <1>3, <1>4, ImageOfPath
<1> HIDE DEF t
<1>6. t \in Seq(DOMAIN roads) /\ Len(t) \in Nat \ {0}
  BY <1>3, <1>5 DEF IsPath
<1>7. t # << >> /\ t[1] \in DOMAIN roads
  BY <1>6
<1>8. Canonical(roads, t[1]) /\ Len(t) <= WalkLength + 1 /\ s = Trace(roads, t)
  BY <1>2, <1>3, <1>5, <1>7 DEF Canonical, HasNode, OsmId
<1>9. s \in OsmWalks(roads, WalkLength)
  BY <1>1, <1>2, <1>5, <1>7, <1>8, WalksArePaths
<1>10. Lawful(ToSet(rules), s)
  BY <1>1, <1>3 DEF RulesHold, Abides
<1> QED  BY <1>9, <1>10 DEF LawfulWalks

\* Restrictions that are given in order hold after a first load, whatever the
\* network, however they share nodes and in whichever order hash tables give their
\* edges: no walk through the graph, of any length and through any clones, breaks
\* one.  It takes that ways come before relations, as in OpenStreetMap's own files,
\* that a relation is read as the turn it describes, and that no mandatory
\* restriction stands whose turn earlier ones have closed.
THEOREM RestrictionsHoldInOrder ==
    ASSUME WaysNameOsmNodes, TurnsNameOsmNodes
    PROVE  RSpec /\ [][RoadsAreKept]_rvars /\ [](WaysComeFirst /\ MembersMean /\ TurnsAreThere)
               => []RestrictionsInOrderHold
<1>1. RInit => RulesInv
  <2>1. RInit => CostsInv
    BY CostsInit
  <2> QED  BY <2>1 DEF RInit, Init, EmptyGraph, RulesInv
<1>2. RulesInv /\ [RNext]_rvars /\ [RoadsAreKept]_rvars /\ WaysComeFirst /\ MembersMean /\ TurnsAreThere
          => RulesInv'
  <2> SUFFICES ASSUME RulesInv, [RNext]_rvars, [RoadsAreKept]_rvars, WaysComeFirst, MembersMean, TurnsAreThere
               PROVE  RulesInv'
    OBVIOUS
  <2>1. CASE UNCHANGED rvars
    <3>1. loads <= 1 => CostsInv'
      <4>1. CostsInv /\ UNCHANGED rvars => CostsInv'
        BY CostsNext DEF rvars
      <4> QED  BY <2>1, <4>1 DEF RulesInv
    <3>2. /\ loads' = loads /\ graph' = graph /\ rules' = rules /\ pc' = pc
      BY <2>1 DEF rvars, vars, reader, history
    <3> QED  BY <3>1, <3>2 DEF RulesInv
  <2>2. CASE ~ UNCHANGED rvars
    BY <2>2, RulesNext
  <2> QED  BY <2>1, <2>2
<1>3. RulesInv => RestrictionsInOrderHold
  BY RulesInvImplies
<1> QED  BY <1>1, <1>2, <1>3, PTL DEF RSpec

=============================================================================
