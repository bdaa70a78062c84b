-------------------------- MODULE GraphStoreProofs --------------------------
(***************************************************************************)
(* For any ids, positions and costs, and any sequence of calls: a graph    *)
(* keeps its shape, and is two maps to its users.                          *)
(***************************************************************************)
EXTENDS GraphStore, TLAPS

Edge == [to : Ids, cost : Costs]

\* CostMap and NodeMap of any graph.
CostsOf(g) ==
    [p \in {q \in (DOMAIN g) \X Ids : HasEdge(g, q[1], q[2])} |-> GetEdge(g, p[1], p[2])]

NodesOf(g) == [id \in DOMAIN g |-> [osm_id |-> OsmId(g, id), pos |-> Pos(g, id)]]

---------------------------------------------------------------------------
(* Lists of edges *)

\* When no two edges lead to one node, the first match is the match.
LEMMA FirstIsOnly ==
    ASSUME NEW es \in Seq(Edge), OneEdgePerTarget(es), NEW i \in DOMAIN es
    PROVE  EdgesTo(es, es[i].to) = {i} /\ FirstEdgeTo(es, es[i].to) = i
<1>1. EdgesTo(es, es[i].to) = {i}
  BY DEF EdgesTo, OneEdgePerTarget
<1>2. i <= i
  OBVIOUS
<1>3. FirstEdgeTo(es, es[i].to) \in {i}
  BY <1>1, <1>2 DEF FirstEdgeTo
<1> QED  BY <1>1, <1>3

\* set_edge on a list: the edge is there, and so are the edges to other nodes.
LEMMA PutEdgeOnList ==
    ASSUME NEW es \in Seq(Edge), OneEdgePerTarget(es), NEW e \in Edge
    PROVE  LET new == PutEdge(es, e) IN
           /\ new \in Seq(Edge)
           /\ OneEdgePerTarget(new)
           /\ \E j \in DOMAIN new : new[j] = e
           /\ \A i \in DOMAIN es : es[i].to # e.to => \E j \in DOMAIN new : new[j] = es[i]
           /\ \A j \in DOMAIN new : new[j] # e =>
                 \E i \in DOMAIN es : es[i] = new[j] /\ es[i].to # e.to
<1> DEFINE new == PutEdge(es, e)
<1>1. CASE EdgesTo(es, e.to) = {}
  <2>1. new = Append(es, e)
    BY <1>1 DEF PutEdge
  <2>2. /\ new \in Seq(Edge)
        /\ Len(new) = Len(es) + 1
        /\ new[Len(es) + 1] = e
        /\ \A i \in 1 .. Len(es) : new[i] = es[i]
        /\ DOMAIN new = 1 .. Len(es) + 1
        /\ DOMAIN es = 1 .. Len(es)
    BY <2>1
  <2>3. \A i \in DOMAIN es : es[i].to # e.to
    BY <1>1 DEF EdgesTo
  <2>4. \A j \in DOMAIN new : j = Len(es) + 1 \/ j \in DOMAIN es
    BY <2>2
  <2>5. OneEdgePerTarget(new)
    BY <2>2, <2>3, <2>4 DEF OneEdgePerTarget
  <2>6. Len(es) + 1 \in DOMAIN new /\ DOMAIN es \subseteq DOMAIN new
    BY <2>2
  <2> QED  BY <2>2, <2>3, <2>4, <2>5, <2>6
<1>2. CASE EdgesTo(es, e.to) # {}
  <2>1. PICK i \in DOMAIN es : es[i].to = e.to
    BY <1>2 DEF EdgesTo
  <2>2. new = [es EXCEPT ![i] = e]
    BY <1>2, <2>1, FirstIsOnly DEF PutEdge
  <2>3. /\ new \in Seq(Edge)
        /\ DOMAIN new = DOMAIN es
        /\ new[i] = e
        /\ \A j \in DOMAIN es : j # i => new[j] = es[j]
    BY <2>2
  <2>4. \A j \in DOMAIN es : j # i => es[j].to # e.to
    BY <2>1 DEF OneEdgePerTarget
  <2>5. OneEdgePerTarget(new)
    BY <2>3, <2>4 DEF OneEdgePerTarget
  <2> QED  BY <2>1, <2>3, <2>4, <2>5
<1> QED  BY <1>1, <1>2

\* Vec::swap_remove: all the edges but one, in whatever order.
LEMMA SwapRemoveOnList ==
    ASSUME NEW es \in Seq(Edge), OneEdgePerTarget(es), NEW k \in DOMAIN es
    PROVE  LET new == SwapRemove(es, k) IN
           /\ new \in Seq(Edge)
           /\ OneEdgePerTarget(new)
           /\ \A i \in DOMAIN es : i # k => \E j \in DOMAIN new : new[j] = es[i]
           /\ \A j \in DOMAIN new : \E i \in DOMAIN es : i # k /\ new[j] = es[i]
<1> DEFINE new == SwapRemove(es, k)
           n == Len(es)
           at == [j \in 1 .. n - 1 |-> IF j = k THEN n ELSE j]
<1>1. n \in Nat /\ DOMAIN es = 1 .. n /\ k \in 1 .. n
  OBVIOUS
<1>2. /\ DOMAIN new = 1 .. n - 1
      /\ \A j \in 1 .. n - 1 : at[j] \in (1 .. n) \ {k} /\ new[j] = es[at[j]]
  BY <1>1 DEF SwapRemove
<1>3. \A i, j \in 1 .. n - 1 : at[i] = at[j] => i = j
  BY <1>1
<1>4. new \in Seq(Edge)
  <2>1. \A j \in 1 .. n - 1 : new[j] \in Edge
    BY <1>1, <1>2
  <2>2. n - 1 \in Nat
    BY <1>1
  <2>3. new = [j \in 1 .. n - 1 |-> new[j]]
    BY <1>2 DEF SwapRemove
  <2> QED  BY <2>1, <2>2, <2>3
<1>5. OneEdgePerTarget(new)
  BY <1>1, <1>2, <1>3 DEF OneEdgePerTarget
<1>6. ASSUME NEW i \in 1 .. n, i # k
      PROVE  \E j \in 1 .. n - 1 : new[j] = es[i]
  <2>1. CASE i = n
    <3>1. k \in 1 .. n - 1 /\ at[k] = n
      BY <1>1, <1>6, <2>1
    <3> QED  BY <1>2, <2>1, <3>1
  <2>2. CASE i # n
    <3> HIDE DEF n
    <3>1. i \in 1 .. n - 1
      BY <1>1, <2>2
    <3>2. at[i] = i
      BY <1>6, <3>1
    <3> QED  BY <1>2, <3>1, <3>2
  <2> QED  BY <2>1, <2>2
<1>7. \A j \in 1 .. n - 1 : \E i \in 1 .. n : i # k /\ new[j] = es[i]
  BY <1>2
<1> HIDE DEF new, at
<1>8. DOMAIN new = 1 .. n - 1
  BY <1>2
<1> QED  BY <1>1, <1>4, <1>5, <1>6, <1>7, <1>8 DEF new

---------------------------------------------------------------------------
(* Graphs *)

LEMMA EdgesOfStore ==
    ASSUME NEW g, IsStore(g), NEW id \in DOMAIN g
    PROVE  /\ GetEdges(g, id) = g[id].edges
           /\ GetEdges(g, id) \in Seq(Edge)
           /\ OneEdgePerTarget(GetEdges(g, id))
           /\ id \in Ids
BY DEF IsStore, GetEdges, HasNode, Edge

\* Every edge is found, with its cost, and nothing else is.
LEMMA EdgeIsFound ==
    ASSUME NEW g, IsStore(g), NEW id \in DOMAIN g, NEW i \in DOMAIN GetEdges(g, id)
    PROVE  LET e == GetEdges(g, id)[i] IN
           e \in Edge /\ HasEdge(g, id, e.to) /\ GetEdge(g, id, e.to) = e.cost
<1> DEFINE es == GetEdges(g, id)
<1>1. es \in Seq(Edge) /\ OneEdgePerTarget(es)
  BY EdgesOfStore
<1>2. EdgesTo(es, es[i].to) = {i} /\ FirstEdgeTo(es, es[i].to) = i
  BY <1>1, FirstIsOnly
<1>3. es[i] \in Edge
  BY <1>1
<1> QED  BY <1>2, <1>3 DEF HasEdge, GetEdge

LEMMA FoundIsEdge ==
    ASSUME NEW g, NEW from, NEW to, HasEdge(g, from, to)
    PROVE  from \in DOMAIN g /\ \E i \in DOMAIN GetEdges(g, from) : GetEdges(g, from)[i].to = to
BY DEF HasEdge, GetEdges, HasNode, EdgesTo

\* A function that has exactly the edges of a graph.
Reflects(F, g) ==
    /\ F = [p \in DOMAIN F |-> F[p]]
    /\ \A id \in DOMAIN g : \A i \in DOMAIN GetEdges(g, id) :
          LET e == GetEdges(g, id)[i] IN <<id, e.to>> \in DOMAIN F /\ F[<<id, e.to>>] = e.cost
    /\ \A p \in DOMAIN F :
          \E id \in DOMAIN g : \E i \in DOMAIN GetEdges(g, id) : p = <<id, GetEdges(g, id)[i].to>>

LEMMA CostsReflect ==
    ASSUME NEW g, IsStore(g)
    PROVE  Reflects(CostsOf(g), g)
<1>1. ASSUME NEW id \in DOMAIN g, NEW i \in DOMAIN GetEdges(g, id)
      PROVE  LET e == GetEdges(g, id)[i] IN
             <<id, e.to>> \in DOMAIN CostsOf(g) /\ CostsOf(g)[<<id, e.to>>] = e.cost
  BY EdgeIsFound DEF CostsOf, Edge
<1>2. ASSUME NEW p \in DOMAIN CostsOf(g)
      PROVE  \E id \in DOMAIN g : \E i \in DOMAIN GetEdges(g, id) : p = <<id, GetEdges(g, id)[i].to>>
  <2>1. p = <<p[1], p[2]>> /\ HasEdge(g, p[1], p[2])
    BY DEF CostsOf
  <2> QED  BY <2>1, FoundIsEdge
<1>3. CostsOf(g) = [p \in DOMAIN CostsOf(g) |-> CostsOf(g)[p]]
  BY DEF CostsOf
<1> QED  BY <1>1, <1>2, <1>3 DEF Reflects

\* There is only one such function.
LEMMA ReflectionIsCosts ==
    ASSUME NEW g, IsStore(g), NEW F, Reflects(F, g)
    PROVE  CostsOf(g) = F
<1> DEFINE C == CostsOf(g)
<1>1. Reflects(C, g)
  BY CostsReflect
<1> HIDE DEF C
<1>2. \A p \in DOMAIN C : p \in DOMAIN F /\ F[p] = C[p]
  BY <1>1 DEF Reflects
<1>3. \A p \in DOMAIN F : p \in DOMAIN C
  BY <1>1 DEF Reflects
<1>4. C = [p \in DOMAIN C |-> C[p]] /\ F = [p \in DOMAIN F |-> F[p]]
  BY <1>1 DEF Reflects
<1>5. C = F
  BY <1>2, <1>3, <1>4
<1> QED  BY <1>5 DEF C

---------------------------------------------------------------------------
(* Operations *)

LEMMA SetNodeOnStore ==
    ASSUME NEW g, IsStore(g), NEW id \in Ids, NEW osm_id \in Ids, NEW pos \in Positions
    PROVE  LET h == SetNode(g, id, osm_id, pos) IN
           /\ IsStore(h)
           /\ NodesOf(h) = Map!Put(NodesOf(g), id, [osm_id |-> osm_id, pos |-> pos])
           /\ CostsOf(h) = CostsOf(g)
<1> DEFINE h == SetNode(g, id, osm_id, pos)
<1>1. DOMAIN h = DOMAIN g \cup {id}
  BY DEF SetNode
<1>2. \A x \in DOMAIN h : GetEdges(h, x) = GetEdges(g, x) /\ h[x].edges = GetEdges(g, x)
  BY DEF SetNode, GetEdges, HasNode
<1>3. \A x \in DOMAIN h :
         /\ GetEdges(g, x) \in Seq(Edge)
         /\ OneEdgePerTarget(GetEdges(g, x))
  <2>1. \A x \in DOMAIN h : x \notin DOMAIN g => GetEdges(g, x) = << >>
    BY DEF GetEdges, HasNode
  <2>2. << >> \in Seq(Edge) /\ OneEdgePerTarget(<< >>)
    BY DEF OneEdgePerTarget
  <2> QED  BY <2>1, <2>2, EdgesOfStore
<1>4. IsStore(h)
  <2>1. DOMAIN h \subseteq Ids
    BY <1>1 DEF IsStore
  <2>2. h[id] = [osm_id |-> osm_id, pos |-> pos, edges |-> GetEdges(g, id)]
    BY DEF SetNode, GetEdges, HasNode
  <2>3. \A x \in DOMAIN h : x # id => x \in DOMAIN g /\ h[x] = g[x]
    BY <1>1 DEF SetNode
  <2>4. ASSUME NEW x \in DOMAIN h
        PROVE  h[x] \in [osm_id : Ids, pos : Positions, edges : Seq(Edge)]
    <3>1. CASE x = id
      BY <1>3, <2>2, <3>1
    <3>2. CASE x # id
      BY <2>3, <3>2 DEF IsStore, Edge
    <3> QED  BY <3>1, <3>2
  <2> QED  BY <1>2, <1>3, <2>1, <2>4 DEF IsStore, Edge
<1>5. Reflects(CostsOf(g), h)
  <2>1. Reflects(CostsOf(g), g)
    BY CostsReflect
  <2>2. \A x \in DOMAIN h : x \notin DOMAIN g => DOMAIN GetEdges(g, x) = {}
    BY DEF GetEdges, HasNode
  <2> HIDE DEF h
  <2> QED  BY <1>1, <1>2, <2>1, <2>2 DEF Reflects
<1>6. NodesOf(h) = Map!Put(NodesOf(g), id, [osm_id |-> osm_id, pos |-> pos])
  BY DEF NodesOf, Map!Put, SetNode, OsmId, Pos
<1> QED  BY <1>4, <1>5, <1>6, ReflectionIsCosts

LEMMA DeleteNodeOnStore ==
    ASSUME NEW g, IsStore(g), NEW id \in Ids
    PROVE  LET h == DeleteNode(g, id) IN
           /\ IsStore(h)
           /\ NodesOf(h) = Map!Restrict(NodesOf(g), DOMAIN NodesOf(g) \ {id})
           /\ CostsOf(h) = Map!Restrict(CostsOf(g), {p \in DOMAIN CostsOf(g) : p[1] # id})
<1> DEFINE h == DeleteNode(g, id)
           F == Map!Restrict(CostsOf(g), {p \in DOMAIN CostsOf(g) : p[1] # id})
<1>1. DOMAIN h = DOMAIN g \ {id} /\ \A x \in DOMAIN h : h[x] = g[x]
  BY DEF DeleteNode
<1>2. IsStore(h)
  BY <1>1 DEF IsStore
<1>3. \A x \in DOMAIN h : GetEdges(h, x) = GetEdges(g, x)
  BY <1>1 DEF GetEdges, HasNode
<1>4. Reflects(F, h)
  <2>1. Reflects(CostsOf(g), g)
    BY CostsReflect
  <2>2. /\ DOMAIN F = {p \in DOMAIN CostsOf(g) : p[1] # id}
        /\ F = [p \in DOMAIN F |-> F[p]]
        /\ \A p \in DOMAIN F : F[p] = CostsOf(g)[p]
    BY DEF Map!Restrict
  <2> HIDE DEF h, F
  <2>3. ASSUME NEW p \in DOMAIN F
        PROVE  \E x \in DOMAIN h : \E i \in DOMAIN GetEdges(h, x) : p = <<x, GetEdges(h, x)[i].to>>
    <3>1. PICK x \in DOMAIN g : \E i \in DOMAIN GetEdges(g, x) : p = <<x, GetEdges(g, x)[i].to>>
      BY <2>1, <2>2 DEF Reflects
    <3>2. x # id
      BY <2>2, <3>1
    <3> QED  BY <1>1, <1>3, <3>1, <3>2
  <2>4. ASSUME NEW x \in DOMAIN h, NEW i \in DOMAIN GetEdges(h, x)
        PROVE  LET e == GetEdges(h, x)[i] IN <<x, e.to>> \in DOMAIN F /\ F[<<x, e.to>>] = e.cost
    BY <1>1, <1>3, <2>1, <2>2 DEF Reflects
  <2> QED  BY <2>2, <2>3, <2>4 DEF Reflects
<1>5. NodesOf(h) = Map!Restrict(NodesOf(g), DOMAIN NodesOf(g) \ {id})
  BY <1>1 DEF NodesOf, Map!Restrict, OsmId, Pos
<1> QED  BY <1>2, <1>4, <1>5, ReflectionIsCosts

\* What is common to the operations that replace the edges of one node.
WithEdges(g, from, es) == [g EXCEPT ![from].edges = es]

LEMMA EdgesReplaced ==
    ASSUME NEW g, IsStore(g), NEW from \in DOMAIN g, NEW es \in Seq(Edge), OneEdgePerTarget(es),
           NEW h, h = WithEdges(g, from, es)
    PROVE  /\ IsStore(h)
           /\ NodesOf(h) = NodesOf(g)
           /\ DOMAIN h = DOMAIN g
           /\ GetEdges(h, from) = es
           /\ \A x \in DOMAIN g : x # from => GetEdges(h, x) = GetEdges(g, x)
<1>1. g[from] \in [osm_id : Ids, pos : Positions, edges : Seq(Edge)]
  BY DEF IsStore, Edge
<1>2. /\ DOMAIN h = DOMAIN g
      /\ h[from] = [g[from] EXCEPT !.edges = es]
      /\ \A x \in DOMAIN g : x # from => h[x] = g[x]
  BY <1>1 DEF IsStore, WithEdges
<1>3. /\ h[from] \in [osm_id : Ids, pos : Positions, edges : Seq(Edge)]
      /\ h[from].edges = es
      /\ h[from].osm_id = g[from].osm_id
      /\ h[from].pos = g[from].pos
  BY <1>1, <1>2
<1>4. IsStore(h)
  BY <1>2, <1>3 DEF IsStore, Edge
<1>5. NodesOf(h) = NodesOf(g)
  <2>1. \A x \in DOMAIN g : OsmId(h, x) = OsmId(g, x) /\ Pos(h, x) = Pos(g, x)
    BY <1>2, <1>3 DEF OsmId, Pos
  <2> QED  BY <1>2, <2>1 DEF NodesOf
<1>6. /\ GetEdges(h, from) = es
      /\ \A x \in DOMAIN g : x # from => GetEdges(h, x) = GetEdges(g, x)
  BY <1>2, <1>3 DEF GetEdges, HasNode
<1> QED  BY <1>2, <1>4, <1>5, <1>6

LEMMA SetEdgeOnStore ==
    ASSUME NEW g, IsStore(g), NEW from \in DOMAIN g, NEW to \in DOMAIN g, NEW c \in Costs
    PROVE  LET h == SetEdge(g, from, [to |-> to, cost |-> c]) IN
           /\ IsStore(h)
           /\ NodesOf(h) = NodesOf(g)
           /\ CostsOf(h) = Map!Put(CostsOf(g), <<from, to>>, c)
<1> DEFINE e == [to |-> to, cost |-> c]
           es == GetEdges(g, from)
           new == PutEdge(es, e)
           h == SetEdge(g, from, e)
           F == Map!Put(CostsOf(g), <<from, to>>, c)
<1>1. e \in Edge /\ e.to = to /\ e.cost = c
  BY DEF IsStore, Edge
<1>2. es \in Seq(Edge) /\ OneEdgePerTarget(es) /\ es = g[from].edges
  BY EdgesOfStore
<1> HIDE DEF e
<1>3. /\ new \in Seq(Edge)
      /\ OneEdgePerTarget(new)
      /\ \E j \in DOMAIN new : new[j] = e
      /\ \A i \in DOMAIN es : es[i].to # to => \E j \in DOMAIN new : new[j] = es[i]
      /\ \A j \in DOMAIN new : new[j] # e => \E i \in DOMAIN es : es[i] = new[j] /\ es[i].to # to
  <2>1. /\ new \in Seq(Edge)
        /\ OneEdgePerTarget(new)
        /\ \E j \in DOMAIN new : new[j] = e
        /\ \A i \in DOMAIN es : es[i].to # e.to => \E j \in DOMAIN new : new[j] = es[i]
        /\ \A j \in DOMAIN new : new[j] # e => \E i \in DOMAIN es : es[i] = new[j] /\ es[i].to # e.to
    <3> HIDE DEF es
    <3> QED  BY <1>1, <1>2, PutEdgeOnList
  <2> HIDE DEF new
  <2> QED  BY <1>1, <2>1
<1> HIDE DEF new
<1>4. h = WithEdges(g, from, new)
  BY <1>1, <1>2 DEF SetEdge, HasNode, WithEdges, new
<1> HIDE DEF h
<1>5. /\ IsStore(h)
      /\ NodesOf(h) = NodesOf(g)
      /\ DOMAIN h = DOMAIN g
      /\ GetEdges(h, from) = new
      /\ \A x \in DOMAIN g : x # from => GetEdges(h, x) = GetEdges(g, x)
  <2>1. new \in Seq(Edge) /\ OneEdgePerTarget(new)
    BY <1>3
  <2> QED  BY <1>4, <2>1, EdgesReplaced
<1>6. Reflects(CostsOf(g), g)
  BY CostsReflect
<1>7. /\ DOMAIN F = DOMAIN CostsOf(g) \cup {<<from, to>>}
      /\ F[<<from, to>>] = c
      /\ \A p \in DOMAIN CostsOf(g) : p # <<from, to>> => F[p] = CostsOf(g)[p]
      /\ F = [p \in DOMAIN F |-> F[p]]
  BY DEF Map!Put
<1> HIDE DEF F
<1>8. ASSUME NEW x \in DOMAIN h, NEW i \in DOMAIN GetEdges(h, x)
      PROVE  LET l == GetEdges(h, x)[i] IN <<x, l.to>> \in DOMAIN F /\ F[<<x, l.to>>] = l.cost
  <2>1. CASE x = from /\ new[i] = e
    BY <1>1, <1>5, <1>7, <2>1
  <2>2. CASE x = from /\ new[i] # e
    <3>1. PICK k \in DOMAIN es : es[k] = new[i] /\ es[k].to # to
      BY <1>3, <1>5, <2>2
    <3> QED  BY <1>5, <1>6, <1>7, <2>2, <3>1 DEF Reflects
  <2>3. CASE x # from
    BY <1>5, <1>6, <1>7, <2>3 DEF Reflects
  <2> QED  BY <2>1, <2>2, <2>3
<1>9. ASSUME NEW p \in DOMAIN F
      PROVE  \E x \in DOMAIN h : \E i \in DOMAIN GetEdges(h, x) : p = <<x, GetEdges(h, x)[i].to>>
  <2>1. CASE p = <<from, to>>
    BY <1>1, <1>3, <1>5, <2>1
  <2>2. CASE p # <<from, to>>
    <3>1. PICK x \in DOMAIN g : \E i \in DOMAIN GetEdges(g, x) : p = <<x, GetEdges(g, x)[i].to>>
      BY <1>6, <1>7, <2>2 DEF Reflects
    <3>2. CASE x = from
      BY <1>3, <1>5, <2>2, <3>1, <3>2
    <3>3. CASE x # from
      BY <1>5, <3>1, <3>3
    <3> QED  BY <3>2, <3>3
  <2> QED  BY <2>1, <2>2
<1>10. CostsOf(h) = F
  BY <1>5, <1>7, <1>8, <1>9, ReflectionIsCosts DEF Reflects
<1> QED  BY <1>5, <1>10 DEF F, h, e

\* A refused edge leaves the graph alone.
LEMMA RefusedEdgeOnStore ==
    ASSUME NEW g, NEW from, NEW to, NEW c, ~ {from, to} \subseteq DOMAIN g
    PROVE  SetEdge(g, from, [to |-> to, cost |-> c]) = g
BY DEF SetEdge, HasNode

LEMMA DeleteEdgeOnStore ==
    ASSUME NEW g, IsStore(g), NEW from \in Ids, NEW to \in Ids
    PROVE  LET h == DeleteEdge(g, from, to) IN
           /\ IsStore(h)
           /\ NodesOf(h) = NodesOf(g)
           /\ CostsOf(h) = Map!Restrict(CostsOf(g), DOMAIN CostsOf(g) \ {<<from, to>>})
<1> DEFINE h == DeleteEdge(g, from, to)
           F == Map!Restrict(CostsOf(g), DOMAIN CostsOf(g) \ {<<from, to>>})
           es == GetEdges(g, from)
<1>1. Reflects(CostsOf(g), g)
  BY CostsReflect
<1>2. /\ DOMAIN F = DOMAIN CostsOf(g) \ {<<from, to>>}
      /\ F = [p \in DOMAIN F |-> F[p]]
      /\ \A p \in DOMAIN F : F[p] = CostsOf(g)[p]
  BY DEF Map!Restrict
<1>3. CASE ~ HasEdge(g, from, to)
  <2>1. h = g
    BY <1>3 DEF DeleteEdge
  <2>2. <<from, to>> \notin DOMAIN CostsOf(g)
    BY <1>3 DEF CostsOf
  <2>3. F = CostsOf(g)
    <3> HIDE DEF F
    <3>1. CostsOf(g) = [p \in DOMAIN CostsOf(g) |-> CostsOf(g)[p]]
      BY DEF CostsOf
    <3> QED  BY <1>2, <2>2, <3>1
  <2> QED  BY <2>1, <2>3
<1>4. CASE HasEdge(g, from, to)
  <2>1. from \in DOMAIN g /\ \E i \in DOMAIN es : es[i].to = to
    BY <1>4, FoundIsEdge
  <2>2. PICK k \in DOMAIN es : es[k].to = to
    BY <2>1
  <2>3. es \in Seq(Edge) /\ OneEdgePerTarget(es) /\ es = g[from].edges
    BY <2>1, EdgesOfStore
  <2> DEFINE new == SwapRemove(es, k)
  <2>4. FirstEdgeTo(es, to) = k
    BY <2>2, <2>3, FirstIsOnly
  <2>5. h = WithEdges(g, from, new)
    BY <1>4, <2>1, <2>3, <2>4 DEF DeleteEdge, WithEdges
  <2>6. /\ new \in Seq(Edge)
        /\ OneEdgePerTarget(new)
        /\ \A i \in DOMAIN es : i # k => \E j \in DOMAIN new : new[j] = es[i]
        /\ \A j \in DOMAIN new : \E i \in DOMAIN es : i # k /\ new[j] = es[i]
    <3> HIDE DEF es
    <3> QED  BY <2>3, SwapRemoveOnList
  <2> HIDE DEF new, h, F
  <2>7. \A i \in DOMAIN es : i # k => es[i].to # to
    BY <2>2, <2>3 DEF OneEdgePerTarget
  <2>8. /\ IsStore(h)
        /\ NodesOf(h) = NodesOf(g)
        /\ DOMAIN h = DOMAIN g
        /\ GetEdges(h, from) = new
        /\ \A x \in DOMAIN g : x # from => GetEdges(h, x) = GetEdges(g, x)
    BY <2>1, <2>5, <2>6, EdgesReplaced
  <2>9. ASSUME NEW x \in DOMAIN h, NEW i \in DOMAIN GetEdges(h, x)
        PROVE  LET l == GetEdges(h, x)[i] IN <<x, l.to>> \in DOMAIN F /\ F[<<x, l.to>>] = l.cost
    <3>1. CASE x = from
      <4>1. PICK j \in DOMAIN es : j # k /\ new[i] = es[j]
        BY <2>6, <2>8, <3>1
      <4> QED  BY <1>1, <1>2, <2>1, <2>7, <2>8, <3>1, <4>1 DEF Reflects
    <3>2. CASE x # from
      BY <1>1, <1>2, <2>8, <3>2 DEF Reflects
    <3> QED  BY <3>1, <3>2
  <2>10. ASSUME NEW p \in DOMAIN F
         PROVE  \E x \in DOMAIN h : \E i \in DOMAIN GetEdges(h, x) : p = <<x, GetEdges(h, x)[i].to>>
    <3>1. PICK x \in DOMAIN g : \E i \in DOMAIN GetEdges(g, x) : p = <<x, GetEdges(g, x)[i].to>>
      BY <1>1, <1>2 DEF Reflects
    <3>2. CASE x = from
      <4>1. PICK i \in DOMAIN es : p = <<from, es[i].to>>
        BY <3>1, <3>2
      <4>2. i # k
        BY <1>2, <2>2, <4>1
      <4> QED  BY <2>1, <2>6, <2>8, <4>1, <4>2
    <3>3. CASE x # from
      BY <2>8, <3>1, <3>3
    <3> QED  BY <3>2, <3>3
  <2>11. CostsOf(h) = F
    BY <1>2, <2>8, <2>9, <2>10, ReflectionIsCosts DEF Reflects
  <2> QED  BY <2>8, <2>11 DEF F, h
<1> QED  BY <1>3, <1>4

\* What CloneEdges of GraphMap does to costs.
ClonedCosts(g, dst, src) ==
    [p \in {q \in (DOMAIN NodesOf(g)) \X Ids :
               <<IF q[1] = dst THEN src ELSE q[1], q[2]>> \in DOMAIN CostsOf(g)} |->
        CostsOf(g)[<<IF p[1] = dst THEN src ELSE p[1], p[2]>>]]

LEMMA CloneEdgesOnStore ==
    ASSUME NEW g, IsStore(g), NEW dst \in Ids, NEW src \in Ids
    PROVE  LET h == CloneEdges(g, dst, src) IN
           /\ IsStore(h)
           /\ NodesOf(h) = NodesOf(g)
           /\ CostsOf(h) = ClonedCosts(g, dst, src)
<1> DEFINE h == CloneEdges(g, dst, src)
           F == ClonedCosts(g, dst, src)
           Of(x) == IF x = dst THEN src ELSE x
<1>1. Reflects(CostsOf(g), g)
  BY CostsReflect
<1>2. /\ IsStore(h)
      /\ NodesOf(h) = NodesOf(g)
      /\ DOMAIN h = DOMAIN g
      /\ \A x \in DOMAIN g : GetEdges(h, x) = GetEdges(g, Of(x))
  <2>1. CASE dst \notin DOMAIN g
    <3>1. h = g
      BY <2>1 DEF CloneEdges, HasNode
    <3> QED  BY <2>1, <3>1
  <2>2. CASE dst \in DOMAIN g
    <3> DEFINE new == GetEdges(g, src)
    <3>1. new \in Seq(Edge) /\ OneEdgePerTarget(new)
      <4>1. CASE src \in DOMAIN g
        BY <4>1, EdgesOfStore
      <4>2. CASE src \notin DOMAIN g
        <5>1. new = << >>
          BY <4>2 DEF GetEdges, HasNode
        <5> QED  BY <5>1 DEF OneEdgePerTarget
      <4> QED  BY <4>1, <4>2
    <3>2. h = WithEdges(g, dst, new)
      BY <2>2 DEF CloneEdges, HasNode, WithEdges
    <3> HIDE DEF h, new
    <3>3. /\ IsStore(h)
          /\ NodesOf(h) = NodesOf(g)
          /\ DOMAIN h = DOMAIN g
          /\ GetEdges(h, dst) = new
          /\ \A x \in DOMAIN g : x # dst => GetEdges(h, x) = GetEdges(g, x)
      BY <2>2, <3>1, <3>2, EdgesReplaced
    <3> QED  BY <3>3 DEF new
  <2> QED  BY <2>1, <2>2
<1>3. DOMAIN NodesOf(g) = DOMAIN g
  BY DEF NodesOf
<1>4. /\ DOMAIN F = {q \in (DOMAIN g) \X Ids : <<Of(q[1]), q[2]>> \in DOMAIN CostsOf(g)}
      /\ F = [p \in DOMAIN F |-> F[p]]
      /\ \A p \in DOMAIN F : F[p] = CostsOf(g)[<<Of(p[1]), p[2]>>]
  BY <1>3 DEF ClonedCosts
<1> HIDE DEF h, F, Of
<1>5. ASSUME NEW x \in DOMAIN h, NEW i \in DOMAIN GetEdges(h, x)
      PROVE  LET l == GetEdges(h, x)[i] IN <<x, l.to>> \in DOMAIN F /\ F[<<x, l.to>>] = l.cost
  <2>1. x \in DOMAIN g /\ GetEdges(h, x) = GetEdges(g, Of(x))
    BY <1>2
  <2>2. Of(x) \in DOMAIN g
    <3>1. i \in DOMAIN GetEdges(g, Of(x))
      BY <2>1
    <3> QED  BY <3>1 DEF GetEdges, HasNode
  <2> DEFINE l == GetEdges(g, Of(x))[i]
  <2>3. l.to \in Ids /\ <<Of(x), l.to>> \in DOMAIN CostsOf(g) /\ CostsOf(g)[<<Of(x), l.to>>] = l.cost
    BY <1>1, <2>1, <2>2, EdgeIsFound DEF Reflects, Edge
  <2>4. <<x, l.to>> \in DOMAIN F
    BY <1>4, <2>1, <2>3
  <2>5. F[<<x, l.to>>] = l.cost
    BY <1>4, <2>3, <2>4
  <2> QED  BY <2>1, <2>4, <2>5
<1>6. ASSUME NEW p \in DOMAIN F
      PROVE  \E x \in DOMAIN h : \E i \in DOMAIN GetEdges(h, x) : p = <<x, GetEdges(h, x)[i].to>>
  <2>1. p = <<p[1], p[2]>> /\ p[1] \in DOMAIN g /\ <<Of(p[1]), p[2]>> \in DOMAIN CostsOf(g)
    BY <1>4
  <2>2. PICK y \in DOMAIN g : \E i \in DOMAIN GetEdges(g, y) :
            <<Of(p[1]), p[2]>> = <<y, GetEdges(g, y)[i].to>>
    BY <1>1, <2>1 DEF Reflects
  <2>3. PICK i \in DOMAIN GetEdges(g, Of(p[1])) : p[2] = GetEdges(g, Of(p[1]))[i].to
    BY <2>2
  <2> QED  BY <1>2, <2>1, <2>3
<1>7. CostsOf(h) = F
  <2>1. F = [p \in DOMAIN F |-> F[p]]
    BY <1>4
  <2>2. Reflects(F, h)
    BY <1>5, <1>6, <2>1 DEF Reflects
  <2>3. IsStore(h)
    BY <1>2
  <2> QED  BY <2>2, <2>3, ReflectionIsCosts
<1> QED  BY <1>2, <1>7 DEF F, h

---------------------------------------------------------------------------
(* The theorems *)

LEMMA AnswerIsBoolean ==
    ASSUME NEW op, NEW args, NEW returned \in BOOLEAN, Called(op, args, returned)
    PROVE  (last.returned \in BOOLEAN)'
BY DEF Called

\* Type correctness, for all ids, positions and costs and every sequence of
\* calls: edges to one target are never stored twice, whatever was pushed,
\* swapped or cloned.  It is what searches assume of the graphs they get.
THEOREM StoreTypeCorrect == Spec => []TypeOK
<1>1. Init => TypeOK
  BY DEF Init, TypeOK, IsStore, EmptyGraph
<1>2. TypeOK /\ [Next]_vars => TypeOK'
  <2> SUFFICES ASSUME TypeOK, [Next]_vars
               PROVE  IsStore(graph') /\ (last.returned \in BOOLEAN)'
    BY DEF TypeOK
  <2>1. IsStore(graph) /\ last.returned \in BOOLEAN
    BY DEF TypeOK
  <2>2. \A id, to : HasNode(graph, id) \in BOOLEAN /\ HasEdge(graph, id, to) \in BOOLEAN
    BY DEF HasNode, HasEdge
  <2>3. ASSUME NEW id \in Ids, NEW osm_id \in Ids, NEW pos \in Positions, DoSetNode(id, osm_id, pos)
        PROVE  IsStore(graph') /\ (last.returned \in BOOLEAN)'
    BY <2>1, <2>2, <2>3, SetNodeOnStore, AnswerIsBoolean DEF DoSetNode
  <2>4. ASSUME NEW id \in Ids, DoDeleteNode(id)
        PROVE  IsStore(graph') /\ (last.returned \in BOOLEAN)'
    BY <2>1, <2>2, <2>4, DeleteNodeOnStore, AnswerIsBoolean DEF DoDeleteNode
  <2>5. ASSUME NEW from \in Ids, NEW to \in Ids, NEW c \in Costs, DoSetEdge(from, to, c)
        PROVE  IsStore(graph') /\ (last.returned \in BOOLEAN)'
    <3>1. (last.returned \in BOOLEAN)'
      <4>1. (HasNode(graph, to) /\ HasEdge(graph, from, to)) \in BOOLEAN
        OBVIOUS
      <4> QED  BY <2>5, <4>1, AnswerIsBoolean DEF DoSetEdge
    <3>2. CASE from \in DOMAIN graph /\ to \in DOMAIN graph
      BY <2>1, <2>5, <3>1, <3>2, SetEdgeOnStore DEF DoSetEdge
    <3>3. CASE ~ {from, to} \subseteq DOMAIN graph
      BY <2>1, <2>5, <3>1, <3>3, RefusedEdgeOnStore DEF DoSetEdge
    <3> QED  BY <3>2, <3>3
  <2>6. ASSUME NEW from \in Ids, NEW to \in Ids, DoDeleteEdge(from, to)
        PROVE  IsStore(graph') /\ (last.returned \in BOOLEAN)'
    BY <2>1, <2>2, <2>6, DeleteEdgeOnStore, AnswerIsBoolean DEF DoDeleteEdge
  <2>7. ASSUME NEW dst \in Ids, NEW src \in Ids, DoCloneEdges(dst, src)
        PROVE  IsStore(graph') /\ (last.returned \in BOOLEAN)'
    BY <2>1, <2>7, CloneEdgesOnStore, AnswerIsBoolean DEF DoCloneEdges
  <2>8. CASE UNCHANGED vars
    BY <2>1, <2>8 DEF vars
  <2> QED  BY <2>3, <2>4, <2>5, <2>6, <2>7, <2>8 DEF Next
<1> QED  BY <1>1, <1>2, PTL DEF Spec

\* The graph implements the two maps: each call changes them as GraphMap says
\* and returns what GraphMap returns, for every sequence of calls.
THEOREM StoreImplementsMap == Spec => ImplementsMap
<1>1. Init => Map!Init
  BY DEF Init, Map!Init, NodeMap, CostMap, EmptyGraph
<1>2. TypeOK /\ [Next]_vars => [Map!Next]_(Map!vars)
  <2> SUFFICES ASSUME TypeOK, [Next]_vars
               PROVE  Map!Next \/ UNCHANGED Map!vars
    BY DEF Map!vars
  <2>1. IsStore(graph)
    BY DEF TypeOK
  <2>2. /\ NodeMap = NodesOf(graph) /\ CostMap = CostsOf(graph)
        /\ NodeMap' = NodesOf(graph') /\ CostMap' = CostsOf(graph')
    BY DEF NodeMap, CostMap, NodesOf, CostsOf
  <2>3. \A id : HasNode(graph, id) = (id \in DOMAIN NodeMap)
    BY DEF NodeMap, HasNode
  <2>4. \A from, to \in Ids : HasEdge(graph, from, to) = (<<from, to>> \in DOMAIN CostMap)
    <3>1. \A from, to \in Ids : HasEdge(graph, from, to) <=> <<from, to>> \in DOMAIN CostMap
      BY FoundIsEdge DEF CostMap
    <3> TAKE from, to \in Ids
    <3>2. (EdgesTo(GetEdges(graph, from), to) # {}) = (<<from, to>> \in DOMAIN CostMap)
      BY <3>1 DEF HasEdge
    <3> QED  BY <3>2 DEF HasEdge
  <2>5. ASSUME NEW id \in Ids, NEW osm_id \in Ids, NEW pos \in Positions, DoSetNode(id, osm_id, pos)
        PROVE  Map!SetNode(id, osm_id, pos)
    <3>1. Map!Called("set_node", <<id, osm_id, pos>>, id \in DOMAIN NodeMap)
      BY <2>3, <2>5 DEF DoSetNode, Called, Map!Called
    <3>2. /\ NodeMap' = Map!Put(NodeMap, id, [osm_id |-> osm_id, pos |-> pos])
          /\ CostMap' = CostMap
      BY <2>1, <2>2, <2>5, SetNodeOnStore DEF DoSetNode
    <3> QED  BY <3>1, <3>2 DEF Map!SetNode
  <2>6. ASSUME NEW id \in Ids, DoDeleteNode(id)
        PROVE  Map!DeleteNode(id)
    <3>1. Map!Called("delete_node", <<id>>, id \in DOMAIN NodeMap)
      BY <2>3, <2>6 DEF DoDeleteNode, Called, Map!Called
    <3>2. /\ NodeMap' = Map!Restrict(NodeMap, DOMAIN NodeMap \ {id})
          /\ CostMap' = Map!Restrict(CostMap, {p \in DOMAIN CostMap : p[1] # id})
      BY <2>1, <2>2, <2>6, DeleteNodeOnStore DEF DoDeleteNode
    <3> QED  BY <3>1, <3>2 DEF Map!DeleteNode
  <2>7. ASSUME NEW from \in Ids, NEW to \in Ids, NEW c \in Costs, DoSetEdge(from, to, c)
        PROVE  Map!SetEdge(from, to, c) \/ Map!RefuseEdge(from, to, c)
    <3>1. CASE {from, to} \subseteq DOMAIN NodeMap
      <4>1. from \in DOMAIN graph /\ to \in DOMAIN graph
        BY <2>3, <3>1 DEF HasNode
      <4>2. Map!Called("set_edge", <<from, to, c>>, <<from, to>> \in DOMAIN CostMap)
        <5>1. (HasNode(graph, to) /\ HasEdge(graph, from, to)) = (<<from, to>> \in DOMAIN CostMap)
          <6>1. HasNode(graph, to) = TRUE
            BY <4>1 DEF HasNode
          <6> QED  BY <2>4, <6>1 DEF HasEdge
        <5> QED  BY <2>7, <5>1 DEF DoSetEdge, Called, Map!Called
      <4>3. NodeMap' = NodeMap /\ CostMap' = Map!Put(CostMap, <<from, to>>, c)
        BY <2>1, <2>2, <2>7, <4>1, SetEdgeOnStore DEF DoSetEdge
      <4> QED  BY <3>1, <4>2, <4>3 DEF Map!SetEdge
    <3>2. CASE ~ {from, to} \subseteq DOMAIN NodeMap
      <4>1. ~ {from, to} \subseteq DOMAIN graph
        BY <2>3, <3>2 DEF HasNode
      <4>2. Map!Called("set_edge", <<from, to, c>>, FALSE)
        <5>1. (HasNode(graph, to) /\ HasEdge(graph, from, to)) = FALSE
          BY <4>1, FoundIsEdge DEF HasNode
        <5> QED  BY <2>7, <5>1 DEF DoSetEdge, Called, Map!Called
      <4>3. NodeMap' = NodeMap /\ CostMap' = CostMap
        BY <2>2, <2>7, <4>1, RefusedEdgeOnStore DEF DoSetEdge
      <4> QED  BY <3>2, <4>2, <4>3 DEF Map!RefuseEdge
    <3> QED  BY <3>1, <3>2
  <2>8. ASSUME NEW from \in Ids, NEW to \in Ids, DoDeleteEdge(from, to)
        PROVE  Map!DeleteEdge(from, to)
    <3>1. Map!Called("delete_edge", <<from, to>>, <<from, to>> \in DOMAIN CostMap)
      BY <2>4, <2>8 DEF DoDeleteEdge, Called, Map!Called
    <3>2. /\ NodeMap' = NodeMap
          /\ CostMap' = Map!Restrict(CostMap, DOMAIN CostMap \ {<<from, to>>})
      BY <2>1, <2>2, <2>8, DeleteEdgeOnStore DEF DoDeleteEdge
    <3> QED  BY <3>1, <3>2 DEF Map!DeleteEdge
  <2>9. ASSUME NEW dst \in Ids, NEW src \in Ids, DoCloneEdges(dst, src)
        PROVE  Map!CloneEdges(dst, src)
    <3>1. Map!Called("clone_edges", <<dst, src>>, FALSE)
      BY <2>9 DEF DoCloneEdges, Called, Map!Called
    <3>2. NodeMap' = NodeMap /\ CostMap' = ClonedCosts(graph, dst, src)
      BY <2>1, <2>2, <2>9, CloneEdgesOnStore DEF DoCloneEdges
    <3> QED  BY <2>2, <3>1, <3>2 DEF Map!CloneEdges, ClonedCosts
  <2>10. CASE UNCHANGED vars
    <3>1. NodeMap' = NodeMap /\ CostMap' = CostMap /\ last' = last
      BY <2>2, <2>10 DEF vars
    <3> QED  BY <3>1 DEF Map!vars
  <2> QED  BY <2>5, <2>6, <2>7, <2>8, <2>9, <2>10 DEF Next, Map!Next
<1> QED  BY <1>1, <1>2, StoreTypeCorrect, PTL DEF Spec, ImplementsMap, Map!Spec

=============================================================================
