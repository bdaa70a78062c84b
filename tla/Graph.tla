------------------------------- MODULE Graph -------------------------------
(***************************************************************************)
(* The data structure of src/src/graph.rs as pure operators on a graph     *)
(* value.  A graph is a function from node ids to records                  *)
(*     [osm_id, pos, edges]      with edges a sequence of [to, cost],      *)
(* which is Graph(BTreeMap<i64, (Node, Vec<Edge>)>): the key is Node::id.  *)
(* A position (lat, lon) is one value, a cost is a number.  The order of   *)
(* the edges of a node is kept, since get_edge, set_edge and delete_edge   *)
(* all act on the first match.                                             *)
(***************************************************************************)
EXTENDS Integers, Sequences, SequencesExt, FiniteSets

EmptyGraph == [id \in {} |-> {}]

HasNode(g, id) == id \in DOMAIN g

OsmId(g, id) == g[id].osm_id

Pos(g, id) == g[id].pos

\* A node that stands for its OpenStreetMap node under no restriction.
Canonical(g, id) == HasNode(g, id) /\ OsmId(g, id) = id

---------------------------------------------------------------------------
(* Nodes *)

\* Insert a node, or overwrite it and keep its outgoing edges.
SetNode(g, id, osm_id, pos) ==
    [x \in DOMAIN g \cup {id} |->
        IF x # id THEN g[x]
        ELSE [osm_id |-> osm_id, pos |-> pos,
              edges |-> IF HasNode(g, id) THEN g[id].edges ELSE << >>]]

\* Remove a node with its outgoing edges.  Edges into it stay, dangling.
DeleteNode(g, id) == [x \in DOMAIN g \ {id} |-> g[x]]

---------------------------------------------------------------------------
(* Edges *)

GetEdges(g, id) == IF HasNode(g, id) THEN g[id].edges ELSE << >>

\* The places of the edges that lead to a node in a list of edges.
EdgesTo(edges, to) == {i \in DOMAIN edges : edges[i].to = to}

FirstEdgeTo(edges, to) ==
    CHOOSE i \in EdgesTo(edges, to) : \A j \in EdgesTo(edges, to) : i <= j

HasEdge(g, from, to) == EdgesTo(GetEdges(g, from), to) # {}

\* The cost of the first matching edge; the source answers f32::INFINITY
\* when HasEdge is false.
GetEdge(g, from, to) ==
    GetEdges(g, from)[FirstEdgeTo(GetEdges(g, from), to)].cost

\* Variant: the edge is pushed even if there is one.
PutEdgeAgain(edges, e) == Append(edges, e)

PutEdge(edges, e) ==
    IF EdgesTo(edges, e.to) = {} THEN Append(edges, e)
    ELSE [edges EXCEPT ![FirstEdgeTo(edges, e.to)] = e]

\* Both ends must exist; the first edge to the same node is overwritten.
SetEdge(g, from, e) ==
    IF HasNode(g, e.to) /\ HasNode(g, from)
    THEN [g EXCEPT ![from].edges = PutEdge(@, e)]
    ELSE g

\* Variant: the list is shortened, but nothing takes the place of the removed one.
SwapRemoveShort(seq, i) == SubSeq(seq, 1, Len(seq) - 1)

\* Vec::swap_remove: the last element takes the place of the removed one.
SwapRemove(seq, i) ==
    [j \in 1 .. Len(seq) - 1 |-> IF j = i THEN seq[Len(seq)] ELSE seq[j]]

DeleteEdge(g, from, to) ==
    IF HasEdge(g, from, to)
    THEN [g EXCEPT ![from].edges = SwapRemove(@, FirstEdgeTo(@, to))]
    ELSE g

\* Overwrite the edges of dst with those of src.
CloneEdges(g, dst, src) ==
    IF HasNode(g, dst) THEN [g EXCEPT ![dst].edges = GetEdges(g, src)] ELSE g

---------------------------------------------------------------------------
(* Many edges, one after the other.  Folds are recursive functions, so that *)
(* they can be proved about.                                                *)

SetEdges(g, edges) ==
    LET after[n \in 0 .. Len(edges)] ==
            IF n = 0 THEN g
            ELSE SetEdge(after[n - 1], edges[n].from, [to |-> edges[n].to, cost |-> edges[n].cost])
    IN  after[Len(edges)]

DeleteEdges(g, edges) ==
    LET after[n \in 0 .. Len(edges)] ==
            IF n = 0 THEN g ELSE DeleteEdge(after[n - 1], edges[n].from, edges[n].to)
    IN  after[Len(edges)]

---------------------------------------------------------------------------
\* simplify_route takes a node that is gone for one at <<0, 0>>.
RoutePosition(g, id) == IF HasNode(g, id) THEN Pos(g, id) ELSE <<0, 0>>

\* Build a graph from nodes [id, osm_id, pos] and edges [from, to, cost].
FromIter(nodes, edges) ==
    SetEdges(FoldLeft(LAMBDA g, n : SetNode(DeleteNode(g, n.id), n.id, n.osm_id, n.pos),
                      EmptyGraph, nodes),
             edges)

=============================================================================
