----------------------------- MODULE GraphStore -----------------------------
(***************************************************************************)
(* The operations of src/src/graph.rs, called in any order by the owner of *)
(* a graph (they all take &mut self), as steps on one graph.  What each of *)
(* them does to the graph, and to the order of edges, is in Graph.         *)
(***************************************************************************)
EXTENDS Graph

CONSTANTS Ids, Positions, Costs

\* set_node and set_edge assert that no id is 0.
ASSUME IdsAssumption == 0 \notin Ids

VARIABLES
    graph,
    last    \* the last call, with what it returned: [op, args, returned]

vars == <<graph, last>>

Called(op, args, returned) == last' = [op |-> op, args |-> args, returned |-> returned]

---------------------------------------------------------------------------
Init == graph = EmptyGraph /\ last = [op |-> "new", args |-> << >>, returned |-> FALSE]

DoSetNode(id, osm_id, pos) ==
    /\ graph' = SetNode(graph, id, osm_id, pos)
    /\ Called("set_node", <<id, osm_id, pos>>, HasNode(graph, id))

DoDeleteNode(id) ==
    /\ graph' = DeleteNode(graph, id)
    /\ Called("delete_node", <<id>>, HasNode(graph, id))

\* An edge from a missing node, or to one, is refused.
DoSetEdge(from, to, c) ==
    /\ graph' = SetEdge(graph, from, [to |-> to, cost |-> c])
    /\ Called("set_edge", <<from, to, c>>, HasNode(graph, to) /\ HasEdge(graph, from, to))

DoDeleteEdge(from, to) ==
    /\ graph' = DeleteEdge(graph, from, to)
    /\ Called("delete_edge", <<from, to>>, HasEdge(graph, from, to))

DoCloneEdges(dst, src) ==
    /\ graph' = CloneEdges(graph, dst, src)
    /\ Called("clone_edges", <<dst, src>>, FALSE)  \* returns nothing

Next ==
    \/ \E id, osm_id \in Ids, pos \in Positions : DoSetNode(id, osm_id, pos)
    \/ \E id \in Ids : DoDeleteNode(id)
    \/ \E from, to \in Ids, c \in Costs : DoSetEdge(from, to, c)
    \/ \E from, to \in Ids : DoDeleteEdge(from, to)
    \/ \E dst, src \in Ids : DoCloneEdges(dst, src)

Spec == Init /\ [][Next]_vars

---------------------------------------------------------------------------
(* Properties *)

OneEdgePerTarget(edges) == \A i, j \in DOMAIN edges : edges[i].to = edges[j].to => i = j

IsStore(g) ==
    /\ DOMAIN g \subseteq Ids
    /\ \A id \in DOMAIN g :
          /\ g[id] \in [osm_id : Ids, pos : Positions, edges : Seq([to : Ids, cost : Costs])]
          /\ OneEdgePerTarget(g[id].edges)

\* The graph stays one: every node has its record, every list of edges leads
\* to one place at most once.  Searches assume it of every graph (WellFormed in
\* AStar), and it is so for any graph that only these operations have changed;
\* the map inside Graph is public, and the library's own code changes it
\* through them only.
TypeOK == IsStore(graph) /\ last.returned \in BOOLEAN

\* The maps that a graph stands for.
NodeMap == [id \in DOMAIN graph |-> [osm_id |-> OsmId(graph, id), pos |-> Pos(graph, id)]]

CostMap ==
    [p \in {q \in (DOMAIN graph) \X Ids : HasEdge(graph, q[1], q[2])} |->
        GetEdge(graph, p[1], p[2])]

Map == INSTANCE GraphMap WITH node <- NodeMap, cost <- CostMap

\* Whatever the order of edges that pushes and swap_removes leave behind, and
\* whichever edge is the first match, the graph is two maps to its users.
ImplementsMap == Map!Spec

=============================================================================
