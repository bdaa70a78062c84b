---------------------------- MODULE NearestNode ----------------------------
(***************************************************************************)
(* A graph that grows, and a k-d tree that was built from it and serves    *)
(* searches while nodes are still added to the graph.                      *)
(***************************************************************************)
EXTENDS KdTree

CONSTANTS
    Ids,        \* ids of nodes, put into the graph in this order
    CloneOf,    \* the osm_id of each
    Positions,  \* where nodes may be
    Queries     \* where searches start

VARIABLES
    graph,
    tree,  \* the tree, if there is one
    built  \* the graph it was built from

vars == <<graph, tree, built>>

Init ==
    /\ graph = EmptyGraph
    /\ tree = << >>
    /\ built = EmptyGraph

AddNode(id, pos) ==
    /\ \A other \in Ids : other < id => HasNode(graph, other)
    /\ ~ HasNode(graph, id)
    /\ graph' = SetNode(graph, id, CloneOf[id], pos)
    /\ UNCHANGED <<tree, built>>

BuildTree ==
    /\ tree' = BuildFromGraph(graph)
    /\ built' = graph
    /\ UNCHANGED graph

Next ==
    \/ \E id \in Ids, pos \in Positions : AddNode(id, pos)
    \/ BuildTree

Spec == Init /\ [][Next]_vars

---------------------------------------------------------------------------
(* Properties *)

\* Wherever a search starts, on an axis, at a node, among nodes that share a
\* coordinate or a place, no half that is skipped or lost hides a nearer node:
\* the tree finds one as near as the walk over the whole graph does, and no
\* clone.  There is no tree only if there is nothing to find.
TreeFindsNearest ==
    IF tree = << >> THEN CanonicalIds(built) = {}
    ELSE
        \A p \in Queries :
            LET found == FindNearest(tree[1], p) IN
            /\ Canonical(built, found.id)
            /\ found.pos = Pos(built, found.id)
            /\ Dist(p, found.pos) = Dist(p, Pos(built, FindNearestNode(built, p)))

=============================================================================
