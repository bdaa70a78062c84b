------------------------------ MODULE GraphMap ------------------------------
(***************************************************************************)
(* What the operations of src/src/graph.rs promise: a graph is a map from  *)
(* ids to nodes and a map from pairs of ids to costs.  There is one cost   *)
(* for each pair, and no order among the edges of a node.                  *)
(***************************************************************************)
EXTENDS Functions

CONSTANTS
    Ids,        \* ids of nodes
    Positions,  \* where nodes may be
    Costs       \* what edges may cost

VARIABLES
    node,       \* id -> [osm_id, pos]
    cost,       \* <<from, to>> -> cost
    last        \* the last call, with what it returned: [op, args, returned]

vars == <<node, cost, last>>

Called(op, args, returned) == last' = [op |-> op, args |-> args, returned |-> returned]

Put(f, k, v) == [x \in DOMAIN f \cup {k} |-> IF x = k THEN v ELSE f[x]]

Init ==
    /\ node = [id \in {} |-> {}]
    /\ cost = [p \in {} |-> {}]
    /\ last = [op |-> "new", args |-> << >>, returned |-> FALSE]

\* "All outgoing and incoming edges are preserved.  Returns `true` if an
\* existing node was updated."
SetNode(id, osm_id, pos) ==
    /\ Called("set_node", <<id, osm_id, pos>>, id \in DOMAIN node)
    /\ node' = Put(node, id, [osm_id |-> osm_id, pos |-> pos])
    /\ UNCHANGED cost

\* "While all outgoing edges are removed, incoming edges are preserved.
\* Returns `true` if a node was deleted."
DeleteNode(id) ==
    /\ Called("delete_node", <<id>>, id \in DOMAIN node)
    /\ node' = Restrict(node, DOMAIN node \ {id})
    /\ cost' = Restrict(cost, {p \in DOMAIN cost : p[1] # id})

\* "Returns `true` if an existing edge was updated, `false` if a new edge was
\* created."
SetEdge(from, to, c) ==
    /\ Called("set_edge", <<from, to, c>>, <<from, to>> \in DOMAIN cost)
    /\ {from, to} \subseteq DOMAIN node
    /\ cost' = Put(cost, <<from, to>>, c)
    /\ UNCHANGED node

\* "If `from_id` or `edge.to` doesn't exist in the graph, does nothing and
\* returns `false`."
RefuseEdge(from, to, c) ==
    /\ Called("set_edge", <<from, to, c>>, FALSE)
    /\ ~ {from, to} \subseteq DOMAIN node
    /\ UNCHANGED <<node, cost>>

\* "If no such edge exists, does nothing.  Returns `true` if an edge was
\* removed."
DeleteEdge(from, to) ==
    /\ Called("delete_edge", <<from, to>>, <<from, to>> \in DOMAIN cost)
    /\ cost' = Restrict(cost, DOMAIN cost \ {<<from, to>>})
    /\ UNCHANGED node

\* "Replaces all edges from `dst` by cloning all edges outgoing from `src`."
CloneEdges(dst, src) ==
    /\ Called("clone_edges", <<dst, src>>, FALSE)
    /\ cost' = [p \in {q \in (DOMAIN node) \X Ids :
                          <<IF q[1] = dst THEN src ELSE q[1], q[2]>> \in DOMAIN cost} |->
                   cost[<<IF p[1] = dst THEN src ELSE p[1], p[2]>>]]
    /\ UNCHANGED node

Next ==
    \/ \E id, osm_id \in Ids, pos \in Positions : SetNode(id, osm_id, pos)
    \/ \E id \in Ids : DeleteNode(id)
    \/ \E from, to \in Ids, c \in Costs : SetEdge(from, to, c) \/ RefuseEdge(from, to, c)
    \/ \E from, to \in Ids : DeleteEdge(from, to)
    \/ \E dst, src \in Ids : CloneEdges(dst, src)

Spec == Init /\ [][Next]_vars

=============================================================================
