-------------------------- MODULE TurnRestrictions --------------------------
(***************************************************************************)
(* How src/src/osm/reader/graph_builder.rs turns a restriction relation    *)
(* into a sequence of nodes, and that sequence into a change of the graph. *)
(*                                                                         *)
(* A relation is a record [type, tags, members], and a member a record     *)
(* [type, ref, role].                                                      *)
(***************************************************************************)
EXTENDS Graph

\* Iterator::filter: the elements of a sequence that are in a set.
Kept(seq, S) ==
    LET kept[n \in 0 .. Len(seq)] ==
            IF n = 0 THEN << >>
            ELSE IF seq[n] \in S THEN Append(kept[n - 1], seq[n]) ELSE kept[n - 1]
    IN  kept[Len(seq)]

---------------------------------------------------------------------------
(* From members to nodes.  A malformed restriction has no nodes: << >>.    *)

WithRole(r, role) == Kept(r.members, {m \in ToSet(r.members) : m.role = role})

\* Exactly one "from" and one "to"; members of any other role are ignored.
WellOrdered(r) == Len(WithRole(r, "from")) = 1 /\ Len(WithRole(r, "to")) = 1

OrderedMembers(r) == WithRole(r, "from") \o WithRole(r, "via") \o WithRole(r, "to")

\* A node may only be a via; a way must have been stored by this builder.
Known(g, way_nodes, m) ==
    \/ m.type = "node" /\ m.role = "via" /\ HasNode(g, m.ref)
    \/ m.type = "way" /\ m.ref \in DOMAIN way_nodes

MemberNodes(way_nodes, m) == IF m.type = "node" THEN <<m.ref>> ELSE way_nodes[m.ref]

\* Variant: the "from" way is never turned round.
OrientedAsIs(lists, i, nodes) ==
    LET list == lists[i]
        backwards == IF i = 1 THEN FALSE ELSE Last(nodes) = Last(list)
    IN  IF backwards THEN Reverse(list) ELSE list

\* A member is turned round to meet its neighbor: the first if it starts
\* where the second starts or ends, the others if they end where the nodes
\* so far end.
Oriented(lists, i, nodes) ==
    LET list == lists[i]
        backwards == IF i = 1
                     THEN list[1] \in {lists[2][1], Last(lists[2])}
                     ELSE Last(nodes) = Last(list)
    IN  IF backwards THEN Reverse(list) ELSE list

\* The nodes so far and those of the next member: of "from" the last two, of a
\* via all, of "to" the second.  Once two members do not meet, nothing is left.
Extended(lists, i, nodes) ==
    LET list == Oriented(lists, i, nodes) IN
    CASE i = 1 -> SubSeq(list, Len(list) - 1, Len(list))
      [] i > 1 /\ (nodes = << >> \/ Last(nodes) # list[1]) -> << >>
      [] i > 1 /\ nodes # << >> /\ Last(nodes) = list[1] ->
            IF i = Len(lists) THEN Append(nodes, list[2]) ELSE nodes \o Tail(list)

Flattened(lists) ==
    LET nodes[i \in 0 .. Len(lists)] ==
            IF i = 0 THEN << >> ELSE Extended(lists, i, nodes[i - 1])
    IN  nodes[Len(lists)]

RestrictionNodes(g, way_nodes, r) ==
    LET members == OrderedMembers(r) IN
    IF WellOrdered(r) /\ \A i \in DOMAIN members : Known(g, way_nodes, members[i])
    THEN Flattened([i \in DOMAIN members |-> MemberNodes(way_nodes, members[i])])
    ELSE << >>

---------------------------------------------------------------------------
(* GraphChange: what is to be done to the graph.  new_nodes maps a clone to *)
(* its original, edges are removed before others are added.                *)

NoChange(counter) ==
    [new_nodes |-> [id \in {} |-> 0], edges_to_remove |-> {}, edges_to_add |-> {},
     phantom_node_id_counter |-> counter]

\* A clone that is yet to be made has the edges of its original.
Original(change, id) ==
    IF id \in DOMAIN change.new_nodes THEN change.new_nodes[id] ELSE id

\* The places of the edges of a node that lead to an OSM node.
EdgesToOsm(g, change, from, to_osm_id) ==
    LET edges == GetEdges(g, Original(change, from)) IN
    {i \in DOMAIN edges : HasNode(g, edges[i].to) /\ OsmId(g, edges[i].to) = to_osm_id}

\* The first of them.
Candidate(g, change, from, to_osm_id) ==
    GetEdges(g, Original(change, from))[Min(EdgesToOsm(g, change, from, to_osm_id))].to

\* Variant: the cost of the first edge is taken.
RelinkedFirst(g, change, previous, candidate) ==
    LET clone == change.phantom_node_id_counter + 1
        cost == GetEdges(g, Original(change, previous))[1].cost
    IN  [new_nodes |-> [id \in DOMAIN change.new_nodes \cup {clone} |->
                           IF id = clone THEN candidate ELSE change.new_nodes[id]],
         edges_to_remove |-> change.edges_to_remove \cup {[from |-> previous, to |-> candidate]},
         edges_to_add |-> change.edges_to_add
                             \cup {[from |-> previous, to |-> clone, cost |-> cost]},
         phantom_node_id_counter |-> clone]

\* Clone the candidate and relink previous -> candidate to the clone.
Relinked(g, change, previous, candidate) ==
    LET clone == change.phantom_node_id_counter + 1
        cost == GetEdge(g, Original(change, previous), candidate)
    IN  [new_nodes |-> [id \in DOMAIN change.new_nodes \cup {clone} |->
                           IF id = clone THEN candidate ELSE change.new_nodes[id]],
         edges_to_remove |-> change.edges_to_remove \cup {[from |-> previous, to |-> candidate]},
         edges_to_add |-> change.edges_to_add
                             \cup {[from |-> previous, to |-> clone, cost |-> cost]},
         phantom_node_id_counter |-> clone]

\* Variant: clones are reused wherever they are met.
ReusesAnywhere(walk, i, candidate, osm_id) == candidate # osm_id

\* Whether the walk is on the clones of an earlier restriction: it gets
\* there with its first edge only, and leaves with the first canonical node.
Reuses(walk, i, candidate, osm_id) == candidate # osm_id /\ (i = 2 \/ walk.following)

\* One step of a walk that has got to the last of cloned_nodes: the next node
\* is cloned unless it is the last or is reused.
Walked(g, nodes, walk, i) ==
    LET previous == Last(walk.cloned_nodes)
        candidate == Candidate(g, walk.change, previous, nodes[i])
        following == Reuses(walk, i, candidate, nodes[i])
        relinked == Relinked(g, walk.change, previous, candidate)
    IN  IF ~ walk.ok THEN walk
        ELSE IF EdgesToOsm(g, walk.change, previous, nodes[i]) = {} THEN [walk EXCEPT !.ok = FALSE]
        ELSE IF i = Len(nodes) \/ following
        THEN [walk EXCEPT !.following = following, !.cloned_nodes = Append(@, candidate)]
        ELSE [walk EXCEPT !.following = following, !.change = relinked,
                          !.cloned_nodes = Append(@, relinked.phantom_node_id_counter)]

NoWalk(counter, nodes) ==
    [ok |-> TRUE, following |-> FALSE, change |-> NoChange(counter), cloned_nodes |-> <<nodes[1]>>]

\* Walk along the nodes of a restriction.  There is no walk (ok is FALSE)
\* when some edge is missing.
ClonedNodes(g, counter, nodes) ==
    LET walk[i \in 0 .. Len(nodes) - 1] ==
            IF i = 0 THEN NoWalk(counter, nodes) ELSE Walked(g, nodes, walk[i - 1], i + 1)
    IN  walk[Len(nodes) - 1]

\* ensure_only_edge, for each node of a walk but the first and the last:
\* every edge but the one to the next node of the walk goes.
OnlyEdges(g, change, cloned) ==
    LET inner == 2 .. Len(cloned) - 1
        Others(i) == {e \in ToSet(GetEdges(g, Original(change, cloned[i]))) : e.to # cloned[i + 1]}
    IN  [change EXCEPT
            !.edges_to_add = {e \in @ : \A i \in inner : e.from = cloned[i] => e.to = cloned[i + 1]},
            !.edges_to_remove = @ \cup
                UNION {{[from |-> cloned[i], to |-> e.to] : e \in Others(i)} : i \in inner}]

\* store_restriction: a prohibitory restriction loses its last edge, a
\* mandatory one all the edges that leave it.
RestrictionChange(g, counter, nodes, kind) ==
    LET walk == ClonedNodes(g, counter, nodes)
        cloned == walk.cloned_nodes
        last == Len(cloned)
    IN  CASE ~ walk.ok -> NoChange(counter)
          [] walk.ok /\ kind = "mandatory" -> OnlyEdges(g, walk.change, cloned)
          [] walk.ok /\ kind = "prohibitory" ->
                [walk.change EXCEPT !.edges_to_remove =
                    @ \cup {[from |-> cloned[last - 1], to |-> cloned[last]]}]

\* The graph with the clones of a change.
WithClones(g, change) ==
    [id \in DOMAIN g \cup DOMAIN change.new_nodes |-> g[Original(change, id)]]

\* GraphChange::apply: clones, removals, additions.  The edges live in hash
\* tables, so the order within removals and additions is any.
Applied(g, change, removals, additions) ==
    SetEdges(DeleteEdges(WithClones(g, change), removals), additions)

=============================================================================
