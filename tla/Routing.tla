------------------------------ MODULE Routing ------------------------------
(***************************************************************************)
(* What a route is and what the best one costs: the definitions shared by  *)
(* the contract of find_route (RouteQuery) and by the A* search (AStar).   *)
(*                                                                         *)
(* A call is a record [graph, from_id, to_id, step_limit, no_turn_around]. *)
(* The search space follows the trait SearchNode of src/src/astar.rs:      *)
(* no_turn_around is FALSE for find_route, whose search nodes are node     *)
(* ids, and TRUE for find_route_without_turn_around, whose search nodes    *)
(* also carry the osm_id of the node before.  Both are records             *)
(* [node_id, before_osm_id], the second field 0 when it plays no part.     *)
(***************************************************************************)
EXTENDS Graph

Initial(id) == [node_id |-> id, before_osm_id |-> 0]

\* Variant: node ids are compared where osm_ids are meant.
CanAdvanceById(c, at, id) == c.no_turn_around => id # at.before_osm_id

\* SearchNode::next returns None exactly for an immediate A-B-A turn-around.
CanAdvance(c, at, id) == c.no_turn_around => OsmId(c.graph, id) # at.before_osm_id

\* Advancing along an edge remembers where the search node was.
Advance(c, at, id) ==
    [node_id |-> id,
     before_osm_id |-> IF c.no_turn_around THEN OsmId(c.graph, at.node_id) ELSE 0]

SearchNodes(c) ==
    [node_id : DOMAIN c.graph,
     before_osm_id : {0} \cup
        {OsmId(c.graph, id) : id \in {n \in DOMAIN c.graph : c.no_turn_around}}]

---------------------------------------------------------------------------
(* Walks in the search space *)

\* The edges leaving a search node that can be taken: the target exists
\* and is not a turn-around.
Usable(c, at) ==
    {e \in {GetEdges(c.graph, at.node_id)[i] : i \in DOMAIN GetEdges(c.graph, at.node_id)} :
        HasNode(c.graph, e.to) /\ CanAdvance(c, at, e.to)}

AtDestination(c, at) == OsmId(c.graph, at.node_id) = c.to_id

\* A route of a call: a sequence of node ids from from_id to a node that
\* stands for to_id, along existing edges, without A-B-A if that is asked.
IsRoute(c, route) ==
    LET g == c.graph IN
    /\ route \in Seq(DOMAIN g)
    /\ Len(route) > 0
    /\ route[1] = c.from_id
    /\ OsmId(g, route[Len(route)]) = c.to_id
    /\ \A i \in 1 .. Len(route) - 1 : HasEdge(g, route[i], route[i + 1])
    /\ c.no_turn_around =>
          \A i \in 1 .. Len(route) - 2 :
              OsmId(g, route[i]) # OsmId(g, route[i + 2])

\* The sum of its edges, from the destination back.
RouteCost(g, route) ==
    LET n == Len(route)
        of_last[k \in 0 .. n] ==
            IF k <= 1 THEN 0
            ELSE GetEdge(g, route[n - k + 1], route[n - k + 2]) + of_last[k - 1]
    IN  of_last[n]

---------------------------------------------------------------------------
(* The reference: the cost of the cheapest way from a search node to the   *)
(* destination, defined where there is one, by relaxing every edge as      *)
(* often as there are search nodes.                                        *)

CostToGo(c) ==
    LET g == c.graph
        Relaxed(d) ==
            LET Offers(at) ==
                    {e.cost + d[Advance(c, at, e.to)] :
                        e \in {f \in Usable(c, at) : Advance(c, at, f.to) \in DOMAIN d}}
            IN  [at \in {n \in SearchNodes(c) :
                            AtDestination(c, n) \/ Offers(n) # {}} |->
                    IF AtDestination(c, at) THEN 0 ELSE Min(Offers(at))]
        Within[k \in Nat] ==
            IF k = 0 THEN [at \in {n \in SearchNodes(c) : AtDestination(c, n)} |-> 0]
            ELSE LET d == Within[k - 1] IN
                 IF Relaxed(d) = d THEN d ELSE Relaxed(d)
    IN  Within[Cardinality(SearchNodes(c))]

\* What characterises these costs: no search node that can reach the
\* destination costs more than going through a neighbor, and each that is
\* not there yet costs exactly as much as through one of them.
IsCostToGo(c, d) ==
    LET g == c.graph IN
    /\ DOMAIN d \subseteq SearchNodes(c)
    /\ d \in [DOMAIN d -> Nat]
    /\ \A at \in SearchNodes(c) :
          /\ AtDestination(c, at) => at \in DOMAIN d /\ d[at] = 0
          /\ \A e \in Usable(c, at) :
                Advance(c, at, e.to) \in DOMAIN d =>
                    at \in DOMAIN d /\ d[at] <= e.cost + d[Advance(c, at, e.to)]
          /\ at \in DOMAIN d /\ ~ AtDestination(c, at) =>
                \E e \in Usable(c, at) :
                    /\ Advance(c, at, e.to) \in DOMAIN d
                    /\ d[at] = e.cost + d[Advance(c, at, e.to)]

Reachable(c) == Initial(c.from_id) \in DOMAIN CostToGo(c)

\* The references a search accepts: from_id exists, to_id exists and is canonical.
ValidTo(c) == Canonical(c.graph, c.to_id)
ValidFrom(c) == HasNode(c.graph, c.from_id)

=============================================================================
