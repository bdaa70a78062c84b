------------------------------- MODULE AStar -------------------------------
(***************************************************************************)
(* find_route_inner of src/src/astar.rs, for both of its search spaces.    *)
(*                                                                         *)
(* One behaviour is one call.  The steps are the iterations of its three   *)
(* loops: taking an item from the queue, relaxing one edge of the expanded *)
(* node, and following one came_from link of the found path.  The binary   *)
(* heap orders items by score alone, so which of several items of least    *)
(* score comes out first is left open.  Costs are natural numbers.         *)
(***************************************************************************)
EXTENDS Routing, Bags

CONSTANTS
    Calls,      \* the calls to consider: [graph, from_id, to_id, step_limit, no_turn_around]
    Distance    \* earth_distance of two positions, Distance[p, q]

VARIABLES
    call,         \* the arguments
    pc,           \* "check", "pop", "expand", "rebuild" or "done"
    queue,        \* the bag of QueueItems [at, at_osm_id, cost, score]
    came_from,    \* search node -> the search node it was reached from
    known_costs,  \* search node -> least cost seen so far
    steps,        \* expansions so far
    item,         \* the item taken last
    edge,         \* the index of the next edge of item to relax
    last,         \* reconstruct_path: where the path starts so far
    path,         \* reconstruct_path: the path, already reversed
    result        \* what the call returns

vars == <<call, pc, queue, came_from, known_costs, steps, item, edge, last, path, result>>

search == <<queue, came_from, known_costs>>
rebuilding == <<last, path>>

---------------------------------------------------------------------------
Pending == [outcome |-> "pending"]
Ok(route) == [outcome |-> "ok", route |-> route]
InvalidReference(id) == [outcome |-> "invalid_reference", node |-> id]
StepLimitExceeded == [outcome |-> "step_limit_exceeded"]

\* The estimate of what is left from a node to the destination.
Estimate(c, id) == Distance[Pos(c.graph, id), Pos(c.graph, c.to_id)]

QueueItem(c, at, cost) ==
    [at |-> at, at_osm_id |-> OsmId(c.graph, at.node_id), cost |-> cost,
     score |-> cost + Estimate(c, at.node_id)]

NoItem == [at |-> Initial(0), at_osm_id |-> 0, cost |-> 0, score |-> 0]

\* HashMap::insert
Insert(f, k, v) == [x \in DOMAIN f \cup {k} |-> IF x = k THEN v ELSE f[x]]

\* A cost beats what is known of a search node unless it is greater.
Worse(at, cost) == at \in DOMAIN known_costs /\ cost > known_costs[at]

Return(r) == pc' = "done" /\ result' = r

---------------------------------------------------------------------------
Init ==
    /\ call \in Calls
    /\ pc = "check"
    /\ queue = EmptyBag
    /\ came_from = [at \in {} |-> Initial(0)]
    /\ known_costs = [at \in {} |-> 0]
    /\ steps = 0
    /\ item = NoItem
    /\ edge = 1
    /\ last = Initial(0)
    /\ path = << >>
    /\ result = Pending

\* The destination must exist and be canonical, the origin must exist.
Reject ==
    /\ pc = "check"
    /\ ~ ValidTo(call) \/ ~ ValidFrom(call)
    /\ Return(InvalidReference(IF ValidTo(call) THEN call.from_id ELSE call.to_id))
    /\ UNCHANGED <<call, search, steps, item, edge, rebuilding>>

Begin ==
    /\ pc = "check"
    /\ ValidTo(call)
    /\ ValidFrom(call)
    /\ queue' = SetToBag({QueueItem(call, Initial(call.from_id), 0)})
    /\ known_costs' = Insert(known_costs, Initial(call.from_id), 0)
    /\ pc' = "pop"
    /\ UNCHANGED <<call, came_from, steps, item, edge, rebuilding, result>>

---------------------------------------------------------------------------
(* while let Some(item) = queue.pop() *)

\* Variant: the heap is not ordered.
TakeAny(q) ==
    /\ pc = "pop"
    /\ queue' = queue (-) SetToBag({q})
    /\ item' = q

Take(q) ==
    /\ pc = "pop"
    /\ \A r \in BagToSet(queue) : q.score <= r.score
    /\ queue' = queue (-) SetToBag({q})
    /\ item' = q

Reached(q) == q.at_osm_id = call.to_id
\* Variant: staleness tested with >=.
StaleOrEqual(q) == q.at \in DOMAIN known_costs /\ q.cost >= known_costs[q.at]
Stale(q) == Worse(q.at, q.cost)

\* The destination is tested before staleness and before the step limit.
Arrive ==
    \E q \in BagToSet(queue) :
        /\ Take(q)
        /\ Reached(q)
        /\ pc' = "rebuild"
        /\ last' = q.at
        /\ path' = <<q.at.node_id>>
        /\ UNCHANGED <<call, came_from, known_costs, steps, edge, result>>

Skip ==
    \E q \in BagToSet(queue) :
        /\ Take(q)
        /\ ~ Reached(q)
        /\ Stale(q)
        /\ UNCHANGED <<call, pc, came_from, known_costs, steps, edge, rebuilding, result>>

GiveUp ==
    \E q \in BagToSet(queue) :
        /\ Take(q)
        /\ ~ Reached(q)
        /\ ~ Stale(q)
        /\ steps' = steps + 1
        /\ steps' > call.step_limit
        /\ Return(StepLimitExceeded)
        /\ UNCHANGED <<call, came_from, known_costs, edge, rebuilding>>

Expand ==
    \E q \in BagToSet(queue) :
        /\ Take(q)
        /\ ~ Reached(q)
        /\ ~ Stale(q)
        /\ steps' = steps + 1
        /\ steps' <= call.step_limit
        /\ pc' = "expand"
        /\ edge' = 1
        /\ UNCHANGED <<call, came_from, known_costs, rebuilding, result>>

\* The queue ran empty: there is no route.
Exhausted ==
    /\ pc = "pop"
    /\ BagToSet(queue) = {}
    /\ Return(Ok(<< >>))
    /\ UNCHANGED <<call, search, steps, item, edge, rebuilding>>

---------------------------------------------------------------------------
(* for &Edge in g.get_edges(item.at.node_id()) *)

Edges == GetEdges(call.graph, item.at.node_id)

\* Variant: the cost already known of the neighbor is not looked at.
ImprovesAlways(e) ==
    /\ HasNode(call.graph, e.to)
    /\ CanAdvance(call, item.at, e.to)

\* Whether an edge leads to a search node, and one not known to be cheaper.
Improves(e) ==
    /\ HasNode(call.graph, e.to)
    /\ CanAdvance(call, item.at, e.to)
    /\ ~ Worse(Advance(call, item.at, e.to), item.cost + e.cost)

NextEdge ==
    /\ pc = "expand"
    /\ edge \in DOMAIN Edges
    /\ edge' = edge + 1
    /\ UNCHANGED <<call, pc, steps, item, rebuilding, result>>

\* Where the edge at hand leads in the search space, and at what cost.
Neighbor == Advance(call, item.at, Edges[edge].to)
NeighborCost == item.cost + Edges[edge].cost

Relax ==
    /\ NextEdge
    /\ Improves(Edges[edge])
    /\ came_from' = Insert(came_from, Neighbor, item.at)
    /\ known_costs' = Insert(known_costs, Neighbor, NeighborCost)
    /\ queue' = queue (+) SetToBag({QueueItem(call, Neighbor, NeighborCost)})

PassOver ==
    /\ NextEdge
    /\ ~ Improves(Edges[edge])
    /\ UNCHANGED search

Expanded ==
    /\ pc = "expand"
    /\ edge \notin DOMAIN Edges
    /\ pc' = "pop"
    /\ UNCHANGED <<call, search, steps, item, edge, rebuilding, result>>

---------------------------------------------------------------------------
(* reconstruct_path: while let Some(&nd) = came_from.get(&last) *)

StepBack ==
    /\ pc = "rebuild"
    /\ last \in DOMAIN came_from
    /\ last' = came_from[last]
    /\ path' = <<last'.node_id>> \o path
    /\ UNCHANGED <<call, pc, search, steps, item, edge, result>>

Found ==
    /\ pc = "rebuild"
    /\ last \notin DOMAIN came_from
    /\ Return(Ok(path))
    /\ UNCHANGED <<call, search, steps, item, edge, rebuilding>>

---------------------------------------------------------------------------
Running ==
    \/ Reject \/ Begin
    \/ Arrive \/ Skip \/ GiveUp \/ Expand \/ Exhausted
    \/ Relax \/ PassOver \/ Expanded
    \/ StepBack \/ Found

Returned == pc = "done" /\ UNCHANGED vars

Next == Running \/ Returned

Spec == Init /\ [][Next]_vars

\* The function runs until it returns.
FairSpec == Spec /\ WF_vars(Running)

---------------------------------------------------------------------------
(* Assumptions on calls, each stated where it is needed *)

\* What Graph guarantees by construction: edge lists of [to, cost] records,
\* no parallel edges, no node or osm_id 0.
WellFormed(g) ==
    \A id \in DOMAIN g :
        /\ id \in Int \ {0}
        /\ OsmId(g, id) \in Int \ {0}
        /\ GetEdges(g, id) \in Seq([to : Int \ {0}, cost : Nat])
        /\ \A i, j \in DOMAIN GetEdges(g, id) :
              GetEdges(g, id)[i].to = GetEdges(g, id)[j].to => i = j

CallsAssumption ==
    \A c \in Calls :
        /\ WellFormed(c.graph)
        /\ c.from_id \in Int \ {0}
        /\ c.to_id \in Int \ {0}
        /\ c.step_limit \in Nat
        /\ c.no_turn_around \in BOOLEAN
        /\ \A id \in DOMAIN c.graph : ValidTo(c) => Estimate(c, id) \in Nat

\* "cost must be greater than the crow-flies distance": no edge is free.
PositiveCosts ==
    \A c \in Calls : \A id \in DOMAIN c.graph :
        \A i \in DOMAIN GetEdges(c.graph, id) : GetEdges(c.graph, id)[i].cost > 0

\* "as this would violate the A* invariant": the estimate never exceeds the
\* cost of what is left, which the reference computes correctly.
Admissible ==
    \A c \in Calls :
        LET d == CostToGo(c) IN
        ValidTo(c) =>
            /\ IsCostToGo(c, d)
            /\ \A at \in DOMAIN d : Estimate(c, at.node_id) <= d[at]
            /\ \A at \in SearchNodes(c) :
                  AtDestination(c, at) => Estimate(c, at.node_id) = 0

---------------------------------------------------------------------------
(* Properties *)

\* Every variable stays within its type: queue items and search nodes refer
\* to nodes of the graph, and every known cost is a number.
TypeOK ==
    LET g == call.graph IN
    /\ call \in Calls
    /\ pc \in {"check", "pop", "expand", "rebuild", "done"}
    /\ IsABag(queue)
    /\ \A q \in DOMAIN queue :
          /\ q.at \in DOMAIN known_costs
          /\ q.cost \in Nat
          /\ q = QueueItem(call, q.at, q.cost)
    /\ DOMAIN known_costs \subseteq SearchNodes(call)
    /\ known_costs \in [DOMAIN known_costs -> Nat]
    /\ DOMAIN came_from \subseteq DOMAIN known_costs
    /\ came_from \in [DOMAIN came_from -> DOMAIN known_costs]
    /\ steps \in Nat
    /\ edge \in Nat \ {0}
    /\ pc \in {"expand", "rebuild"} =>
          /\ item.at \in DOMAIN known_costs
          /\ item.cost \in Nat
          /\ item = QueueItem(call, item.at, item.cost)
    /\ pc = "rebuild" => last \in DOMAIN known_costs
    /\ path \in Seq(DOMAIN g)

\* The came_from links run strictly downhill in cost, so they never close a
\* cycle and reconstruct_path always comes to an end at the origin.
LinksDescend ==
    \A at \in DOMAIN came_from : known_costs[came_from[at]] < known_costs[at]

\* A search node whose known cost is still in the queue.
Queued(at) == \E q \in BagToSet(queue) : q.at = at /\ q.cost = known_costs[at]

\* An edge that is about to be relaxed, needs no relaxation, or has had it.
EdgeIsSettled(at, i) ==
    LET e == GetEdges(call.graph, at.node_id)[i]
        n == Advance(call, at, e.to)
    IN  \/ pc = "expand" /\ item.at = at /\ edge <= i
        \/ ~ HasNode(call.graph, e.to)
        \/ ~ CanAdvance(call, at, e.to)
        \/ n \in DOMAIN known_costs /\ known_costs[n] <= known_costs[at] + e.cost

\* No update is ever lost, although superseded items stay in the queue and
\* are dropped when they surface: a search node whose known cost is no longer
\* queued has all its edges settled.
FrontierIsComplete ==
    pc \in {"pop", "expand"} =>
        \A at \in DOMAIN known_costs :
            \/ Queued(at)
            \/ \A i \in DOMAIN GetEdges(call.graph, at.node_id) : EdgeIsSettled(at, i)

\* An empty route is only returned with proof that there is none: the nodes
\* seen contain the origin, are closed under usable edges, and miss the
\* destination.
EmptyRouteIsRight ==
    result = Ok(<< >>) =>
        /\ Initial(call.from_id) \in DOMAIN known_costs
        /\ \A at \in DOMAIN known_costs :
              /\ ~ AtDestination(call, at)
              /\ \A e \in Usable(call, at) :
                    Advance(call, at, e.to) \in DOMAIN known_costs

\* The first item of the destination to leave the queue carries the cost of
\* the cheapest route, although costlier items of it were queued before.
ArrivesCheapest ==
    pc = "rebuild" =>
        /\ Reachable(call)
        /\ item.cost = CostToGo(call)[Initial(call.from_id)]

\* A route that is returned starts at from_id, follows existing edges, ends
\* at a node standing for to_id, and makes no A-B-A turn if that was asked,
\* although it is put together from links of different expansions.
RouteIsReal ==
    result.outcome = "ok" =>
        \/ result.route = << >>
        \/ IsRoute(call, result.route)

\* "The step limit protects against resource exhaustion": the path that is
\* rebuilt is never longer than the limit allows.
StepLimitBoundsPath == Len(path) <= call.step_limit + 1

\* The search implements the contract: it returns, and with a cheapest
\* route, a justified empty route, the right error, or a step limit error.
Contract == INSTANCE RouteQuery
MeetsContract == Contract!Spec

=============================================================================
