---------------------------- MODULE AStarProofs ----------------------------
(***************************************************************************)
(* Proofs about AStar, for every set of calls that meets the assumptions.  *)
(***************************************************************************)
EXTENDS AStar, FiniteSetTheorems, WellFoundedInduction, TLAPS

\* Adding an element to a bag adds it to the bag's domain.
LEMMA BagPush ==
    ASSUME NEW B, IsABag(B), NEW x
    PROVE  /\ IsABag(B (+) SetToBag({x}))
           /\ DOMAIN (B (+) SetToBag({x})) = DOMAIN B \cup {x}
BY DEF IsABag, SetToBag, (+)

\* Taking an element from a bag leaves all other elements in its domain.
LEMMA BagPop ==
    ASSUME NEW B, IsABag(B), NEW x
    PROVE  /\ IsABag(B (-) SetToBag({x}))
           /\ DOMAIN (B (-) SetToBag({x})) \subseteq DOMAIN B
           /\ DOMAIN B \ {x} \subseteq DOMAIN (B (-) SetToBag({x}))
BY DEF IsABag, SetToBag, (-)

\* A bag of one element, and the empty bag.
LEMMA BagBasics ==
    ASSUME NEW x
    PROVE  /\ IsABag(EmptyBag) /\ DOMAIN EmptyBag = {}
           /\ IsABag(SetToBag({x})) /\ DOMAIN SetToBag({x}) = {x}
BY DEF IsABag, SetToBag, EmptyBag

---------------------------------------------------------------------------
(* Search nodes and queue items *)

\* The origin and every node that is advanced to are search nodes.
LEMMA SearchNodesClosed ==
    ASSUME NEW c, NEW at \in SearchNodes(c), NEW id \in DOMAIN c.graph
    PROVE  /\ at.node_id \in DOMAIN c.graph
           /\ Advance(c, at, id) \in SearchNodes(c)
           /\ Advance(c, at, id).node_id = id
           /\ Initial(id) \in SearchNodes(c)
           /\ Initial(id).node_id = id
BY DEF SearchNodes, Advance, Initial

\* An item is determined by its search node and its cost.
LEMMA ItemFields ==
    ASSUME NEW c, NEW at, NEW cost
    PROVE  /\ QueueItem(c, at, cost).at = at
           /\ QueueItem(c, at, cost).cost = cost
           /\ QueueItem(c, at, cost).at_osm_id = OsmId(c.graph, at.node_id)
           /\ QueueItem(c, at, cost).score = cost + Estimate(c, at.node_id)
BY DEF QueueItem

\* The elements of a sequence.
LEMMA SeqElements ==
    ASSUME NEW S, NEW s \in Seq(S), NEW i \in DOMAIN s
    PROVE  s[i] \in S /\ i \in Nat \ {0} /\ i <= Len(s)
OBVIOUS

\* Putting an element in front of a sequence.
LEMMA SeqCons ==
    ASSUME NEW S, NEW s \in Seq(S), NEW x \in S
    PROVE  /\ <<x>> \in Seq(S)
           /\ <<x>> \o s \in Seq(S)
           /\ Len(<<x>> \o s) = Len(s) + 1
           /\ (<<x>> \o s)[1] = x
           /\ \A i \in 1 .. Len(s) : (<<x>> \o s)[i + 1] = s[i]
OBVIOUS

\* The edges of a node of a well-formed graph.
LEMMA EdgeTypes ==
    ASSUME NEW g, WellFormed(g), NEW id \in DOMAIN g, NEW i \in DOMAIN GetEdges(g, id)
    PROVE  /\ GetEdges(g, id)[i].to \in Int
           /\ GetEdges(g, id)[i].cost \in Nat
           /\ i \in Nat \ {0}
<1>1. GetEdges(g, id) \in Seq([to : Int \ {0}, cost : Nat])
  BY DEF WellFormed
<1>2. GetEdges(g, id)[i] \in [to : Int \ {0}, cost : Nat]
  BY <1>1, SeqElements
<1>3. i \in Nat \ {0}
  BY <1>1, SeqElements
<1> QED
  BY <1>2, <1>3

---------------------------------------------------------------------------
(* Types *)

\* Once the references are checked they stay valid, and the origin is known.
Begun ==
    pc \in {"pop", "expand", "rebuild"} =>
        /\ ValidTo(call)
        /\ ValidFrom(call)
        /\ Initial(call.from_id) \in DOMAIN known_costs

TypeInv == TypeOK /\ Begun

LEMMA InitTypeInv == ASSUME CallsAssumption, Init PROVE TypeInv
<1>1. IsABag(queue) /\ DOMAIN queue = {}
  BY BagBasics DEF Init
<1>2. known_costs \in [DOMAIN known_costs -> Nat] /\ DOMAIN known_costs = {}
  BY DEF Init
<1>3. came_from \in [DOMAIN came_from -> DOMAIN known_costs] /\ DOMAIN came_from = {}
  BY DEF Init
<1>4. path \in Seq(DOMAIN call.graph)
  BY DEF Init
<1> QED
  BY <1>1, <1>2, <1>3, <1>4 DEF Init, TypeInv, TypeOK, Begun

LEMMA NextTypeInv ==
    ASSUME CallsAssumption, TypeInv, [Next]_vars
    PROVE  TypeInv'
<1> USE DEF TypeInv
<1>1. CASE Reject
  BY <1>1 DEF Reject, TypeOK, Begun, Return, search, rebuilding
<1>2. CASE Begin
  <2>1. Initial(call.from_id) \in SearchNodes(call)
    BY <1>2, SearchNodesClosed DEF Begin, ValidFrom, HasNode, SearchNodes, Initial
  <2>2. /\ DOMAIN known_costs' = DOMAIN known_costs \cup {Initial(call.from_id)}
        /\ known_costs' \in [DOMAIN known_costs' -> Nat]
    BY <1>2 DEF Begin, Insert, TypeOK
  <2>3. IsABag(queue') /\ DOMAIN queue' = {QueueItem(call, Initial(call.from_id), 0)}
    BY <1>2, BagBasics DEF Begin
  <2>4. came_from' \in [DOMAIN came_from' -> DOMAIN known_costs']
    BY <1>2, <2>2 DEF Begin, TypeOK
  <2>5. \A q \in DOMAIN queue' :
          /\ q.at \in DOMAIN known_costs'
          /\ q.cost \in Nat
          /\ q = QueueItem(call, q.at, q.cost)
    BY <2>2, <2>3, ItemFields
  <2> QED
    BY <1>2, <2>1, <2>2, <2>3, <2>4, <2>5 DEF Begin, TypeOK, Begun, rebuilding
<1>3. ASSUME NEW q \in BagToSet(queue), Take(q)
      PROVE  /\ IsABag(queue')
             /\ \A r \in DOMAIN queue' :
                   r \in DOMAIN queue
             /\ q.at \in DOMAIN known_costs
             /\ q.cost \in Nat
             /\ q = QueueItem(call, q.at, q.cost)
             /\ item' = q
  BY <1>3, BagPop DEF Take, TypeOK, BagToSet
<1>4. CASE Arrive
  <2>1. PICK q \in BagToSet(queue) :
          /\ Take(q)
          /\ pc' = "rebuild"
          /\ last' = q.at
          /\ path' = <<q.at.node_id>>
          /\ UNCHANGED <<call, came_from, known_costs, steps, edge, result>>
    BY <1>4 DEF Arrive
  <2>2. q.at.node_id \in DOMAIN call.graph
    BY <2>1, <1>3, SearchNodesClosed DEF TypeOK, SearchNodes
  <2>3. path' \in Seq(DOMAIN call.graph)
    BY <2>1, <2>2, SeqCons
  <2>4. pc = "pop"
    BY <2>1 DEF Take
  <2> QED
    BY <2>1, <2>3, <2>4, <1>3 DEF TypeOK, Begun
<1>5. CASE Skip
  BY <1>5, <1>3 DEF Skip, TypeOK, Begun, rebuilding, Take
<1>6. CASE GiveUp
  <2>1. PICK q \in BagToSet(queue) :
          /\ Take(q)
          /\ steps' = steps + 1
          /\ pc' = "done"
          /\ UNCHANGED <<call, came_from, known_costs, edge, rebuilding>>
    BY <1>6 DEF GiveUp, Return
  <2> QED
    BY <2>1, <1>3 DEF TypeOK, Begun, rebuilding
<1>7. CASE Expand
  <2>1. PICK q \in BagToSet(queue) :
          /\ Take(q)
          /\ steps' = steps + 1
          /\ pc' = "expand"
          /\ edge' = 1
          /\ UNCHANGED <<call, came_from, known_costs, rebuilding, result>>
    BY <1>7 DEF Expand
  <2>2. pc = "pop"
    BY <2>1 DEF Take
  <2> QED
    BY <2>1, <2>2, <1>3 DEF TypeOK, Begun, rebuilding
<1>8. CASE Exhausted
  BY <1>8 DEF Exhausted, TypeOK, Begun, search, rebuilding, Return
<1>9. CASE Relax
  <2>1. /\ pc = "expand" /\ pc' = "expand"
        /\ edge \in DOMAIN Edges
        /\ edge' = edge + 1
        /\ UNCHANGED <<call, steps, item, last, path, result>>
        /\ HasNode(call.graph, Edges[edge].to)
        /\ came_from' = Insert(came_from, Neighbor, item.at)
        /\ known_costs' = Insert(known_costs, Neighbor, NeighborCost)
        /\ queue' = queue (+) SetToBag({QueueItem(call, Neighbor, NeighborCost)})
    BY <1>9 DEF Relax, NextEdge, Improves, rebuilding
  <2>2. item.at \in SearchNodes(call) /\ item.cost \in Nat /\ item.at \in DOMAIN known_costs
    BY <2>1 DEF TypeOK
  <2>3. Neighbor \in SearchNodes(call)
    BY <2>1, <2>2, SearchNodesClosed DEF HasNode, Neighbor
  <2>4. NeighborCost \in Nat
    <3>1. item.at.node_id \in DOMAIN call.graph
      BY <2>2 DEF SearchNodes
    <3>2. WellFormed(call.graph)
      BY DEF CallsAssumption, TypeOK
    <3> QED
      BY <3>1, <3>2, <2>1, <2>2, EdgeTypes DEF Edges, NeighborCost
  <2>5. /\ DOMAIN known_costs' = DOMAIN known_costs \cup {Neighbor}
        /\ known_costs' \in [DOMAIN known_costs' -> Nat]
    BY <2>1, <2>4 DEF Insert, TypeOK
  <2>6. /\ DOMAIN came_from' = DOMAIN came_from \cup {Neighbor}
        /\ came_from' \in [DOMAIN came_from' -> DOMAIN known_costs']
    BY <2>1, <2>2, <2>5 DEF Insert, TypeOK
  <2>7. IsABag(queue') /\ DOMAIN queue' = DOMAIN queue \cup {QueueItem(call, Neighbor, NeighborCost)}
    BY <2>1, BagPush DEF TypeOK
  <2>8. \A q \in DOMAIN queue' :
          /\ q.at \in DOMAIN known_costs'
          /\ q.cost \in Nat
          /\ q = QueueItem(call, q.at, q.cost)
    BY <2>4, <2>5, <2>7, ItemFields DEF TypeOK
  <2>9. steps' \in Nat /\ edge' \in Nat \ {0} /\ path' \in Seq(DOMAIN call'.graph)
    BY <2>1 DEF TypeOK
  <2>10. /\ item'.at \in DOMAIN known_costs'
         /\ item'.cost \in Nat
         /\ item' = QueueItem(call', item'.at, item'.cost)
    BY <2>1, <2>5 DEF TypeOK
  <2>11. DOMAIN known_costs' \subseteq SearchNodes(call') /\ call' \in Calls
    BY <2>1, <2>3, <2>5 DEF TypeOK
  <2>12. DOMAIN came_from' \subseteq DOMAIN known_costs'
    BY <2>5, <2>6 DEF TypeOK
  <2>13. TypeOK'
    BY <2>1, <2>5, <2>6, <2>7, <2>8, <2>9, <2>10, <2>11, <2>12 DEF TypeOK
  <2>14. Begun'
    BY <2>1, <2>5 DEF Begun
  <2> QED
    BY <2>13, <2>14
<1>10. CASE PassOver
  BY <1>10 DEF PassOver, NextEdge, TypeOK, Begun, search, rebuilding
<1>11. CASE Expanded
  BY <1>11 DEF Expanded, TypeOK, Begun, search, rebuilding
<1>12. CASE StepBack
  <2>1. last' \in DOMAIN known_costs
    BY <1>12 DEF StepBack, TypeOK
  <2>2. last'.node_id \in DOMAIN call.graph
    BY <2>1 DEF TypeOK, SearchNodes
  <2>3. path' \in Seq(DOMAIN call.graph)
    BY <1>12, <2>2, SeqCons DEF StepBack, TypeOK
  <2> QED
    BY <1>12, <2>1, <2>3 DEF StepBack, TypeOK, Begun, search
<1>13. CASE Found
  BY <1>13 DEF Found, TypeOK, Begun, search, rebuilding, Return
<1>14. CASE UNCHANGED vars
  BY <1>14 DEF vars, TypeOK, Begun
<1> QED
  BY <1>1, <1>2, <1>4, <1>5, <1>6, <1>7, <1>8, <1>9, <1>10, <1>11, <1>12, <1>13, <1>14
  DEF Next, Running, Returned

\* Type correctness: the search never refers to a node outside the graph.
THEOREM TypeCorrect == ASSUME CallsAssumption PROVE Spec => []TypeOK
<1>1. Init => TypeInv
  BY InitTypeInv
<1>2. TypeInv /\ [Next]_vars => TypeInv'
  BY NextTypeInv
<1>3. TypeInv => TypeOK
  BY DEF TypeInv
<1> QED
  BY <1>1, <1>2, <1>3, PTL DEF Spec

---------------------------------------------------------------------------
(* The tree of came_from links *)

\* A link came_from[at] = b is an edge that may be taken from b, and at is
\* what taking it leads to.
LinksAreEdges ==
    \A at \in DOMAIN came_from :
        LET b == came_from[at] IN
        /\ HasEdge(call.graph, b.node_id, at.node_id)
        /\ CanAdvance(call, b, at.node_id)
        /\ at = Advance(call, b, at.node_id)

\* Only the origin has no link, and nothing is cheaper than the origin.
Rooted ==
    /\ pc = "check" => DOMAIN came_from = {} /\ DOMAIN known_costs = {}
    /\ pc \in {"pop", "expand", "rebuild"} =>
          /\ DOMAIN known_costs = DOMAIN came_from \cup {Initial(call.from_id)}
          /\ known_costs[Initial(call.from_id)] = 0

\* What is known of a search node is the least cost queued for it, and the
\* node being expanded is expanded at that cost.
QueueIsKnown ==
    /\ \A q \in DOMAIN queue : known_costs[q.at] <= q.cost
    /\ pc = "expand" => known_costs[item.at] = item.cost

TreeInv == LinksDescend /\ LinksAreEdges /\ Rooted /\ QueueIsKnown

\* The facts about one relaxation that all invariants need.
LEMMA RelaxFacts ==
    ASSUME CallsAssumption, TypeInv, Relax
    PROVE  /\ pc = "expand" /\ pc' = "expand"
           /\ edge \in DOMAIN Edges /\ edge' = edge + 1 /\ edge \in Nat \ {0}
           /\ call' = call /\ item' = item /\ last' = last /\ path' = path /\ result' = result
           /\ item.at \in DOMAIN known_costs
           /\ item.at.node_id \in DOMAIN call.graph
           /\ WellFormed(call.graph)
           /\ Edges[edge].to \in DOMAIN call.graph
           /\ Edges[edge].cost \in Nat /\ NeighborCost \in Nat
           /\ CanAdvance(call, item.at, Edges[edge].to)
           /\ Neighbor \in SearchNodes(call) /\ Neighbor.node_id = Edges[edge].to
           /\ Neighbor \in DOMAIN known_costs => NeighborCost <= known_costs[Neighbor]
           /\ DOMAIN known_costs' = DOMAIN known_costs \cup {Neighbor}
           /\ known_costs'[Neighbor] = NeighborCost
           /\ \A at \in DOMAIN known_costs : at # Neighbor => known_costs'[at] = known_costs[at]
           /\ \A at \in DOMAIN known_costs :
                 known_costs[at] \in Nat /\ known_costs'[at] <= known_costs[at]
           /\ DOMAIN came_from' = DOMAIN came_from \cup {Neighbor}
           /\ came_from'[Neighbor] = item.at
           /\ \A at \in DOMAIN came_from : at # Neighbor => came_from'[at] = came_from[at]
           /\ DOMAIN queue' = DOMAIN queue \cup {QueueItem(call, Neighbor, NeighborCost)}
<1>1. /\ pc = "expand" /\ pc' = "expand"
      /\ edge \in DOMAIN Edges /\ edge' = edge + 1 /\ edge \in Nat \ {0}
      /\ UNCHANGED <<call, steps, item, last, path, result>>
      /\ Improves(Edges[edge])
      /\ came_from' = Insert(came_from, Neighbor, item.at)
      /\ known_costs' = Insert(known_costs, Neighbor, NeighborCost)
      /\ queue' = queue (+) SetToBag({QueueItem(call, Neighbor, NeighborCost)})
  BY DEF Relax, NextEdge, rebuilding, TypeInv, TypeOK
<1>2. item.at \in SearchNodes(call) /\ item.cost \in Nat /\ item.at \in DOMAIN known_costs
  BY <1>1 DEF TypeInv, TypeOK
<1>3. WellFormed(call.graph)
  BY DEF CallsAssumption, TypeInv, TypeOK
<1>4. item.at.node_id \in DOMAIN call.graph
  BY <1>2 DEF SearchNodes
<1>5. Edges[edge].cost \in Nat /\ NeighborCost \in Nat
  BY <1>1, <1>2, <1>3, <1>4, EdgeTypes DEF Edges, NeighborCost
<1>6. Edges[edge].to \in DOMAIN call.graph /\ CanAdvance(call, item.at, Edges[edge].to) /\ ~ Worse(Neighbor, NeighborCost)
  BY <1>1 DEF Improves, HasNode, Neighbor, NeighborCost
<1>7. Neighbor \in SearchNodes(call) /\ Neighbor.node_id = Edges[edge].to
  BY <1>2, <1>6, SearchNodesClosed DEF Neighbor
<1>8. \A at \in DOMAIN known_costs : known_costs[at] \in Nat
  BY DEF TypeInv, TypeOK
<1>9. Neighbor \in DOMAIN known_costs => NeighborCost <= known_costs[Neighbor]
  BY <1>5, <1>6, <1>8 DEF Worse
<1>10. /\ DOMAIN known_costs' = DOMAIN known_costs \cup {Neighbor}
       /\ known_costs'[Neighbor] = NeighborCost
       /\ \A at \in DOMAIN known_costs : at # Neighbor => known_costs'[at] = known_costs[at]
  BY <1>1 DEF Insert
<1>11. /\ DOMAIN came_from' = DOMAIN came_from \cup {Neighbor}
       /\ came_from'[Neighbor] = item.at
       /\ \A at \in DOMAIN came_from : at # Neighbor => came_from'[at] = came_from[at]
  BY <1>1 DEF Insert
<1>12. DOMAIN queue' = DOMAIN queue \cup {QueueItem(call, Neighbor, NeighborCost)}
  BY <1>1, BagPush DEF TypeInv, TypeOK
<1>13. \A at \in DOMAIN known_costs :
          known_costs[at] \in Nat /\ known_costs'[at] <= known_costs[at]
  BY <1>8, <1>9, <1>10
<1> QED
  BY <1>1, <1>2, <1>3, <1>4, <1>5, <1>6, <1>7, <1>9, <1>10, <1>11, <1>12, <1>13

LEMMA InitTreeInv == ASSUME Init PROVE TreeInv
BY BagBasics DEF Init, TreeInv, LinksDescend, LinksAreEdges, Rooted, QueueIsKnown

LEMMA RelaxTreeInv ==
    ASSUME CallsAssumption, PositiveCosts, TypeInv, TreeInv, Relax
    PROVE  TreeInv'
<1> DEFINE g == call.graph
<1>1. known_costs[item.at] = item.cost /\ item.cost \in Nat
  BY RelaxFacts DEF TreeInv, QueueIsKnown
<1>2. Edges[edge].cost > 0 /\ HasEdge(g, item.at.node_id, Edges[edge].to)
  <2>1. edge \in DOMAIN GetEdges(g, item.at.node_id) /\ item.at.node_id \in DOMAIN g
    BY RelaxFacts DEF Edges
  <2>2. call \in Calls
    BY DEF TypeInv, TypeOK
  <2> QED
    BY <2>1, <2>2 DEF PositiveCosts, Edges, HasEdge, EdgesTo
<1>3. Neighbor # item.at
  BY RelaxFacts, <1>1, <1>2 DEF NeighborCost
<1>4. LinksDescend'
  <2>1. ASSUME NEW at \in DOMAIN came_from'
        PROVE  known_costs'[came_from'[at]] < known_costs'[at]
    <3>1. CASE at = Neighbor
      BY <3>1, RelaxFacts, <1>1, <1>2, <1>3 DEF NeighborCost
    <3>2. CASE at # Neighbor
      <4>1. at \in DOMAIN came_from /\ came_from'[at] = came_from[at]
        BY <2>1, <3>2, RelaxFacts
      <4>2. at \in DOMAIN known_costs /\ came_from[at] \in DOMAIN known_costs
        BY <4>1 DEF TypeInv, TypeOK
      <4>3. known_costs[came_from[at]] < known_costs[at]
        BY <4>1 DEF TreeInv, LinksDescend
      <4> QED
        BY <4>1, <4>2, <4>3, <3>2, RelaxFacts
    <3> QED
      BY <3>1, <3>2
  <2> QED
    BY <2>1 DEF LinksDescend
<1>5. LinksAreEdges'
  <2>1. ASSUME NEW at \in DOMAIN came_from'
        PROVE  /\ HasEdge(g, came_from'[at].node_id, at.node_id)
               /\ CanAdvance(call, came_from'[at], at.node_id)
               /\ at = Advance(call, came_from'[at], at.node_id)
    <3>1. CASE at = Neighbor
      BY <3>1, RelaxFacts, <1>2 DEF Neighbor
    <3>2. CASE at # Neighbor
      BY <3>2, <2>1, RelaxFacts DEF TreeInv, LinksAreEdges
    <3> QED
      BY <3>1, <3>2
  <2> QED
    BY <2>1, RelaxFacts DEF LinksAreEdges
<1>6. Rooted'
  <2>1. Initial(call.from_id) \in DOMAIN known_costs /\ known_costs[Initial(call.from_id)] = 0
    BY RelaxFacts DEF TypeInv, Begun, TreeInv, Rooted
  <2>2. Neighbor # Initial(call.from_id)
    BY <2>1, RelaxFacts, <1>1, <1>2 DEF NeighborCost
  <2> QED
    BY <2>1, <2>2, RelaxFacts DEF TreeInv, Rooted
<1>7. QueueIsKnown'
  <2>1. ASSUME NEW q \in DOMAIN queue'
        PROVE  known_costs'[q.at] <= q.cost
    <3>1. CASE q = QueueItem(call, Neighbor, NeighborCost)
      BY <3>1, RelaxFacts, ItemFields
    <3>2. CASE q \in DOMAIN queue
      BY <3>2, RelaxFacts, SMTT(30) DEF TreeInv, QueueIsKnown, TypeInv, TypeOK
    <3> QED
      BY <2>1, <3>1, <3>2, RelaxFacts
  <2>2. known_costs'[item'.at] = item'.cost
    BY RelaxFacts, <1>1, <1>3
  <2> QED
    BY <2>1, <2>2 DEF QueueIsKnown
<1> QED
  BY <1>4, <1>5, <1>6, <1>7 DEF TreeInv

\* What taking an item from the queue gives.
LEMMA TakeFacts ==
    ASSUME TypeInv, NEW q \in BagToSet(queue), Take(q)
    PROVE  /\ pc = "pop" /\ item' = q
           /\ q \in DOMAIN queue
           /\ q.at \in DOMAIN known_costs /\ q.cost \in Nat
           /\ q = QueueItem(call, q.at, q.cost)
           /\ q.at_osm_id = OsmId(call.graph, q.at.node_id)
           /\ q.score = q.cost + Estimate(call, q.at.node_id)
           /\ DOMAIN queue' \subseteq DOMAIN queue
           /\ DOMAIN queue \ {q} \subseteq DOMAIN queue'
           /\ \A r \in DOMAIN queue : q.score <= r.score
<1>1. /\ q \in DOMAIN queue
      /\ q.at \in DOMAIN known_costs /\ q.cost \in Nat
      /\ q = QueueItem(call, q.at, q.cost)
  BY DEF TypeInv, TypeOK, BagToSet
<1>2. /\ q.at_osm_id = OsmId(call.graph, q.at.node_id)
      /\ q.score = q.cost + Estimate(call, q.at.node_id)
  BY <1>1, ItemFields
<1>3. /\ DOMAIN queue' \subseteq DOMAIN queue
      /\ DOMAIN queue \ {q} \subseteq DOMAIN queue'
  BY BagPop DEF Take, TypeInv, TypeOK
<1> QED
  BY <1>1, <1>2, <1>3 DEF Take, BagToSet

LEMMA BeginTreeInv == ASSUME TypeInv, TreeInv, Begin PROVE TreeInv'
<1>1. /\ pc = "check" /\ pc' = "pop"
      /\ DOMAIN came_from = {} /\ came_from' = came_from /\ call' = call
      /\ DOMAIN known_costs' = DOMAIN known_costs \cup {Initial(call.from_id)}
      /\ known_costs'[Initial(call.from_id)] = 0
      /\ DOMAIN queue' = {QueueItem(call, Initial(call.from_id), 0)}
  BY BagBasics DEF Begin, Insert, TreeInv, Rooted
<1>2. DOMAIN known_costs = {}
  BY <1>1 DEF TreeInv, Rooted
<1>3. \A q \in DOMAIN queue' : known_costs'[q.at] <= q.cost
  BY <1>1, ItemFields
<1> QED
  BY <1>1, <1>2, <1>3 DEF TreeInv, LinksDescend, LinksAreEdges, Rooted, QueueIsKnown

LEMMA TakeTreeInv ==
    ASSUME TypeInv, TreeInv, NEW q \in BagToSet(queue), Take(q),
           UNCHANGED <<call, came_from, known_costs>>,
           pc' \in {"pop", "rebuild", "done"} \/ (pc' = "expand" /\ ~ Stale(q))
    PROVE  TreeInv'
<1>1. pc = "pop" /\ item' = q /\ q.at \in DOMAIN known_costs /\ q.cost \in Nat
  BY TakeFacts
<1>2. known_costs[q.at] \in Nat /\ known_costs[q.at] <= q.cost
  BY <1>1 DEF TypeInv, TypeOK, BagToSet, TreeInv, QueueIsKnown
<1>3. pc' = "expand" => known_costs'[item'.at] = item'.cost
  BY <1>1, <1>2 DEF Stale, Worse
<1>4. \A r \in DOMAIN queue' : known_costs'[r.at] <= r.cost
  BY TakeFacts DEF TreeInv, QueueIsKnown
<1>5. LinksDescend' /\ LinksAreEdges'
  BY DEF TreeInv, LinksDescend, LinksAreEdges
<1>6. Rooted'
  BY <1>1 DEF TreeInv, Rooted
<1> QED
  BY <1>3, <1>4, <1>5, <1>6 DEF TreeInv, QueueIsKnown

LEMMA NextTreeInv ==
    ASSUME CallsAssumption, PositiveCosts, TypeInv, TreeInv, [Next]_vars
    PROVE  TreeInv'
<1>2. CASE Reject
  BY <1>2 DEF Reject, Return, search,
       TreeInv, LinksDescend, LinksAreEdges, Rooted, QueueIsKnown
<1>3. CASE Begin
  BY <1>3, BeginTreeInv
<1>4. CASE Arrive
  <2>1. PICK q \in BagToSet(queue) :
          Take(q) /\ pc' = "rebuild" /\ UNCHANGED <<call, came_from, known_costs>>
    BY <1>4 DEF Arrive
  <2> QED
    BY <2>1, TakeTreeInv
<1>5. CASE Skip
  <2>1. PICK q \in BagToSet(queue) :
          Take(q) /\ pc' = pc /\ UNCHANGED <<call, came_from, known_costs>>
    BY <1>5 DEF Skip
  <2>2. pc' = "pop"
    BY <2>1 DEF Take
  <2> QED
    BY <2>1, <2>2, TakeTreeInv
<1>6. CASE GiveUp
  BY <1>6, TakeTreeInv DEF GiveUp, Return
<1>7. CASE Expand
  BY <1>7, TakeTreeInv DEF Expand
<1>8. CASE Exhausted
  BY <1>8 DEF Exhausted, search, Return,
       TreeInv, LinksDescend, LinksAreEdges, Rooted, QueueIsKnown
<1>9. CASE Relax
  BY <1>9, RelaxTreeInv
<1>10. CASE PassOver
  BY <1>10 DEF PassOver, NextEdge, search,
       TreeInv, LinksDescend, LinksAreEdges, Rooted, QueueIsKnown
<1>11. CASE Expanded
  BY <1>11 DEF Expanded, search,
       TreeInv, LinksDescend, LinksAreEdges, Rooted, QueueIsKnown
<1>12. CASE StepBack
  BY <1>12 DEF StepBack, search,
       TreeInv, LinksDescend, LinksAreEdges, Rooted, QueueIsKnown
<1>13. CASE Found
  BY <1>13 DEF Found, search, Return,
       TreeInv, LinksDescend, LinksAreEdges, Rooted, QueueIsKnown
<1>14. CASE UNCHANGED vars
  BY <1>14 DEF vars,
       TreeInv, LinksDescend, LinksAreEdges, Rooted, QueueIsKnown
<1> QED
  BY <1>2, <1>3, <1>4, <1>5, <1>6, <1>7, <1>8, <1>9, <1>10, <1>11, <1>12, <1>13, <1>14
  DEF Next, Running, Returned

\* With no free edge, came_from never holds a cycle.
THEOREM LinksDescendAlways ==
    ASSUME CallsAssumption, PositiveCosts PROVE Spec => []LinksDescend
<1>1. Init => TypeInv /\ TreeInv
  BY InitTypeInv, InitTreeInv
<1>2. TypeInv /\ TreeInv /\ [Next]_vars => (TypeInv /\ TreeInv)'
  BY NextTypeInv, NextTreeInv
<1>3. TreeInv => LinksDescend
  BY DEF TreeInv
<1> QED
  BY <1>1, <1>2, <1>3, PTL DEF Spec

---------------------------------------------------------------------------
(* The route *)

\* The part of the path rebuilt so far is a route, but for where it starts.
RouteSoFar ==
    LET g == call.graph IN
    pc = "rebuild" =>
        /\ Len(path) > 0
        /\ path[1] = last.node_id
        /\ OsmId(g, path[Len(path)]) = call.to_id
        /\ \A i \in 1 .. Len(path) - 1 : HasEdge(g, path[i], path[i + 1])
        /\ call.no_turn_around =>
              /\ Len(path) > 1 => OsmId(g, path[2]) # last.before_osm_id
              /\ \A i \in 1 .. Len(path) - 2 :
                    OsmId(g, path[i]) # OsmId(g, path[i + 2])

RouteInv == RouteSoFar /\ RouteIsReal

LEMMA ArriveRouteInv == ASSUME TypeInv, RouteInv, Arrive PROVE RouteInv'
<1>1. PICK q \in BagToSet(queue) :
        /\ Take(q) /\ Reached(q)
        /\ last' = q.at /\ path' = <<q.at.node_id>>
        /\ call' = call /\ result' = result
  BY DEF Arrive
<1>2. OsmId(call.graph, q.at.node_id) = call.to_id
  BY <1>1, TakeFacts DEF Reached
<1>3. Len(path') = 1 /\ path'[1] = q.at.node_id
  BY <1>1
<1> QED
  BY <1>1, <1>2, <1>3 DEF RouteInv, RouteSoFar, RouteIsReal

LEMMA StepBackRouteInv ==
    ASSUME TypeInv, TreeInv, RouteInv, StepBack PROVE RouteInv'
<1> DEFINE g == call.graph
           b == came_from[last]
<1>1. /\ pc = "rebuild" /\ last \in DOMAIN came_from
      /\ last' = b /\ path' = <<b.node_id>> \o path
      /\ call' = call /\ result' = result
  BY DEF StepBack
<1>2. /\ HasEdge(g, b.node_id, last.node_id)
      /\ CanAdvance(call, b, last.node_id)
      /\ last = Advance(call, b, last.node_id)
  BY <1>1 DEF TreeInv, LinksAreEdges
<1>3. path \in Seq(DOMAIN g) /\ b.node_id \in DOMAIN g
  BY <1>1 DEF TypeInv, TypeOK, SearchNodes
<1>4. /\ Len(path') = Len(path) + 1
      /\ path'[1] = b.node_id
      /\ \A i \in 1 .. Len(path) : path'[i + 1] = path[i]
      /\ Len(path) \in Nat
  BY <1>1, <1>3, SeqCons
<1> HIDE DEF g, b
<1>5. /\ Len(path) > 0 /\ path[1] = last.node_id /\ OsmId(g, path[Len(path)]) = call.to_id
      /\ \A i \in 1 .. Len(path) - 1 : HasEdge(g, path[i], path[i + 1])
  BY <1>1 DEF RouteInv, RouteSoFar, g
<1>6. path'[Len(path')] = path[Len(path)] /\ path'[2] = path[1]
  BY <1>4, <1>5
<1>7. \A i \in 1 .. Len(path') - 1 : HasEdge(g, path'[i], path'[i + 1])
  <2>1. ASSUME NEW i \in 1 .. Len(path') - 1 PROVE HasEdge(g, path'[i], path'[i + 1])
    <3>1. CASE i = 1
      BY <3>1, <1>2, <1>4, <1>5, <1>6
    <3>2. CASE i # 1
      <4>1. i - 1 \in 1 .. Len(path) - 1 /\ i - 1 \in 1 .. Len(path) /\ i \in 1 .. Len(path)
        BY <2>1, <3>2, <1>4
      <4>2. path'[i] = path[i - 1] /\ path'[i + 1] = path[i]
        BY <4>1, <1>4
      <4>3. HasEdge(g, path[i - 1], path[(i - 1) + 1])
        BY <4>1, <1>5
      <4> QED
        BY <4>1, <4>2, <4>3
    <3> QED
      BY <3>1, <3>2
  <2> QED
    BY <2>1
<1>8. ASSUME call.no_turn_around
      PROVE  /\ Len(path') > 1 => OsmId(g, path'[2]) # last'.before_osm_id
             /\ \A i \in 1 .. Len(path') - 2 : OsmId(g, path'[i]) # OsmId(g, path'[i + 2])
  <2>1. OsmId(g, last.node_id) # b.before_osm_id /\ last.before_osm_id = OsmId(g, b.node_id)
    BY <1>2, <1>8 DEF CanAdvance, Advance, g
  <2>2. /\ Len(path) > 1 => OsmId(g, path[2]) # last.before_osm_id
        /\ \A i \in 1 .. Len(path) - 2 : OsmId(g, path[i]) # OsmId(g, path[i + 2])
    BY <1>1, <1>8 DEF RouteInv, RouteSoFar, g
  <2>3. ASSUME NEW i \in 1 .. Len(path') - 2
        PROVE  OsmId(g, path'[i]) # OsmId(g, path'[i + 2])
    <3>1. CASE i = 1
      <4>1. Len(path) > 1 /\ path'[3] = path[2]
        BY <2>3, <3>1, <1>4
      <4> QED
        BY <4>1, <3>1, <2>1, <2>2, <1>4
    <3>2. CASE i # 1
      <4>1. /\ i - 1 \in 1 .. Len(path) - 2 /\ i - 1 \in 1 .. Len(path)
            /\ i + 1 \in 1 .. Len(path)
        BY <2>3, <3>2, <1>4
      <4>2. path'[i] = path[i - 1] /\ path'[i + 2] = path[i + 1]
        BY <4>1, <1>4
      <4>3. OsmId(g, path[i - 1]) # OsmId(g, path[(i - 1) + 2])
        BY <4>1, <2>2
      <4> QED
        BY <4>1, <4>2, <4>3
    <3> QED
      BY <3>1, <3>2
  <2> QED
    BY <2>1, <2>3, <1>1, <1>5, <1>6
<1>9. RouteSoFar'
  BY <1>1, <1>4, <1>5, <1>6, <1>7, <1>8 DEF RouteSoFar, g
<1> QED
  BY <1>1, <1>9 DEF RouteInv, RouteIsReal

LEMMA FoundRouteInv == ASSUME TypeInv, TreeInv, RouteInv, Found PROVE RouteInv'
<1>1. /\ pc = "rebuild" /\ last \notin DOMAIN came_from
      /\ pc' = "done" /\ result' = Ok(path) /\ call' = call
  BY DEF Found, Return
<1>2. last = Initial(call.from_id)
  BY <1>1 DEF TypeInv, TypeOK, TreeInv, Rooted
<1>3. IsRoute(call, path)
  BY <1>1, <1>2 DEF RouteInv, RouteSoFar, IsRoute, Initial, TypeInv, TypeOK
<1> QED
  BY <1>1, <1>3 DEF RouteInv, RouteSoFar, RouteIsReal, Ok

LEMMA NextRouteInv ==
    ASSUME CallsAssumption, TypeInv, TreeInv, RouteInv, [Next]_vars
    PROVE  RouteInv'
<1> USE DEF RouteInv, RouteSoFar, RouteIsReal
<1>1. CASE Reject
  BY <1>1 DEF Reject, Return, InvalidReference
<1>2. CASE Begin
  BY <1>2 DEF Begin
<1>3. CASE Arrive
  BY <1>3, ArriveRouteInv
<1>4. CASE Skip
  BY <1>4 DEF Skip, Take
<1>5. CASE GiveUp
  BY <1>5 DEF GiveUp, Return, StepLimitExceeded
<1>6. CASE Expand
  BY <1>6 DEF Expand
<1>7. CASE Exhausted
  BY <1>7 DEF Exhausted, Return, Ok
<1>8. CASE Relax
  BY <1>8 DEF Relax, NextEdge
<1>9. CASE PassOver
  BY <1>9 DEF PassOver, NextEdge
<1>10. CASE Expanded
  BY <1>10 DEF Expanded
<1>11. CASE StepBack
  BY <1>11, StepBackRouteInv
<1>12. CASE Found
  BY <1>12, FoundRouteInv
<1>13. CASE UNCHANGED vars
  BY <1>13 DEF vars
<1> QED
  BY <1>1, <1>2, <1>3, <1>4, <1>5, <1>6, <1>7, <1>8, <1>9, <1>10, <1>11, <1>12, <1>13
  DEF Next, Running, Returned

\* Every route that is returned is one: it exists in the graph, links the
\* two ends, and makes no A-B-A turn in the search that excludes it.
THEOREM RoutesAreReal ==
    ASSUME CallsAssumption, PositiveCosts PROVE Spec => []RouteIsReal
<1>1. Init => TypeInv /\ TreeInv /\ RouteInv
  BY InitTypeInv, InitTreeInv DEF Init, RouteInv, RouteSoFar, RouteIsReal, Pending
<1>2. TypeInv /\ TreeInv /\ RouteInv /\ [Next]_vars => (TypeInv /\ TreeInv /\ RouteInv)'
  BY NextTypeInv, NextTreeInv, NextRouteInv
<1>3. RouteInv => RouteIsReal
  BY DEF RouteInv
<1> QED
  BY <1>1, <1>2, <1>3, PTL DEF Spec

---------------------------------------------------------------------------
(* The frontier *)

\* The destination never leaves the queue without ending the search.
GoalsAreQueued ==
    pc \in {"pop", "expand"} =>
        \A at \in DOMAIN known_costs :
            AtDestination(call, at) => \E q \in DOMAIN queue : q.at = at

\* Nothing is returned before the end.
PendingUntilDone == pc # "done" => result = Pending

FrontierInv ==
    /\ FrontierIsComplete
    /\ GoalsAreQueued
    /\ PendingUntilDone
    /\ EmptyRouteIsRight

LEMMA InitFrontierInv == ASSUME Init PROVE FrontierInv
BY DEF Init, FrontierInv, FrontierIsComplete, GoalsAreQueued, PendingUntilDone,
       EmptyRouteIsRight, Pending, Ok

LEMMA BeginFrontierInv ==
    ASSUME TypeInv, TreeInv, FrontierInv, Begin PROVE FrontierInv'
<1> DEFINE o == Initial(call.from_id)
<1>1. /\ pc = "check" /\ pc' = "pop" /\ result' = result /\ call' = call
      /\ DOMAIN known_costs = {}
      /\ DOMAIN known_costs' = DOMAIN known_costs \cup {o}
      /\ known_costs'[o] = 0
      /\ DOMAIN queue' = {QueueItem(call, o, 0)}
  BY BagBasics DEF Begin, Insert, TreeInv, Rooted
<1>2. QueueItem(call, o, 0).at = o /\ QueueItem(call, o, 0).cost = 0
  BY ItemFields
<1> QED
  BY <1>1, <1>2 DEF FrontierInv, FrontierIsComplete, GoalsAreQueued, PendingUntilDone,
                    EmptyRouteIsRight, Pending, Ok, Queued, BagToSet

LEMMA SkipFrontierInv ==
    ASSUME TypeInv, TreeInv, FrontierInv, Skip PROVE FrontierInv'
<1>1. PICK q \in BagToSet(queue) :
        /\ Take(q) /\ ~ Reached(q) /\ Stale(q)
        /\ pc' = pc /\ call' = call /\ known_costs' = known_costs /\ result' = result
  BY DEF Skip
<1>2. /\ pc = "pop" /\ q \in DOMAIN queue
      /\ DOMAIN queue \ {q} \subseteq DOMAIN queue'
      /\ ~ AtDestination(call, q.at)
      /\ q.cost # known_costs[q.at]
  BY <1>1, TakeFacts DEF Reached, AtDestination, Stale, Worse, TypeInv, TypeOK
<1>3. \A at \in DOMAIN known_costs : Queued(at) => Queued(at)'
  BY <1>1, <1>2 DEF Queued, BagToSet
<1>4. \A at \in DOMAIN known_costs :
        \A i \in DOMAIN GetEdges(call.graph, at.node_id) :
            EdgeIsSettled(at, i) => EdgeIsSettled(at, i)'
  BY <1>1, <1>2 DEF EdgeIsSettled
<1>5. FrontierIsComplete'
  BY <1>1, <1>2, <1>3, <1>4 DEF FrontierInv, FrontierIsComplete
<1>6. GoalsAreQueued'
  BY <1>1, <1>2 DEF FrontierInv, GoalsAreQueued
<1> QED
  BY <1>1, <1>2, <1>5, <1>6 DEF FrontierInv, PendingUntilDone, EmptyRouteIsRight, Pending, Ok

LEMMA ExpandFrontierInv ==
    ASSUME CallsAssumption, TypeInv, TreeInv, FrontierInv, Expand PROVE FrontierInv'
<1>1. PICK q \in BagToSet(queue) :
        /\ Take(q) /\ ~ Reached(q)
        /\ pc' = "expand" /\ edge' = 1
        /\ call' = call /\ known_costs' = known_costs /\ result' = result
  BY DEF Expand
<1>2. /\ pc = "pop" /\ q \in DOMAIN queue /\ item' = q
      /\ DOMAIN queue \ {q} \subseteq DOMAIN queue'
      /\ ~ AtDestination(call, q.at)
  BY <1>1, TakeFacts DEF Reached, AtDestination
<1>3. ASSUME NEW at \in DOMAIN known_costs, at # q.at
      PROVE  /\ Queued(at) => Queued(at)'
             /\ \A i \in DOMAIN GetEdges(call.graph, at.node_id) :
                   EdgeIsSettled(at, i) => EdgeIsSettled(at, i)'
  BY <1>1, <1>2, <1>3 DEF Queued, BagToSet, EdgeIsSettled
<1>4. \A i \in DOMAIN GetEdges(call.graph, q.at.node_id) : EdgeIsSettled(q.at, i)'
  <2>1. q.at.node_id \in DOMAIN call.graph /\ WellFormed(call.graph)
    BY <1>1, TakeFacts DEF TypeInv, TypeOK, SearchNodes, CallsAssumption
  <2>2. \A i \in DOMAIN GetEdges(call.graph, q.at.node_id) : 1 <= i
    BY <2>1, EdgeTypes
  <2> QED
    BY <1>1, <1>2, <2>2 DEF EdgeIsSettled
<1>5. FrontierIsComplete'
  BY <1>1, <1>2, <1>3, <1>4 DEF FrontierInv, FrontierIsComplete
<1>6. GoalsAreQueued'
  BY <1>1, <1>2 DEF FrontierInv, GoalsAreQueued
<1> QED
  BY <1>1, <1>2, <1>5, <1>6 DEF FrontierInv, PendingUntilDone, EmptyRouteIsRight, Pending, Ok

LEMMA RelaxFrontierInv ==
    ASSUME CallsAssumption, TypeInv, TreeInv, FrontierInv, Relax
    PROVE  FrontierInv'
<1> DEFINE pushed == QueueItem(call, Neighbor, NeighborCost)
<1>1. /\ pc = "expand" /\ pc' = "expand" /\ edge' = edge + 1 /\ edge \in Nat
      /\ call' = call /\ item' = item /\ result' = result
      /\ DOMAIN known_costs' = DOMAIN known_costs \cup {Neighbor}
      /\ known_costs'[Neighbor] = NeighborCost
      /\ DOMAIN queue' = DOMAIN queue \cup {pushed}
      /\ pushed.at = Neighbor /\ pushed.cost = NeighborCost
      /\ known_costs[item.at] = item.cost
  BY RelaxFacts, ItemFields DEF TreeInv, QueueIsKnown
<1> HIDE DEF pushed
<1>2. ASSUME NEW at, at = Neighbor PROVE Queued(at)'
  BY <1>1, <1>2 DEF Queued, BagToSet
<1>3. ASSUME NEW at \in DOMAIN known_costs, at # Neighbor
      PROVE  /\ known_costs'[at] = known_costs[at]
             /\ Queued(at) => Queued(at)'
  BY <1>1, <1>3, RelaxFacts DEF Queued, BagToSet
<1>4. ASSUME NEW at \in DOMAIN known_costs, at # Neighbor,
             NEW i \in DOMAIN GetEdges(call.graph, at.node_id),
             EdgeIsSettled(at, i)
      PROVE  EdgeIsSettled(at, i)'
  <2> DEFINE e == GetEdges(call.graph, at.node_id)[i]
             n == Advance(call, at, e.to)
  <2>1. at.node_id \in DOMAIN call.graph /\ WellFormed(call.graph)
    BY DEF TypeInv, TypeOK, SearchNodes, CallsAssumption
  <2>2. e.cost \in Nat /\ i \in Nat /\ known_costs[at] \in Nat
    BY <2>1, EdgeTypes DEF TypeInv, TypeOK
  <2>3. CASE item.at = at /\ edge = i
    <3>1. n = Neighbor /\ NeighborCost = known_costs[at] + e.cost
      BY <2>3, <1>1 DEF Neighbor, NeighborCost, Edges
    <3>2. known_costs'[n] <= known_costs'[at] + e.cost /\ n \in DOMAIN known_costs'
      BY <3>1, <2>2, <1>1, <1>3, <1>4
    <3> QED
      BY <3>2, <1>1 DEF EdgeIsSettled
  <2>4. CASE item.at = at /\ edge <= i /\ edge # i
    BY <2>2, <2>4, <1>1 DEF EdgeIsSettled
  <2>5. CASE ~ HasNode(call.graph, e.to) \/ ~ CanAdvance(call, at, e.to)
    BY <2>5, <1>1 DEF EdgeIsSettled
  <2>6. CASE n \in DOMAIN known_costs /\ known_costs[n] <= known_costs[at] + e.cost
    <3>1. /\ n \in DOMAIN known_costs' /\ known_costs[n] \in Nat
          /\ known_costs'[n] <= known_costs[n] /\ known_costs'[at] = known_costs[at]
      BY <2>6, <1>3, <1>4, RelaxFacts
    <3>2. NeighborCost \in Nat /\ known_costs'[n] \in Nat
      BY <3>1, <2>6, RelaxFacts
    <3>3. known_costs'[n] <= known_costs'[at] + e.cost
      BY <3>1, <3>2, <2>2, <2>6
    <3> QED
      BY <3>1, <3>3, <1>1 DEF EdgeIsSettled
  <2> QED
    BY <2>3, <2>4, <2>5, <2>6, <1>4 DEF EdgeIsSettled
<1>5. FrontierIsComplete'
  BY <1>1, <1>2, <1>3, <1>4 DEF FrontierInv, FrontierIsComplete
<1>6. GoalsAreQueued'
  BY <1>1 DEF FrontierInv, GoalsAreQueued
<1> QED
  BY <1>1, <1>5, <1>6 DEF FrontierInv, PendingUntilDone, EmptyRouteIsRight, Pending, Ok

LEMMA PassOverFrontierInv ==
    ASSUME CallsAssumption, TypeInv, TreeInv, FrontierInv, PassOver
    PROVE  FrontierInv'
<1>1. /\ pc = "expand" /\ pc' = "expand" /\ edge' = edge + 1 /\ edge \in Nat
      /\ edge \in DOMAIN Edges /\ ~ Improves(Edges[edge])
      /\ UNCHANGED <<call, item, result, queue, known_costs>>
      /\ known_costs[item.at] = item.cost
  BY DEF PassOver, NextEdge, search, TreeInv, QueueIsKnown, TypeInv, TypeOK
<1>2. \A at \in DOMAIN known_costs : Queued(at) => Queued(at)'
  BY <1>1 DEF Queued, BagToSet
<1>3. ASSUME NEW at \in DOMAIN known_costs,
             NEW i \in DOMAIN GetEdges(call.graph, at.node_id),
             EdgeIsSettled(at, i)
      PROVE  EdgeIsSettled(at, i)'
  <2> DEFINE e == GetEdges(call.graph, at.node_id)[i]
             n == Advance(call, at, e.to)
  <2>1. at.node_id \in DOMAIN call.graph /\ WellFormed(call.graph)
    BY DEF TypeInv, TypeOK, SearchNodes, CallsAssumption
  <2>2. e.cost \in Nat /\ i \in Nat /\ known_costs[at] \in Nat
    BY <2>1, EdgeTypes DEF TypeInv, TypeOK
  <2>3. CASE item.at = at /\ edge = i
    <3>1. CASE n \in DOMAIN known_costs /\ known_costs[at] + e.cost > known_costs[n]
      <4>1. known_costs[n] \in Nat
        BY <3>1 DEF TypeInv, TypeOK
      <4> QED
        BY <3>1, <4>1, <2>2, <1>1 DEF EdgeIsSettled
    <3>2. CASE ~ HasNode(call.graph, e.to) \/ ~ CanAdvance(call, at, e.to)
      BY <3>2, <1>1 DEF EdgeIsSettled
    <3> QED
      BY <2>3, <3>1, <3>2, <1>1 DEF Improves, Worse, Edges
  <2>4. CASE item.at = at /\ edge <= i /\ edge # i
    BY <2>2, <2>4, <1>1 DEF EdgeIsSettled
  <2>5. CASE ~ (item.at = at /\ edge <= i)
    BY <2>5, <1>1, <1>3 DEF EdgeIsSettled
  <2> QED
    BY <2>3, <2>4, <2>5
<1>4. FrontierIsComplete'
  BY <1>1, <1>2, <1>3 DEF FrontierInv, FrontierIsComplete
<1> QED
  BY <1>1, <1>4 DEF FrontierInv, GoalsAreQueued, PendingUntilDone, EmptyRouteIsRight, Pending, Ok

LEMMA ExpandedFrontierInv ==
    ASSUME CallsAssumption, TypeInv, TreeInv, FrontierInv, Expanded
    PROVE  FrontierInv'
<1>1. /\ pc = "expand" /\ pc' = "pop" /\ edge \in Nat \ {0} /\ edge \notin DOMAIN Edges
      /\ UNCHANGED <<call, item, result, queue, known_costs>>
  BY DEF Expanded, search, TypeInv, TypeOK
<1>2. \A at \in DOMAIN known_costs : Queued(at) => Queued(at)'
  BY <1>1 DEF Queued, BagToSet
<1>3. ASSUME NEW at \in DOMAIN known_costs,
             NEW i \in DOMAIN GetEdges(call.graph, at.node_id),
             EdgeIsSettled(at, i)
      PROVE  EdgeIsSettled(at, i)'
  <2>1. at.node_id \in DOMAIN call.graph /\ WellFormed(call.graph)
    BY DEF TypeInv, TypeOK, SearchNodes, CallsAssumption
  <2>2. /\ GetEdges(call.graph, at.node_id) \in Seq([to : Int \ {0}, cost : Nat])
        /\ i \in 1 .. Len(GetEdges(call.graph, at.node_id))
    BY <2>1 DEF WellFormed
  <2>3. ~ (item.at = at /\ edge <= i)
    BY <2>2, <1>1 DEF Edges
  <2> QED
    BY <2>3, <1>1, <1>3 DEF EdgeIsSettled
<1>4. FrontierIsComplete'
  BY <1>1, <1>2, <1>3 DEF FrontierInv, FrontierIsComplete
<1> QED
  BY <1>1, <1>4 DEF FrontierInv, GoalsAreQueued, PendingUntilDone, EmptyRouteIsRight, Pending, Ok

LEMMA ExhaustedFrontierInv ==
    ASSUME CallsAssumption, TypeInv, TreeInv, FrontierInv, Exhausted
    PROVE  FrontierInv'
<1>1. /\ pc = "pop" /\ pc' = "done" /\ DOMAIN queue = {}
      /\ UNCHANGED <<call, known_costs>>
  BY DEF Exhausted, search, Return, BagToSet
<1>2. Initial(call.from_id) \in DOMAIN known_costs
  BY <1>1 DEF TypeInv, Begun
<1>3. ASSUME NEW at \in DOMAIN known_costs
      PROVE  /\ ~ AtDestination(call, at)
             /\ \A e \in Usable(call, at) :
                   Advance(call, at, e.to) \in DOMAIN known_costs
  <2>1. ~ AtDestination(call, at)
    BY <1>1 DEF FrontierInv, GoalsAreQueued
  <2>2. \A i \in DOMAIN GetEdges(call.graph, at.node_id) : EdgeIsSettled(at, i)
    BY <1>1 DEF FrontierInv, FrontierIsComplete, Queued, BagToSet
  <2>3. ASSUME NEW e \in Usable(call, at)
        PROVE  Advance(call, at, e.to) \in DOMAIN known_costs
    BY <1>1, <2>2 DEF Usable, EdgeIsSettled
  <2> QED
    BY <2>1, <2>3
<1>4. EmptyRouteIsRight'
  BY <1>1, <1>2, <1>3 DEF EmptyRouteIsRight
<1> QED
  BY <1>1, <1>4 DEF FrontierInv, FrontierIsComplete, GoalsAreQueued, PendingUntilDone

LEMMA NextFrontierInv ==
    ASSUME CallsAssumption, TypeInv, TreeInv, RouteInv, FrontierInv, [Next]_vars
    PROVE  FrontierInv'
<1> USE DEF PendingUntilDone
<1>1. CASE Reject
  BY <1>1 DEF Reject, Return, InvalidReference, Ok, FrontierInv, FrontierIsComplete,
              GoalsAreQueued, EmptyRouteIsRight
<1>2. CASE Begin
  BY <1>2, BeginFrontierInv
<1>3. CASE Arrive
  <2>1. pc = "pop" /\ pc' = "rebuild" /\ result' = result
    BY <1>3 DEF Arrive, Take
  <2> QED
    BY <2>1 DEF FrontierInv, FrontierIsComplete, GoalsAreQueued, EmptyRouteIsRight, Pending, Ok
<1>4. CASE Skip
  BY <1>4, SkipFrontierInv
<1>5. CASE GiveUp
  <2>1. pc' = "done" /\ result' = StepLimitExceeded
    BY <1>5 DEF GiveUp, Return
  <2> QED
    BY <2>1 DEF FrontierInv, FrontierIsComplete, GoalsAreQueued, EmptyRouteIsRight,
                StepLimitExceeded, Ok
<1>6. CASE Expand
  BY <1>6, ExpandFrontierInv
<1>7. CASE Exhausted
  BY <1>7, ExhaustedFrontierInv
<1>8. CASE Relax
  BY <1>8, RelaxFrontierInv
<1>9. CASE PassOver
  BY <1>9, PassOverFrontierInv
<1>10. CASE Expanded
  BY <1>10, ExpandedFrontierInv
<1>11. CASE StepBack
  BY <1>11 DEF StepBack, FrontierInv, FrontierIsComplete, GoalsAreQueued, EmptyRouteIsRight,
               Pending, Ok
<1>12. CASE Found
  <2>1. pc' = "done" /\ result' = Ok(path) /\ path # << >>
    BY <1>12 DEF Found, Return, RouteInv, RouteSoFar
  <2>2. Ok(path) # Ok(<< >>)
    BY <2>1 DEF Ok
  <2> QED
    BY <2>1, <2>2 DEF FrontierInv, FrontierIsComplete, GoalsAreQueued, EmptyRouteIsRight
<1>13. CASE UNCHANGED vars
  BY <1>13 DEF vars, FrontierInv, FrontierIsComplete, GoalsAreQueued, EmptyRouteIsRight,
               Queued, EdgeIsSettled
<1> QED
  BY <1>1, <1>2, <1>3, <1>4, <1>5, <1>6, <1>7, <1>8, <1>9, <1>10, <1>11, <1>12, <1>13
  DEF Next, Running, Returned

\* The search never loses track of a node it has to expand, and answers with
\* an empty route only when the destination cannot be reached.
THEOREM EmptyRoutesAreRight ==
    ASSUME CallsAssumption, PositiveCosts
    PROVE  Spec => [](FrontierIsComplete /\ EmptyRouteIsRight)
<1> DEFINE Inv == TypeInv /\ TreeInv /\ RouteInv /\ FrontierInv
<1>1. Init => Inv
  BY InitTypeInv, InitTreeInv, InitFrontierInv
  DEF Init, RouteInv, RouteSoFar, RouteIsReal, Pending
<1>2. Inv /\ [Next]_vars => Inv'
  BY NextTypeInv, NextTreeInv, NextRouteInv, NextFrontierInv
<1>3. Inv => FrontierIsComplete /\ EmptyRouteIsRight
  BY DEF FrontierInv
<1> QED
  BY <1>1, <1>2, <1>3, PTL DEF Spec

---------------------------------------------------------------------------
(* The cheapest route *)

ToGo == CostToGo(call)
Origin == Initial(call.from_id)

\* No search node was reached more cheaply than a cheapest route allows.
Floor ==
    pc \in {"pop", "expand", "rebuild"} =>
        \A at \in DOMAIN known_costs :
            at \in DOMAIN ToGo => Origin \in DOMAIN ToGo /\ ToGo[Origin] <= known_costs[at] + ToGo[at]

\* Being at a search node for this cost is being on a cheapest route.
Tight(at, cost) == at \in DOMAIN ToGo /\ cost + ToGo[at] = ToGo[Origin]

\* As long as the search goes on, some item of the queue, or some edge about
\* to be relaxed, is on a cheapest route.
TightQueued == \E q \in DOMAIN queue : Tight(q.at, q.cost)

TightEdge ==
    /\ pc = "expand"
    /\ \E i \in DOMAIN Edges :
          /\ edge <= i
          /\ HasNode(call.graph, Edges[i].to)
          /\ CanAdvance(call, item.at, Edges[i].to)
          /\ Tight(Advance(call, item.at, Edges[i].to), item.cost + Edges[i].cost)

TightIsOpen ==
    pc \in {"pop", "expand"} /\ Origin \in DOMAIN ToGo => TightQueued \/ TightEdge

CheapInv == Floor /\ TightIsOpen /\ ArrivesCheapest

\* What the reference costs satisfy for the call at hand.
LEMMA ToGoFacts ==
    ASSUME CallsAssumption, Admissible, TypeInv, ValidTo(call)
    PROVE  /\ IsCostToGo(call, ToGo)
           /\ \A at \in DOMAIN ToGo :
                 /\ ToGo[at] \in Nat
                 /\ at \in SearchNodes(call)
                 /\ Estimate(call, at.node_id) <= ToGo[at]
                 /\ Estimate(call, at.node_id) \in Nat
           /\ \A at \in SearchNodes(call) :
                 AtDestination(call, at) =>
                     at \in DOMAIN ToGo /\ ToGo[at] = 0 /\ Estimate(call, at.node_id) = 0
<1>1. call \in Calls
  BY DEF TypeInv, TypeOK
<1>2. /\ IsCostToGo(call, ToGo)
      /\ \A at \in DOMAIN ToGo : Estimate(call, at.node_id) <= ToGo[at]
      /\ \A at \in SearchNodes(call) :
            AtDestination(call, at) => Estimate(call, at.node_id) = 0
  BY <1>1 DEF Admissible, ToGo
<1>3. \A at \in DOMAIN ToGo : at \in SearchNodes(call) /\ ToGo[at] \in Nat
  BY <1>2 DEF IsCostToGo
<1>4. \A at \in SearchNodes(call) : Estimate(call, at.node_id) \in Nat
  BY <1>1 DEF CallsAssumption, SearchNodes
<1>5. \A at \in SearchNodes(call) :
        AtDestination(call, at) => at \in DOMAIN ToGo /\ ToGo[at] = 0
  BY <1>2 DEF IsCostToGo
<1> QED
  BY <1>2, <1>3, <1>4, <1>5

LEMMA BeginCheapInv ==
    ASSUME CallsAssumption, Admissible, TypeInv, TreeInv, CheapInv, Begin
    PROVE  CheapInv'
<1>1. /\ pc' = "pop" /\ call' = call /\ ValidTo(call)
      /\ DOMAIN known_costs' = {Origin}
      /\ known_costs'[Origin] = 0
      /\ DOMAIN queue' = {QueueItem(call, Origin, 0)}
  BY BagBasics DEF Begin, Insert, TreeInv, Rooted, Origin
<1>2. QueueItem(call, Origin, 0).at = Origin /\ QueueItem(call, Origin, 0).cost = 0
  BY ItemFields
<1>3. \A at \in DOMAIN ToGo : ToGo[at] \in Nat
  BY <1>1, ToGoFacts
<1>4. ToGo' = ToGo /\ Origin' = Origin
  BY <1>1 DEF ToGo, Origin
<1>5. Floor'
  BY <1>1, <1>3, <1>4 DEF Floor
<1>6. Origin \in DOMAIN ToGo => TightQueued'
  BY <1>1, <1>2, <1>3, <1>4 DEF TightQueued, Tight
<1> QED
  BY <1>1, <1>4, <1>5, <1>6 DEF CheapInv, TightIsOpen, ArrivesCheapest

LEMMA ArriveCheapInv ==
    ASSUME CallsAssumption, Admissible, TypeInv, TreeInv, CheapInv, Arrive
    PROVE  CheapInv'
<1>1. PICK q \in BagToSet(queue) :
        /\ Take(q) /\ Reached(q) /\ pc' = "rebuild"
        /\ call' = call /\ known_costs' = known_costs
  BY DEF Arrive
<1>2. /\ pc = "pop" /\ item' = q /\ q \in DOMAIN queue
      /\ q.at \in DOMAIN known_costs /\ q.cost \in Nat
      /\ q.score = q.cost + Estimate(call, q.at.node_id)
      /\ AtDestination(call, q.at)
      /\ \A r \in DOMAIN queue : q.score <= r.score
  BY <1>1, TakeFacts DEF Reached, AtDestination
<1>3. ValidTo(call) /\ q.at \in SearchNodes(call)
  BY <1>2 DEF TypeInv, TypeOK, Begun
<1>4. q.at \in DOMAIN ToGo /\ ToGo[q.at] = 0 /\ Estimate(call, q.at.node_id) = 0
  BY <1>2, <1>3, ToGoFacts
<1>5. /\ Origin \in DOMAIN ToGo /\ ToGo[Origin] \in Nat
      /\ ToGo[Origin] <= known_costs[q.at] + 0
      /\ known_costs[q.at] \in Nat /\ known_costs[q.at] <= q.cost
  BY <1>2, <1>3, <1>4, ToGoFacts DEF CheapInv, Floor, TreeInv, QueueIsKnown, TypeInv, TypeOK
<1>6. PICK r \in DOMAIN queue : Tight(r.at, r.cost)
  BY <1>2, <1>5 DEF CheapInv, TightIsOpen, TightQueued, TightEdge
<1>7. /\ r.score = r.cost + Estimate(call, r.at.node_id) /\ r.cost \in Nat
      /\ r.at \in DOMAIN ToGo /\ r.cost + ToGo[r.at] = ToGo[Origin]
  BY <1>6, ItemFields DEF TypeInv, TypeOK, Tight
<1>8. q.cost <= ToGo[Origin]
  BY <1>2, <1>3, <1>4, <1>5, <1>7, ToGoFacts
<1>9. q.cost = ToGo[Origin]
  BY <1>2, <1>5, <1>8
<1>10. ArrivesCheapest'
  BY <1>1, <1>2, <1>5, <1>9 DEF ArrivesCheapest, Reachable, ToGo, Origin
<1>11. Floor' /\ TightIsOpen'
  BY <1>1, <1>2 DEF CheapInv, Floor, TightIsOpen, ToGo, Origin
<1> QED
  BY <1>10, <1>11 DEF CheapInv

LEMMA SkipCheapInv ==
    ASSUME CallsAssumption, Admissible, TypeInv, TreeInv, CheapInv, Skip
    PROVE  CheapInv'
<1>1. PICK q \in BagToSet(queue) :
        /\ Take(q) /\ Stale(q) /\ pc' = pc
        /\ call' = call /\ known_costs' = known_costs
  BY DEF Skip
<1>2. /\ pc = "pop" /\ q \in DOMAIN queue
      /\ q.at \in DOMAIN known_costs /\ q.cost \in Nat
      /\ known_costs[q.at] \in Nat /\ known_costs[q.at] < q.cost
      /\ DOMAIN queue \ {q} \subseteq DOMAIN queue'
  BY <1>1, TakeFacts DEF Stale, Worse, TypeInv, TypeOK
<1>3. ValidTo(call)
  BY <1>2 DEF TypeInv, Begun
<1>4. ToGo' = ToGo /\ Origin' = Origin
  BY <1>1 DEF ToGo, Origin
<1>5. ~ Tight(q.at, q.cost)
  BY <1>2, <1>3, ToGoFacts DEF CheapInv, Floor, Tight
<1>6. TightIsOpen'
  BY <1>1, <1>2, <1>4, <1>5 DEF CheapInv, TightIsOpen, TightQueued, TightEdge, Tight
<1>7. Floor' /\ ArrivesCheapest'
  BY <1>1, <1>2, <1>4 DEF CheapInv, Floor, ArrivesCheapest
<1> QED
  BY <1>6, <1>7 DEF CheapInv

LEMMA ExpandCheapInv ==
    ASSUME CallsAssumption, Admissible, TypeInv, TreeInv, CheapInv, Expand
    PROVE  CheapInv'
<1>1. PICK q \in BagToSet(queue) :
        /\ Take(q) /\ ~ Reached(q) /\ pc' = "expand" /\ edge' = 1
        /\ call' = call /\ known_costs' = known_costs
  BY DEF Expand
<1>2. /\ pc = "pop" /\ q \in DOMAIN queue /\ item' = q /\ q.cost \in Nat
      /\ q.at \in SearchNodes(call)
      /\ ~ AtDestination(call, q.at)
      /\ DOMAIN queue \ {q} \subseteq DOMAIN queue'
  BY <1>1, TakeFacts DEF Reached, AtDestination, TypeInv, TypeOK
<1>3. ValidTo(call)
  BY <1>2 DEF TypeInv, Begun
<1>4. ToGo' = ToGo /\ Origin' = Origin
  BY <1>1 DEF ToGo, Origin
<1>5. ASSUME Tight(q.at, q.cost) PROVE TightEdge'
  <2>1. q.at \in DOMAIN ToGo /\ q.cost + ToGo[q.at] = ToGo[Origin]
    BY <1>5 DEF Tight
  <2>2. PICK e \in Usable(call, q.at) :
          /\ Advance(call, q.at, e.to) \in DOMAIN ToGo
          /\ ToGo[q.at] = e.cost + ToGo[Advance(call, q.at, e.to)]
    BY <2>1, <1>2, <1>3, ToGoFacts DEF IsCostToGo
  <2>3. PICK i \in DOMAIN GetEdges(call.graph, q.at.node_id) :
          e = GetEdges(call.graph, q.at.node_id)[i]
    BY DEF Usable
  <2>4. HasNode(call.graph, e.to) /\ CanAdvance(call, q.at, e.to)
    BY <2>2 DEF Usable
  <2>5. 1 <= i /\ e.cost \in Nat
    <3>1. q.at.node_id \in DOMAIN call.graph /\ WellFormed(call.graph)
      BY <1>2 DEF SearchNodes, TypeInv, TypeOK, CallsAssumption
    <3> QED
      BY <3>1, <2>3, EdgeTypes
  <2>6. ToGo[Advance(call, q.at, e.to)] \in Nat
    BY <2>2, <1>3, ToGoFacts
  <2>7. (q.cost + e.cost) + ToGo[Advance(call, q.at, e.to)] = ToGo[Origin]
    BY <2>1, <2>2, <2>5, <2>6, <1>2
  <2>8. i \in DOMAIN Edges' /\ Edges'[i] = e
    BY <1>1, <1>2, <2>3 DEF Edges
  <2> QED
    BY <1>1, <1>2, <1>4, <2>2, <2>4, <2>5, <2>7, <2>8 DEF TightEdge, Tight
<1>6. TightIsOpen'
  <2>1. CASE Tight(q.at, q.cost)
    BY <2>1, <1>5 DEF TightIsOpen
  <2>2. CASE ~ Tight(q.at, q.cost)
    BY <2>2, <1>1, <1>2, <1>4 DEF CheapInv, TightIsOpen, TightQueued, TightEdge, Tight
  <2> QED
    BY <2>1, <2>2
<1>7. Floor' /\ ArrivesCheapest'
  BY <1>1, <1>2, <1>4 DEF CheapInv, Floor, ArrivesCheapest
<1> QED
  BY <1>6, <1>7 DEF CheapInv

LEMMA RelaxCheapInv ==
    ASSUME CallsAssumption, Admissible, TypeInv, TreeInv, CheapInv, Relax
    PROVE  CheapInv'
<1>1. /\ pc = "expand" /\ pc' = "expand" /\ call' = call /\ item' = item
      /\ edge \in DOMAIN Edges /\ edge' = edge + 1 /\ edge \in Nat
      /\ item.at \in DOMAIN known_costs /\ item.cost \in Nat
      /\ known_costs[item.at] = item.cost
      /\ item.at \in SearchNodes(call)
  BY RelaxFacts DEF TypeInv, TypeOK, TreeInv, QueueIsKnown
<1>2. ValidTo(call) /\ ToGo' = ToGo /\ Origin' = Origin /\ Edges' = Edges
  BY <1>1 DEF TypeInv, Begun, ToGo, Origin, Edges
<1>3. Floor'
  <2>1. ASSUME NEW at \in DOMAIN known_costs', at \in DOMAIN ToGo
        PROVE  Origin \in DOMAIN ToGo /\ ToGo[Origin] <= known_costs'[at] + ToGo[at]
    <3>1. CASE at = Neighbor
      <4>1. Edges[edge] \in Usable(call, item.at)
        BY <1>1, RelaxFacts DEF Usable, HasNode, Edges
      <4>2. /\ item.at \in DOMAIN ToGo
            /\ ToGo[item.at] <= Edges[edge].cost + ToGo[Neighbor]
        BY <4>1, <2>1, <3>1, <1>1, <1>2, ToGoFacts DEF IsCostToGo, Neighbor
      <4>3. Origin \in DOMAIN ToGo /\ ToGo[Origin] <= item.cost + ToGo[item.at]
        BY <4>2, <1>1 DEF CheapInv, Floor
      <4>4. /\ ToGo[Origin] \in Nat /\ ToGo[item.at] \in Nat /\ ToGo[Neighbor] \in Nat
            /\ Edges[edge].cost \in Nat
        BY <4>2, <4>3, <2>1, <3>1, <1>2, ToGoFacts, RelaxFacts
      <4>5. known_costs'[at] = item.cost + Edges[edge].cost
        BY <3>1, RelaxFacts DEF NeighborCost
      <4> QED
        BY <4>2, <4>3, <4>4, <4>5, <3>1, <1>1
    <3>2. CASE at # Neighbor
      BY <3>2, <2>1, <1>1, RelaxFacts DEF CheapInv, Floor
    <3> QED
      BY <3>1, <3>2
  <2> QED
    BY <2>1, <1>2 DEF Floor
<1>4. TightQueued => TightQueued'
  BY <1>2, RelaxFacts DEF TightQueued, Tight
<1>5. ASSUME TightEdge PROVE TightQueued' \/ TightEdge'
  <2>1. PICK i \in DOMAIN Edges :
          /\ edge <= i
          /\ HasNode(call.graph, Edges[i].to)
          /\ CanAdvance(call, item.at, Edges[i].to)
          /\ Tight(Advance(call, item.at, Edges[i].to), item.cost + Edges[i].cost)
    BY <1>5 DEF TightEdge
  <2>2. CASE i = edge
    <3>1. Tight(Neighbor, NeighborCost)
      BY <2>1, <2>2 DEF Neighbor, NeighborCost
    <3>2. /\ QueueItem(call, Neighbor, NeighborCost) \in DOMAIN queue'
          /\ QueueItem(call, Neighbor, NeighborCost).at = Neighbor
          /\ QueueItem(call, Neighbor, NeighborCost).cost = NeighborCost
      BY RelaxFacts, ItemFields
    <3> QED
      BY <3>1, <3>2, <1>2 DEF TightQueued, Tight
  <2>3. CASE i # edge
    <3>1. i \in Nat
      <4>1. item.at.node_id \in DOMAIN call.graph /\ WellFormed(call.graph)
        BY RelaxFacts
      <4> QED
        BY <4>1, EdgeTypes DEF Edges
    <3>2. edge' <= i
      BY <3>1, <2>1, <2>3, <1>1
    <3> QED
      BY <3>2, <2>1, <1>1, <1>2 DEF TightEdge, Tight
  <2> QED
    BY <2>2, <2>3
<1>6. TightIsOpen' /\ ArrivesCheapest'
  BY <1>1, <1>2, <1>4, <1>5 DEF CheapInv, TightIsOpen, ArrivesCheapest
<1> QED
  BY <1>3, <1>6 DEF CheapInv

LEMMA PassOverCheapInv ==
    ASSUME CallsAssumption, Admissible, TypeInv, TreeInv, CheapInv, PassOver
    PROVE  CheapInv'
<1>1. /\ pc = "expand" /\ pc' = "expand" /\ edge' = edge + 1 /\ edge \in Nat
      /\ call' = call /\ item' = item /\ queue' = queue /\ known_costs' = known_costs
      /\ edge \in DOMAIN Edges /\ ~ Improves(Edges[edge])
      /\ item.at \in DOMAIN known_costs /\ item.cost \in Nat
  BY DEF PassOver, NextEdge, search, TypeInv, TypeOK
<1>2. ValidTo(call) /\ ToGo' = ToGo /\ Origin' = Origin /\ Edges' = Edges
  BY <1>1 DEF TypeInv, Begun, ToGo, Origin, Edges
<1>3. TightQueued => TightQueued'
  BY <1>1, <1>2 DEF TightQueued, Tight
<1>4. \A i \in DOMAIN Edges : i \in Nat /\ Edges[i].cost \in Nat
  <2>1. item.at.node_id \in DOMAIN call.graph /\ WellFormed(call.graph)
    BY <1>1 DEF TypeInv, TypeOK, SearchNodes, CallsAssumption
  <2> QED
    BY <2>1, EdgeTypes DEF Edges
<1>5. ASSUME TightEdge PROVE TightEdge'
  <2>1. PICK i \in DOMAIN Edges :
          /\ edge <= i
          /\ HasNode(call.graph, Edges[i].to)
          /\ CanAdvance(call, item.at, Edges[i].to)
          /\ Tight(Advance(call, item.at, Edges[i].to), item.cost + Edges[i].cost)
    BY <1>5 DEF TightEdge
  <2>2. i # edge
    <3>1. SUFFICES ASSUME i = edge PROVE FALSE
      OBVIOUS
    <3>2. /\ Neighbor \in DOMAIN known_costs
          /\ NeighborCost > known_costs[Neighbor]
      BY <3>1, <2>1, <1>1 DEF Improves, Worse, Neighbor, NeighborCost
    <3>3. Tight(Neighbor, NeighborCost)
      BY <3>1, <2>1 DEF Neighbor, NeighborCost
    <3>4. /\ ToGo[Neighbor] \in Nat /\ NeighborCost \in Nat
          /\ known_costs[Neighbor] \in Nat
      <4>1. ToGo[Neighbor] \in Nat
        BY <3>3, <1>2, ToGoFacts DEF Tight
      <4>2. NeighborCost \in Nat
        BY <1>1, <1>4 DEF NeighborCost
      <4>3. known_costs[Neighbor] \in Nat
        BY <3>2 DEF TypeInv, TypeOK
      <4> QED
        BY <4>1, <4>2, <4>3
    <3>5. Origin \in DOMAIN ToGo /\ ToGo[Origin] <= known_costs[Neighbor] + ToGo[Neighbor]
      BY <3>2, <3>3, <1>1 DEF CheapInv, Floor, Tight
    <3> QED
      BY <3>2, <3>3, <3>4, <3>5 DEF Tight
  <2>3. edge' <= i
    BY <2>1, <2>2, <1>1, <1>4
  <2> QED
    BY <2>1, <2>3, <1>1, <1>2 DEF TightEdge, Tight
<1>6. Floor' /\ TightIsOpen' /\ ArrivesCheapest'
  BY <1>1, <1>2, <1>3, <1>5 DEF CheapInv, Floor, TightIsOpen, ArrivesCheapest
<1> QED
  BY <1>6 DEF CheapInv

LEMMA ExpandedCheapInv ==
    ASSUME CallsAssumption, TypeInv, CheapInv, Expanded
    PROVE  CheapInv'
<1>1. /\ pc = "expand" /\ pc' = "pop" /\ edge \in Nat \ {0} /\ edge \notin DOMAIN Edges
      /\ call' = call /\ queue' = queue /\ known_costs' = known_costs
  BY DEF Expanded, search, TypeInv, TypeOK
<1>2. ToGo' = ToGo /\ Origin' = Origin
  BY <1>1 DEF ToGo, Origin
<1>3. Edges \in Seq([to : Int \ {0}, cost : Nat])
  BY <1>1 DEF TypeInv, TypeOK, SearchNodes, CallsAssumption, WellFormed, Edges
<1>4. ~ TightEdge
  BY <1>1, <1>3 DEF TightEdge
<1>5. TightQueued => TightQueued'
  BY <1>1, <1>2 DEF TightQueued, Tight
<1> QED
  BY <1>1, <1>2, <1>4, <1>5 DEF CheapInv, Floor, TightIsOpen, ArrivesCheapest

LEMMA NextCheapInv ==
    ASSUME CallsAssumption, Admissible, TypeInv, TreeInv, CheapInv, [Next]_vars
    PROVE  CheapInv'
<1>1. CASE pc' = "done"
  BY <1>1 DEF CheapInv, Floor, TightIsOpen, ArrivesCheapest
<1>2. CASE Begin
  BY <1>2, BeginCheapInv
<1>3. CASE Arrive
  BY <1>3, ArriveCheapInv
<1>4. CASE Skip
  BY <1>4, SkipCheapInv
<1>5. CASE Expand
  BY <1>5, ExpandCheapInv
<1>6. CASE Relax
  BY <1>6, RelaxCheapInv
<1>7. CASE PassOver
  BY <1>7, PassOverCheapInv
<1>8. CASE Expanded
  BY <1>8, ExpandedCheapInv
<1>9. CASE StepBack
  BY <1>9 DEF StepBack, search, CheapInv, Floor, TightIsOpen, ArrivesCheapest, ToGo, Origin
<1>10. CASE UNCHANGED vars
  BY <1>10 DEF vars, CheapInv, Floor, TightIsOpen, ArrivesCheapest, ToGo, Origin,
               TightQueued, TightEdge, Tight, Edges
<1>11. CASE Reject \/ GiveUp \/ Exhausted \/ Found
  BY <1>11, <1>1 DEF Reject, GiveUp, Exhausted, Found, Return
<1> QED
  BY <1>2, <1>3, <1>4, <1>5, <1>6, <1>7, <1>8, <1>9, <1>10, <1>11
  DEF Next, Running, Returned

\* With an estimate that never exceeds what is left, the search arrives at the
\* destination with the cost of a cheapest route.
THEOREM ArrivalsAreCheapest ==
    ASSUME CallsAssumption, PositiveCosts, Admissible
    PROVE  Spec => []ArrivesCheapest
<1> DEFINE Inv == TypeInv /\ TreeInv /\ CheapInv
<1>1. Init => Inv
  BY InitTypeInv, InitTreeInv DEF Init, CheapInv, Floor, TightIsOpen, ArrivesCheapest
<1>2. Inv /\ [Next]_vars => Inv'
  BY NextTypeInv, NextTreeInv, NextCheapInv
<1>3. Inv => ArrivesCheapest
  BY DEF CheapInv
<1> QED
  BY <1>1, <1>2, <1>3, PTL DEF Spec

---------------------------------------------------------------------------
(* The cost of a route *)

\* Every set of naturals that is not empty has a least element.
LEMMA LeastNatural ==
    ASSUME NEW T, T \subseteq Nat, T # {}
    PROVE  \E i \in T : \A j \in T : i <= j
<1> DEFINE R == OpToRel(<, Nat)
<1>1. PICK i \in T : \A j \in T : ~ (<<j, i>> \in R)
  <2>1. IsWellFoundedOn(R, Nat)
    BY NatLessThanWellFounded
  <2> HIDE DEF R
  <2> QED  BY <2>1, WFMin
<1>2. \A j \in T : ~ (j < i)
  BY <1>1 DEF OpToRel
<1>3. \A j \in T : i <= j
  BY <1>2
<1> QED  BY <1>3

\* The function RouteCost is made of: f[k] is what the last k nodes of a
\* route cost.
Along(g, route, f) ==
    f = [k \in 0 .. Len(route) |->
            IF k <= 1 THEN 0
            ELSE GetEdge(g, route[Len(route) - k + 1], route[Len(route) - k + 2]) + f[k - 1]]

\* There is at most one such function.
LEMMA AlongIsUnique ==
    ASSUME NEW g, NEW route, Len(route) \in Nat,
           NEW f, Along(g, route, f), NEW h, Along(g, route, h)
    PROVE  f[Len(route)] = h[Len(route)]
<1> DEFINE n == Len(route)
           Differ == {k \in 0 .. n : f[k] # h[k]}
           edge_of(k) == GetEdge(g, route[n - k + 1], route[n - k + 2])
<1> SUFFICES ASSUME Differ # {}
             PROVE  FALSE
  OBVIOUS
<1>1. \A k \in 0 .. n : /\ f[k] = IF k <= 1 THEN 0 ELSE edge_of(k) + f[k - 1]
                        /\ h[k] = IF k <= 1 THEN 0 ELSE edge_of(k) + h[k - 1]
  BY DEF Along
<1> HIDE DEF edge_of
<1>2. PICK k \in Differ : \A j \in Differ : k <= j
  <2>1. Differ \subseteq Nat
    OBVIOUS
  <2> HIDE DEF Differ
  <2> QED  BY <2>1, LeastNatural
<1>3. k \in 0 .. n /\ f[k] # h[k] /\ ~ k <= 1
  BY <1>1
<1>4. k - 1 \in 0 .. n /\ k - 1 \notin Differ
  BY <1>2, <1>3
<1>5. f[k - 1] = h[k - 1]
  BY <1>4
<1> QED  BY <1>1, <1>3, <1>5

LEMMA RouteCostIs ==
    ASSUME NEW g, NEW route, Len(route) \in Nat, NEW f, Along(g, route, f)
    PROVE  RouteCost(g, route) = f[Len(route)]
<1> DEFINE sums == CHOOSE h : Along(g, route, h)
<1>1. Along(g, route, sums)
  OBVIOUS
<1>2. RouteCost(g, route) = sums[Len(route)]
  BY DEF RouteCost, Along
<1> HIDE DEF sums
<1> QED  BY <1>1, <1>2, AlongIsUnique

\* A route that starts one edge earlier costs that edge more.
LEMMA RouteCostGrows ==
    ASSUME NEW g, NEW S, NEW route \in Seq(S), Len(route) > 0, NEW x \in S,
           NEW f, Along(g, route, f)
    PROVE  /\ \E h : Along(g, <<x>> \o route, h)
           /\ RouteCost(g, <<x>> \o route) = GetEdge(g, x, route[1]) + RouteCost(g, route)
<1> DEFINE n == Len(route)
           longer == <<x>> \o route
           edge_of(k) == GetEdge(g, longer[Len(longer) - k + 1], longer[Len(longer) - k + 2])
           h == [k \in 0 .. n + 1 |-> IF k = n + 1 THEN GetEdge(g, x, route[1]) + f[n] ELSE f[k]]
<1>1. /\ n \in Nat \ {0} /\ Len(longer) = n + 1
      /\ longer[1] = x
      /\ \A i \in 1 .. n : longer[i + 1] = route[i]
  BY SeqCons
<1>2. \A k \in 0 .. n :
        f[k] = IF k <= 1 THEN 0 ELSE GetEdge(g, route[n - k + 1], route[n - k + 2]) + f[k - 1]
  BY DEF Along
<1> HIDE DEF longer
<1>3. ASSUME NEW k \in 0 .. n + 1
      PROVE  h[k] = IF k <= 1 THEN 0 ELSE edge_of(k) + h[k - 1]
  <2>1. CASE k = n + 1
    <3>1. edge_of(k) = GetEdge(g, x, route[1])
      <4>1. Len(longer) - k + 1 = 1 /\ Len(longer) - k + 2 = 1 + 1 /\ 1 \in 1 .. n
        BY <2>1, <1>1
      <4>2. longer[1] = x /\ longer[1 + 1] = route[1]
        BY <4>1, <1>1
      <4> QED  BY <4>1, <4>2
    <3>2. h[k] = GetEdge(g, x, route[1]) + f[n] /\ h[k - 1] = f[n] /\ ~ k <= 1
      <4>1. n + 1 \in 0 .. n + 1 /\ n \in 0 .. n + 1 /\ n # n + 1
        BY <1>1
      <4>2. h[n + 1] = GetEdge(g, x, route[1]) + f[n]
        BY <4>1
      <4>3. h[n] = f[n]
        BY <4>1
      <4>4. k - 1 = n /\ ~ k <= 1
        BY <2>1, <1>1
      <4> HIDE DEF h, n
      <4> QED  BY <4>2, <4>3, <4>4, <2>1
    <3> HIDE DEF h, edge_of
    <3> QED  BY <3>1, <3>2
  <2>2. CASE k # n + 1 /\ ~ k <= 1
    <3>1. k \in 0 .. n /\ k - 1 \in 0 .. n /\ n - k + 1 \in 1 .. n /\ n - k + 2 \in 1 .. n
      BY <2>2, <1>1
    <3>2. longer[(n - k + 1) + 1] = route[n - k + 1] /\ longer[(n - k + 2) + 1] = route[n - k + 2]
      BY <3>1, <1>1
    <3>3. n + 1 - k + 1 = (n - k + 1) + 1 /\ n + 1 - k + 2 = (n - k + 2) + 1
      BY <3>1, <1>1
    <3>4. h[k] = f[k] /\ h[k - 1] = f[k - 1]
      <4>1. k \in 0 .. n + 1 /\ k - 1 \in 0 .. n + 1 /\ k # n + 1 /\ k - 1 # n + 1
        BY <3>1, <1>1
      <4> QED  BY <4>1
    <3>5. edge_of(k) = GetEdge(g, route[n - k + 1], route[n - k + 2])
      BY <3>2, <3>3, <1>1
    <3> HIDE DEF h, edge_of
    <3> QED  BY <1>2, <2>2, <3>1, <3>4, <3>5
  <2>3. CASE k # n + 1 /\ k <= 1
    <3>1. k \in 0 .. n
      BY <2>3, <1>1
    <3>2. h[k] = f[k]
      BY <2>3
    <3> HIDE DEF h
    <3> QED  BY <1>2, <2>3, <3>1, <3>2
  <2> QED  BY <2>1, <2>2, <2>3
<1>4. Along(g, longer, h)
  <2>1. h = [k \in 0 .. Len(longer) |-> h[k]]
    BY <1>1
  <2> HIDE DEF h
  <2>2. h = [k \in 0 .. Len(longer) |-> IF k <= 1 THEN 0 ELSE edge_of(k) + h[k - 1]]
    <3> HIDE DEF edge_of
    <3> QED  BY <1>1, <1>3, <2>1
  <2> QED  BY <2>2 DEF Along
<1>5. h[n + 1] = GetEdge(g, x, route[1]) + f[n]
  BY <1>1
<1> HIDE DEF h
<1>6. RouteCost(g, longer) = h[n + 1]
  BY <1>1, <1>4, RouteCostIs
<1>7. RouteCost(g, route) = f[n]
  BY RouteCostIs
<1> QED  BY <1>4, <1>5, <1>6, <1>7 DEF longer

\* A route of one node costs nothing.
LEMMA RouteCostStarts ==
    ASSUME NEW g, NEW route, Len(route) = 1
    PROVE  (\E f : Along(g, route, f)) /\ RouteCost(g, route) = 0
<1> DEFINE f == [k \in 0 .. Len(route) |-> 0]
<1>1. Along(g, route, f)
  BY DEF Along
<1>2. f[Len(route)] = 0 /\ Len(route) \in Nat
  OBVIOUS
<1> HIDE DEF f
<1> QED  BY <1>1, <1>2, RouteCostIs

---------------------------------------------------------------------------
(* The cost of the path that is rebuilt *)

\* What get_edge answers for an edge of a node.
LEMMA EdgeCostIs ==
    ASSUME NEW g, WellFormed(g), NEW id \in DOMAIN g, NEW i \in DOMAIN GetEdges(g, id)
    PROVE  /\ GetEdge(g, id, GetEdges(g, id)[i].to) = GetEdges(g, id)[i].cost
           /\ GetEdges(g, id)[i].cost \in Nat
<1> DEFINE to == GetEdges(g, id)[i].to
           first == FirstEdgeTo(GetEdges(g, id), to)
<1>1. i \in EdgesTo(GetEdges(g, id), to)
  BY DEF EdgesTo
<1>2. \A j \in EdgesTo(GetEdges(g, id), to) : j = i
  BY DEF EdgesTo, WellFormed
<1>3. i <= i
  BY EdgeTypes
<1>4. first = i
  BY <1>1, <1>2, <1>3 DEF FirstEdgeTo
<1> QED  BY <1>4, EdgeTypes DEF GetEdge

\* A link costs no more than the difference between what is known of its ends:
\* its origin may have become cheaper since.
LinksAreTight ==
    \A at \in DOMAIN came_from :
        known_costs[came_from[at]]
            + GetEdge(call.graph, came_from[at].node_id, at.node_id) <= known_costs[at]

\* The path rebuilt so far costs at least what it costs to go from where it
\* starts, and at most what the item that arrived has left over for it.
PathIsCheapest ==
    pc = "rebuild" =>
        /\ \E f : Along(call.graph, path, f)
        /\ RouteCost(call.graph, path) \in Nat
        /\ known_costs[last] + RouteCost(call.graph, path) <= item.cost
        /\ last \in DOMAIN ToGo
        /\ ToGo[last] <= RouteCost(call.graph, path)

CostInv == LinksAreTight /\ PathIsCheapest

LEMMA RelaxCostInv ==
    ASSUME CallsAssumption, PositiveCosts, TypeInv, TreeInv, CostInv, Relax
    PROVE  CostInv'
<1> DEFINE g == call.graph
           cost_of(at, b) == GetEdge(g, b.node_id, at.node_id)
<1>1. /\ pc' = "expand" /\ call' = call
      /\ item.at \in DOMAIN known_costs
      /\ known_costs[item.at] = item.cost /\ item.cost \in Nat
      /\ edge \in DOMAIN GetEdges(g, item.at.node_id)
      /\ item.at.node_id \in DOMAIN g /\ WellFormed(g)
      /\ Neighbor.node_id = Edges[edge].to
      /\ NeighborCost = item.cost + Edges[edge].cost
  BY RelaxFacts DEF TreeInv, QueueIsKnown, Edges, NeighborCost
<1>2. cost_of(Neighbor, item.at) = Edges[edge].cost
  BY <1>1, EdgeCostIs DEF Edges
<1>3. Edges[edge].cost > 0
  BY <1>1 DEF PositiveCosts, Edges, TypeInv, TypeOK
<1>4. Neighbor # item.at
  BY <1>1, <1>3, RelaxFacts
<1>5. ASSUME NEW at \in DOMAIN came_from'
      PROVE  known_costs'[came_from'[at]] + cost_of(at, came_from'[at]) <= known_costs'[at]
  <2>1. CASE at = Neighbor
    BY <2>1, <1>1, <1>2, <1>4, RelaxFacts
  <2>2. CASE at # Neighbor
    <3> DEFINE b == came_from[at]
    <3>1. at \in DOMAIN came_from /\ came_from'[at] = b
      BY <2>2, <1>5, RelaxFacts
    <3>2. at \in DOMAIN known_costs /\ b \in DOMAIN known_costs
      BY <3>1 DEF TypeInv, TypeOK
    <3>3. known_costs[b] + cost_of(at, b) <= known_costs[at]
      BY <3>1 DEF CostInv, LinksAreTight
    <3>4. cost_of(at, b) \in Nat
      <4>1. HasEdge(g, b.node_id, at.node_id) /\ b.node_id \in DOMAIN g
        BY <3>1, <3>2 DEF TreeInv, LinksAreEdges, TypeInv, TypeOK, SearchNodes
      <4>2. PICK i \in DOMAIN GetEdges(g, b.node_id) : GetEdges(g, b.node_id)[i].to = at.node_id
        BY <4>1 DEF HasEdge, EdgesTo
      <4> QED  BY <4>1, <4>2, <1>1, EdgeCostIs
    <3>5. /\ known_costs'[at] = known_costs[at] /\ known_costs[at] \in Nat
          /\ known_costs[b] \in Nat /\ known_costs'[b] <= known_costs[b]
          /\ known_costs'[b] \in Nat
      <4>1. known_costs'[b] \in Nat
        BY <3>2, RelaxFacts
      <4> QED  BY <2>2, <3>2, <4>1, RelaxFacts
    <3> HIDE DEF cost_of, b
    <3> QED  BY <3>1, <3>3, <3>4, <3>5
  <2> QED  BY <2>1, <2>2
<1> QED  BY <1>1, <1>5 DEF CostInv, LinksAreTight, PathIsCheapest

LEMMA ArriveCostInv ==
    ASSUME CallsAssumption, Admissible, TypeInv, TreeInv, CostInv, Arrive
    PROVE  CostInv'
<1>1. PICK q \in BagToSet(queue) :
        /\ Take(q) /\ Reached(q)
        /\ last' = q.at /\ path' = <<q.at.node_id>>
        /\ UNCHANGED <<call, came_from, known_costs>>
  BY DEF Arrive
<1>2. /\ pc = "pop" /\ item' = q /\ q \in DOMAIN queue
      /\ q.at \in DOMAIN known_costs /\ q.cost \in Nat
      /\ AtDestination(call, q.at)
  BY <1>1, TakeFacts DEF Reached, AtDestination
<1>3. known_costs[q.at] \in Nat /\ known_costs[q.at] <= q.cost
  BY <1>2 DEF TypeInv, TypeOK, TreeInv, QueueIsKnown
<1>4. q.at \in DOMAIN ToGo /\ ToGo[q.at] = 0
  <2>1. ValidTo(call) /\ q.at \in SearchNodes(call)
    BY <1>2 DEF TypeInv, TypeOK, Begun
  <2> QED  BY <2>1, <1>2, ToGoFacts
<1>5. (\E f : Along(call.graph, path', f)) /\ RouteCost(call.graph, path') = 0
  <2>1. Len(path') = 1
    BY <1>1
  <2> QED  BY <2>1, RouteCostStarts
<1>6. ToGo' = ToGo
  BY <1>1 DEF ToGo
<1> QED  BY <1>1, <1>2, <1>3, <1>4, <1>5, <1>6 DEF CostInv, LinksAreTight, PathIsCheapest

LEMMA StepBackCostInv ==
    ASSUME CallsAssumption, Admissible, TypeInv, TreeInv, RouteInv, CostInv, StepBack
    PROVE  CostInv'
<1> DEFINE g == call.graph
           b == came_from[last]
           cost == GetEdge(g, b.node_id, last.node_id)
<1>1. /\ pc = "rebuild" /\ last \in DOMAIN came_from
      /\ last' = b /\ path' = <<b.node_id>> \o path
      /\ UNCHANGED <<call, came_from, known_costs, item>>
  BY DEF StepBack, search
<1>2. /\ b \in DOMAIN known_costs /\ b \in SearchNodes(call) /\ b.node_id \in DOMAIN g
      /\ last \in DOMAIN known_costs /\ last \in SearchNodes(call) /\ last.node_id \in DOMAIN g
      /\ known_costs[b] \in Nat /\ known_costs[last] \in Nat
      /\ item.cost \in Nat /\ ValidTo(call) /\ WellFormed(g)
      /\ path \in Seq(DOMAIN g)
  BY <1>1, SMTT(30) DEF TypeInv, TypeOK, Begun, SearchNodes, CallsAssumption
<1>3. Len(path) > 0 /\ path[1] = last.node_id
  BY <1>1 DEF RouteInv, RouteSoFar
<1>4. /\ HasEdge(g, b.node_id, last.node_id)
      /\ CanAdvance(call, b, last.node_id)
      /\ last = Advance(call, b, last.node_id)
  BY <1>1 DEF TreeInv, LinksAreEdges
<1>5. PICK i \in DOMAIN GetEdges(g, b.node_id) : GetEdges(g, b.node_id)[i].to = last.node_id
  BY <1>4 DEF HasEdge, EdgesTo
<1>6. cost \in Nat /\ GetEdges(g, b.node_id)[i].cost = cost
  BY <1>2, <1>5, EdgeCostIs
<1>7. known_costs[b] + cost <= known_costs[last]
  BY <1>1 DEF CostInv, LinksAreTight
<1>8. /\ \E f : Along(g, path, f)
      /\ RouteCost(g, path) \in Nat
      /\ known_costs[last] + RouteCost(g, path) <= item.cost
      /\ last \in DOMAIN ToGo /\ ToGo[last] <= RouteCost(g, path)
  BY <1>1 DEF CostInv, PathIsCheapest
<1>9. b \in DOMAIN ToGo /\ ToGo[b] <= cost + ToGo[last]
  <2>1. GetEdges(g, b.node_id)[i] \in Usable(call, b)
    BY <1>2, <1>4, <1>5 DEF Usable, HasNode
  <2>2. IsCostToGo(call, ToGo)
    BY <1>2, ToGoFacts
  <2> QED  BY <1>2, <1>4, <1>5, <1>6, <1>8, <2>1, <2>2 DEF IsCostToGo
<1>10. /\ \E f : Along(g, path', f)
       /\ RouteCost(g, path') = cost + RouteCost(g, path)
  <2>1. PICK f : Along(g, path, f)
    BY <1>8
  <2> QED  BY <1>1, <1>2, <1>3, <2>1, RouteCostGrows
<1>11. ToGo' = ToGo
  BY <1>1 DEF ToGo
<1>12. ToGo[b] \in Nat /\ ToGo[last] \in Nat
  BY <1>2, <1>8, <1>9, ToGoFacts
<1> HIDE DEF b, cost
<1>13. /\ RouteCost(g, path') \in Nat
       /\ known_costs[b] + RouteCost(g, path') <= item.cost
       /\ ToGo[b] <= RouteCost(g, path')
  BY <1>2, <1>6, <1>7, <1>8, <1>9, <1>10, <1>12
<1> QED
  BY <1>1, <1>9, <1>10, <1>11, <1>13 DEF CostInv, LinksAreTight, PathIsCheapest

LEMMA NextCostInv ==
    ASSUME CallsAssumption, PositiveCosts, Admissible,
           TypeInv, TreeInv, RouteInv, CostInv, [Next]_vars
    PROVE  CostInv'
<1> USE DEF CostInv, LinksAreTight, PathIsCheapest
<1>1. CASE Reject \/ Exhausted \/ Found
  BY <1>1 DEF Reject, Exhausted, Found, search, Return
<1>2. CASE Begin
  BY <1>2 DEF Begin, TreeInv, Rooted
<1>3. CASE Arrive
  BY <1>3, ArriveCostInv
<1>4. CASE Skip \/ GiveUp \/ Expand
  BY <1>4 DEF Skip, GiveUp, Expand, Take, Return
<1>5. CASE Relax
  BY <1>5, RelaxCostInv
<1>6. CASE PassOver \/ Expanded
  BY <1>6 DEF PassOver, NextEdge, Expanded, search
<1>7. CASE StepBack
  BY <1>7, StepBackCostInv
<1>8. CASE UNCHANGED vars
  BY <1>8 DEF vars, ToGo
<1> QED
  BY <1>1, <1>2, <1>3, <1>4, <1>5, <1>6, <1>7, <1>8 DEF Next, Running, Returned

---------------------------------------------------------------------------
(* The contract *)

\* A search that starts at its destination arrives with the first item.
StartIsGoal ==
    pc \in {"pop", "expand"} /\ AtDestination(call, Origin) =>
        pc = "pop" /\ DOMAIN queue = {QueueItem(call, Origin, 0)}

LEMMA NextStartIsGoal ==
    ASSUME TypeInv, StartIsGoal, [Next]_vars
    PROVE  StartIsGoal'
<1>1. CASE Begin
  BY <1>1, BagBasics DEF Begin, StartIsGoal, Origin
<1>2. CASE Skip \/ GiveUp \/ Expand
  <2>1. PICK q \in BagToSet(queue) : Take(q) /\ ~ Reached(q) /\ call' = call
    BY <1>2 DEF Skip, GiveUp, Expand
  <2>2. pc = "pop" /\ q \in DOMAIN queue /\ ~ AtDestination(call, q.at)
    BY <2>1, TakeFacts DEF Reached, AtDestination
  <2>3. ~ AtDestination(call, Origin)
    BY <2>2, ItemFields DEF StartIsGoal
  <2> QED  BY <2>1, <2>3 DEF StartIsGoal, Origin
<1>3. CASE Reject \/ Exhausted \/ Found
  BY <1>3 DEF Reject, Exhausted, Found, Return, StartIsGoal
<1>4. CASE Arrive \/ StepBack
  BY <1>4 DEF Arrive, StepBack, Take, StartIsGoal
<1>5. CASE Relax \/ PassOver \/ Expanded
  BY <1>5 DEF Relax, PassOver, NextEdge, Expanded, StartIsGoal, Origin
<1>6. CASE UNCHANGED vars
  BY <1>6 DEF vars, StartIsGoal, Origin
<1> QED
  BY <1>1, <1>2, <1>3, <1>4, <1>5, <1>6 DEF Next, Running, Returned

\* The contract speaks of the same routes and costs.
LEMMA SameReference ==
    ASSUME NEW c, NEW route
    PROVE  /\ Contract!CostToGo(c) = CostToGo(c)
           /\ Contract!IsRoute(c, route) = IsRoute(c, route)
           /\ Contract!RouteCost(c.graph, route) = RouteCost(c.graph, route)
           /\ Contract!ValidTo(c) = ValidTo(c)
           /\ Contract!ValidFrom(c) = ValidFrom(c)
           /\ Contract!Initial(c.from_id) = Initial(c.from_id)
           /\ Contract!AtDestination(c, Initial(c.from_id)) = AtDestination(c, Initial(c.from_id))
<1> USE DEF GetEdges, Contract!GetEdges, HasNode, Contract!HasNode, OsmId, Contract!OsmId
<1>1. Contract!CostToGo(c) = CostToGo(c)
  BY DEF CostToGo, Contract!CostToGo, Usable, Contract!Usable, Advance, Contract!Advance,
         CanAdvance, Contract!CanAdvance, SearchNodes, Contract!SearchNodes,
         AtDestination, Contract!AtDestination, Min, Contract!Min,
         Cardinality, Contract!Cardinality
<1>2. Contract!IsRoute(c, route) = IsRoute(c, route)
  BY DEF IsRoute, Contract!IsRoute, HasEdge, Contract!HasEdge, EdgesTo, Contract!EdgesTo
<1>3. Contract!RouteCost(c.graph, route) = RouteCost(c.graph, route)
  BY DEF RouteCost, Contract!RouteCost, GetEdge, Contract!GetEdge,
         FirstEdgeTo, Contract!FirstEdgeTo, EdgesTo, Contract!EdgesTo
<1>4. Contract!ValidTo(c) = ValidTo(c) /\ Contract!ValidFrom(c) = ValidFrom(c)
  BY DEF ValidTo, Contract!ValidTo, ValidFrom, Contract!ValidFrom, Canonical, Contract!Canonical
<1>5. /\ Contract!Initial(c.from_id) = Initial(c.from_id)
      /\ Contract!AtDestination(c, Initial(c.from_id)) = AtDestination(c, Initial(c.from_id))
  BY DEF Initial, Contract!Initial, AtDestination, Contract!AtDestination
<1> QED  BY <1>1, <1>2, <1>3, <1>4, <1>5

SearchInv ==
    TypeInv /\ TreeInv /\ RouteInv /\ FrontierInv /\ CheapInv /\ CostInv /\ StartIsGoal

LEMMA InitSearchInv == ASSUME CallsAssumption, Init PROVE SearchInv
BY InitTypeInv, InitTreeInv, InitFrontierInv
DEF Init, SearchInv, RouteInv, RouteSoFar, RouteIsReal, Pending, CheapInv, Floor, TightIsOpen,
    ArrivesCheapest, CostInv, LinksAreTight, PathIsCheapest, StartIsGoal

LEMMA NextSearchInv ==
    ASSUME CallsAssumption, PositiveCosts, Admissible, SearchInv, [Next]_vars
    PROVE  SearchInv'
BY NextTypeInv, NextTreeInv, NextRouteInv, NextFrontierInv, NextCheapInv, NextCostInv,
   NextStartIsGoal DEF SearchInv

\* What is returned is a cheapest route: the path that is rebuilt costs no
\* more than the arrival had left over for it, and no route costs less.
LEMMA FoundMeetsContract ==
    ASSUME CallsAssumption, Admissible, SearchInv, Found PROVE Contract!Route
<1>1. /\ pc = "rebuild" /\ last \notin DOMAIN came_from
      /\ result = Pending /\ result' = Ok(path) /\ call' = call
  BY DEF Found, Return, SearchInv, FrontierInv, PendingUntilDone
<1>2. /\ ValidTo(call) /\ ValidFrom(call)
      /\ last = Origin /\ known_costs[last] = 0
      /\ item.cost \in Nat /\ call \in Calls
  BY <1>1 DEF SearchInv, TypeInv, TypeOK, Begun, TreeInv, Rooted, Origin
<1>3. IsRoute(call, path)
  BY <1>1, <1>2 DEF SearchInv, RouteInv, RouteSoFar, IsRoute, Initial, Origin, TypeInv, TypeOK
<1>4. /\ Reachable(call) /\ item.cost = ToGo[Origin]
      /\ RouteCost(call.graph, path) \in Nat
      /\ 0 + RouteCost(call.graph, path) <= item.cost
      /\ ToGo[Origin] <= RouteCost(call.graph, path)
  BY <1>1, <1>2 DEF SearchInv, CheapInv, ArrivesCheapest, CostInv, PathIsCheapest, ToGo, Origin
<1>5. RouteCost(call.graph, path) = ToGo[Origin]
  BY <1>2, <1>4
<1>6. result'.outcome = "ok" /\ result'.route = path
  BY <1>1 DEF Ok
<1>7. Contract!Answerable
  BY <1>1, <1>2, SameReference DEF Contract!Answerable, Contract!Pending, Pending
<1>8. Contract!Reachable(call) /\ Contract!IsRoute(call, path)
  BY <1>3, <1>4, SameReference DEF Contract!Reachable, Reachable
<1>9. Contract!RouteCost(call.graph, path) = Contract!CostToGo(call)[Contract!Initial(call.from_id)]
  BY <1>5, SameReference DEF ToGo, Origin
<1> QED
  BY <1>1, <1>6, <1>7, <1>8, <1>9 DEF Contract!Route, Contract!Ok, Ok

\* An empty route is returned only if the destination is out of reach.
LEMMA ExhaustedMeetsContract ==
    ASSUME CallsAssumption, Admissible, SearchInv, Exhausted PROVE Contract!NoRoute
<1>1. /\ pc = "pop" /\ DOMAIN queue = {}
      /\ result = Pending /\ result' = Ok(<< >>) /\ call' = call
  BY DEF Exhausted, Return, BagToSet, SearchInv, FrontierInv, PendingUntilDone
<1>2. ValidTo(call) /\ ValidFrom(call)
  BY <1>1 DEF SearchInv, TypeInv, Begun
<1>3. ~ Reachable(call)
  BY <1>1 DEF SearchInv, CheapInv, TightIsOpen, TightQueued, TightEdge, Reachable, ToGo, Origin
<1> QED
  BY <1>1, <1>2, <1>3, SameReference
  DEF Contract!NoRoute, Contract!Answerable, Contract!Pending, Pending, Contract!Ok, Ok,
      Contract!Reachable, Reachable

\* The search does not give up at its start.
LEMMA GiveUpMeetsContract ==
    ASSUME SearchInv, GiveUp PROVE Contract!GiveUp
<1>1. PICK q \in BagToSet(queue) : Take(q) /\ ~ Reached(q)
  BY DEF GiveUp
<1>2. pc = "pop" /\ q \in DOMAIN queue /\ ~ AtDestination(call, q.at)
  BY <1>1, TakeFacts DEF SearchInv, Reached, AtDestination
<1>3. ~ AtDestination(call, Origin)
  BY <1>2, ItemFields DEF SearchInv, StartIsGoal
<1>4. result = Pending /\ result' = StepLimitExceeded /\ call' = call
  BY <1>2 DEF GiveUp, Return, SearchInv, FrontierInv, PendingUntilDone
<1>5. ValidTo(call) /\ ValidFrom(call)
  BY <1>2 DEF SearchInv, TypeInv, Begun
<1> QED
  BY <1>3, <1>4, <1>5, SameReference
  DEF Contract!GiveUp, Contract!Answerable, Contract!Pending, Pending, Origin,
      Contract!StepLimitExceeded, StepLimitExceeded

LEMMA RejectMeetsContract ==
    ASSUME SearchInv, Reject PROVE Contract!Reject
<1>1. /\ result = Pending /\ call' = call
      /\ ~ ValidTo(call) \/ ~ ValidFrom(call)
      /\ result' = InvalidReference(IF ValidTo(call) THEN call.from_id ELSE call.to_id)
  BY DEF Reject, Return, SearchInv, FrontierInv, PendingUntilDone
<1> QED
  BY <1>1, SameReference
  DEF Contract!Reject, Contract!Pending, Pending, Contract!InvalidReference, InvalidReference

\* find_route meets its contract: the answer is the right error, a cheapest
\* route, an empty route if there is none, or giving up.  That an answer comes
\* at all is for the runs to show.
THEOREM SearchMeetsContract ==
    ASSUME CallsAssumption, PositiveCosts, Admissible
    PROVE  Spec => Contract!Safety /\ (Contract!Answered => MeetsContract)
<1>1. Init => SearchInv /\ Contract!Init
  BY InitSearchInv DEF Init, Contract!Init, Pending, Contract!Pending
<1>2. SearchInv /\ [Next]_vars => SearchInv'
  BY NextSearchInv
<1>3. SearchInv /\ [Next]_vars => [Contract!Next]_(Contract!vars)
  <2> SUFFICES ASSUME SearchInv, [Next]_vars
               PROVE  Contract!Next \/ UNCHANGED Contract!vars
    OBVIOUS
  <2>1. CASE Reject
    BY <2>1, RejectMeetsContract DEF Contract!Next
  <2>2. CASE GiveUp
    BY <2>2, GiveUpMeetsContract DEF Contract!Next
  <2>3. CASE Exhausted
    BY <2>3, ExhaustedMeetsContract DEF Contract!Next
  <2>4. CASE Found
    BY <2>4, FoundMeetsContract DEF Contract!Next
  <2>5. CASE Begin \/ Arrive \/ Skip \/ Expand \/ Relax \/ PassOver \/ Expanded \/ StepBack
    BY <2>5 DEF Begin, Arrive, Skip, Expand, Relax, PassOver, NextEdge, Expanded, StepBack,
                Contract!vars
  <2>6. CASE UNCHANGED vars
    BY <2>6 DEF vars, Contract!vars
  <2> QED
    BY <2>1, <2>2, <2>3, <2>4, <2>5, <2>6 DEF Next, Running, Returned
<1> QED
  BY <1>1, <1>2, <1>3, PTL DEF Spec, MeetsContract, Contract!Spec, Contract!Safety

---------------------------------------------------------------------------
(* The step limit *)

\* The search nodes that links lead back to, and the one being expanded: each
\* of them was expanded, which took a step.
Sources == {came_from[at] : at \in DOMAIN came_from}
Spent == Sources \cup {at \in {item.at} : pc = "expand"}

\* The sources no cheaper than where the path starts so far.
Behind == {at \in Sources : known_costs[at] >= known_costs[last]}

LimitInv ==
    /\ IsFiniteSet(Sources)
    /\ Cardinality(Spent) <= steps
    /\ pc # "done" => steps <= call.step_limit
    /\ pc = "rebuild" => Len(path) - 1 <= Cardinality(Behind)
    /\ StepLimitBoundsPath

\* With finitely many sources all these sets are finite.
LEMMA SourcesAreFinite ==
    ASSUME IsFiniteSet(Sources)
    PROVE  /\ IsFiniteSet(Spent)
           /\ IsFiniteSet(Behind)
           /\ Cardinality(Sources) \in Nat /\ Cardinality(Behind) \in Nat
           /\ Cardinality(Spent) \in Nat
           /\ Cardinality(Behind) <= Cardinality(Sources)
           /\ Cardinality(Sources) <= Cardinality(Spent)
<1>1. IsFiniteSet({at \in {item.at} : pc = "expand"})
  BY FS_Singleton, FS_Subset
<1>2. IsFiniteSet(Spent)
  BY <1>1, FS_Union DEF Spent
<1>3. Sources \subseteq Spent /\ Behind \subseteq Sources
  BY DEF Spent, Behind
<1> QED  BY <1>2, <1>3, FS_Subset, FS_CardinalityType

LEMMA ExpandLimitInv == ASSUME TypeInv, LimitInv, Expand PROVE LimitInv'
<1>1. PICK q \in BagToSet(queue) :
        /\ Take(q) /\ pc' = "expand"
        /\ steps' = steps + 1 /\ steps' <= call.step_limit
        /\ UNCHANGED <<call, came_from, path>>
  BY DEF Expand, rebuilding
<1>2. pc = "pop" /\ item' = q /\ Sources' = Sources
  BY <1>1, TakeFacts DEF Sources
<1>3. Spent = Sources /\ Spent' = Sources \cup {q.at}
  BY <1>1, <1>2 DEF Spent
<1>4. /\ Cardinality(Sources) \in Nat
      /\ \/ Cardinality(Sources \cup {q.at}) = Cardinality(Sources)
         \/ Cardinality(Sources \cup {q.at}) = Cardinality(Sources) + 1
  <2>1. IsFiniteSet(Sources)
    BY DEF LimitInv
  <2> HIDE DEF Sources
  <2> QED  BY <2>1, FS_AddElement, FS_CardinalityType
<1>5. Cardinality(Sources) <= steps
  BY <1>3 DEF LimitInv
<1>6. Cardinality(Spent') <= steps'
  BY <1>1, <1>3, <1>4, <1>5 DEF TypeInv, TypeOK
<1> QED  BY <1>1, <1>2, <1>6 DEF LimitInv, StepLimitBoundsPath

LEMMA RelaxLimitInv ==
    ASSUME CallsAssumption, TypeInv, LimitInv, Relax PROVE LimitInv'
<1>1. /\ pc = "expand" /\ pc' = "expand" /\ item' = item /\ call' = call /\ path' = path
      /\ steps' = steps
      /\ DOMAIN came_from' = DOMAIN came_from \cup {Neighbor}
      /\ came_from'[Neighbor] = item.at
      /\ \A at \in DOMAIN came_from : at # Neighbor => came_from'[at] = came_from[at]
  BY RelaxFacts DEF Relax, NextEdge
<1>2. Sources' \subseteq Sources \cup {item.at}
  BY <1>1 DEF Sources
<1>3. Spent' \subseteq Spent /\ Sources' \subseteq Spent
  BY <1>1, <1>2 DEF Spent
<1>4. IsFiniteSet(Spent)
  BY SourcesAreFinite DEF LimitInv
<1>5. /\ IsFiniteSet(Sources')
      /\ Cardinality(Spent') <= Cardinality(Spent)
      /\ Cardinality(Spent) \in Nat /\ Cardinality(Spent') \in Nat
  BY <1>3, <1>4, FS_Subset, FS_CardinalityType
<1> QED  BY <1>1, <1>5 DEF LimitInv, StepLimitBoundsPath, TypeInv, TypeOK

LEMMA StepBackLimitInv ==
    ASSUME CallsAssumption, TypeInv, TreeInv, LimitInv, StepBack PROVE LimitInv'
<1> DEFINE b == came_from[last]
<1>1. /\ pc = "rebuild" /\ pc' = "rebuild" /\ last \in DOMAIN came_from
      /\ last' = b /\ path' = <<b.node_id>> \o path
      /\ UNCHANGED <<call, came_from, known_costs, steps>>
  BY DEF StepBack, search
<1>2. Sources' = Sources /\ Spent' = Spent
  BY <1>1 DEF Sources, Spent
<1>3. /\ b \in Sources /\ b \in DOMAIN known_costs /\ Sources \subseteq DOMAIN known_costs
      /\ last \in DOMAIN known_costs
      /\ \A at \in DOMAIN known_costs : known_costs[at] \in Nat
      /\ known_costs[b] < known_costs[last]
      /\ b.node_id \in DOMAIN call.graph /\ path \in Seq(DOMAIN call.graph)
      /\ call.step_limit \in Nat /\ steps \in Nat
  BY <1>1 DEF Sources, TypeInv, TypeOK, TreeInv, LinksDescend, SearchNodes, CallsAssumption
<1>4. Len(path') = Len(path) + 1 /\ Len(path) \in Nat
  BY <1>1, <1>3, SeqCons
<1>5. Behind \cup {b} \subseteq Behind' /\ b \notin Behind
  BY <1>1, <1>2, <1>3 DEF Behind
<1>6. IsFiniteSet(Behind) /\ IsFiniteSet(Behind') /\ IsFiniteSet(Behind \cup {b})
  <2>1. Behind' \subseteq Sources
    BY <1>2 DEF Behind
  <2> QED  BY <2>1, SourcesAreFinite, FS_Subset, FS_AddElement DEF LimitInv
<1>7. Cardinality(Behind \cup {b}) = Cardinality(Behind) + 1
  BY <1>5, <1>6, FS_AddElement
<1>8. /\ Cardinality(Behind \cup {b}) <= Cardinality(Behind')
      /\ Cardinality(Behind) \in Nat /\ Cardinality(Behind') \in Nat
  BY <1>5, <1>6, FS_Subset, FS_CardinalityType
<1>9. Len(path') - 1 <= Cardinality(Behind')
  BY <1>1, <1>4, <1>7, <1>8 DEF LimitInv
<1>10. /\ Cardinality(Behind') <= Cardinality(Spent)
       /\ Cardinality(Spent) <= steps /\ steps <= call.step_limit
       /\ Cardinality(Spent) \in Nat
  <2>1. Behind' \subseteq Sources
    BY <1>2 DEF Behind
  <2>2. Cardinality(Behind') <= Cardinality(Sources)
    BY <2>1, FS_Subset DEF LimitInv
  <2>3. /\ Cardinality(Sources) \in Nat /\ Cardinality(Spent) \in Nat
        /\ Cardinality(Sources) <= Cardinality(Spent)
    BY SourcesAreFinite DEF LimitInv
  <2> QED  BY <2>2, <2>3, <1>1, <1>8 DEF LimitInv
<1>11. Len(path') <= call.step_limit + 1
  BY <1>3, <1>4, <1>8, <1>9, <1>10
<1> QED
  BY <1>1, <1>2, <1>9, <1>10, <1>11 DEF LimitInv, StepLimitBoundsPath

LEMMA NextLimitInv ==
    ASSUME CallsAssumption, TypeInv, TreeInv, LimitInv, [Next]_vars PROVE LimitInv'
<1> USE DEF LimitInv, StepLimitBoundsPath, Sources, Spent
<1>1. CASE Reject \/ Exhausted
  BY <1>1 DEF Reject, Exhausted, Return, search, rebuilding
<1>2. CASE Begin
  BY <1>2 DEF Begin, rebuilding
<1>3. CASE Arrive
  <2>1. /\ pc = "pop" /\ pc' = "rebuild" /\ Len(path') = 1
        /\ UNCHANGED <<call, came_from, steps>>
    BY <1>3 DEF Arrive, Take
  <2>2. call.step_limit \in Nat
    BY DEF CallsAssumption, TypeInv, TypeOK
  <2>3. Sources' = Sources /\ Spent' = Spent
    BY <2>1
  <2>4. Cardinality(Behind') \in Nat
    <3>1. Behind' \subseteq Sources
      BY <2>3 DEF Behind
    <3> QED  BY <3>1, FS_Subset, FS_CardinalityType
  <2> HIDE DEF Sources, Spent
  <2> QED  BY <2>1, <2>2, <2>3, <2>4
<1>4. CASE Skip
  BY <1>4 DEF Skip, Take, rebuilding
<1>5. CASE GiveUp
  <2>1. /\ pc = "pop" /\ pc' = "done" /\ steps' = steps + 1
        /\ UNCHANGED <<call, came_from, path>>
    BY <1>5 DEF GiveUp, Take, Return, rebuilding
  <2>2. Sources' = Sources /\ Spent' = Spent
    BY <2>1
  <2>3. Cardinality(Spent) \in Nat /\ steps \in Nat
    BY SourcesAreFinite DEF TypeInv, TypeOK
  <2> HIDE DEF Sources, Spent
  <2> QED  BY <2>1, <2>2, <2>3
<1>6. CASE Expand
  BY <1>6, ExpandLimitInv
<1>7. CASE Relax
  BY <1>7, RelaxLimitInv
<1>8. CASE PassOver
  BY <1>8 DEF PassOver, NextEdge, search, rebuilding
<1>9. CASE Expanded
  <2>1. /\ pc = "expand" /\ pc' = "pop" /\ UNCHANGED <<call, came_from, steps, path>>
    BY <1>9 DEF Expanded, search, rebuilding
  <2>2. Sources' = Sources /\ Spent' = Sources
    BY <2>1
  <2>3. /\ Cardinality(Spent) \in Nat /\ Cardinality(Sources) \in Nat
        /\ Cardinality(Sources) <= Cardinality(Spent) /\ steps \in Nat
    BY SourcesAreFinite DEF TypeInv, TypeOK
  <2> HIDE DEF Sources, Spent
  <2> QED  BY <2>1, <2>2, <2>3
<1>10. CASE StepBack
  BY <1>10, StepBackLimitInv
<1>11. CASE Found
  BY <1>11 DEF Found, Return, search, rebuilding
<1>12. CASE UNCHANGED vars
  BY <1>12 DEF vars, Behind
<1> QED
  BY <1>1, <1>2, <1>3, <1>4, <1>5, <1>6, <1>7, <1>8, <1>9, <1>10, <1>11, <1>12
  DEF Next, Running, Returned

\* If no edge is free, the path is no longer than the step limit allows, and
\* reconstruct_path comes to an end; with free edges neither holds.
THEOREM StepLimitBoundsThePath ==
    ASSUME CallsAssumption, PositiveCosts PROVE Spec => []StepLimitBoundsPath
<1> DEFINE Inv == TypeInv /\ TreeInv /\ LimitInv
<1>1. Init => Inv
  <2> SUFFICES ASSUME Init PROVE LimitInv
    BY InitTypeInv, InitTreeInv
  <2>1. Sources = {} /\ Spent = {}
    BY DEF Init, Sources, Spent
  <2>2. IsFiniteSet({}) /\ Cardinality({}) = 0
    BY FS_EmptySet
  <2>3. call.step_limit \in Nat
    BY DEF Init, CallsAssumption
  <2> QED  BY <2>1, <2>2, <2>3 DEF Init, LimitInv, StepLimitBoundsPath
<1>2. Inv /\ [Next]_vars => Inv'
  BY NextTypeInv, NextTreeInv, NextLimitInv
<1>3. Inv => StepLimitBoundsPath
  BY DEF LimitInv
<1> QED
  BY <1>1, <1>2, <1>3, PTL DEF Spec

=============================================================================
