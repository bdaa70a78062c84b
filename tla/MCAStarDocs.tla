---------------------------- MODULE MCAStarDocs ----------------------------
(***************************************************************************)
(* A graph on which AStar departs from its documentation.                  *)
(***************************************************************************)
EXTENDS AStar

MCDistance == [p \in {<<a, b>> : a, b \in 0 .. 1} |->
                  IF p[1] < p[2] THEN p[2] - p[1] ELSE p[1] - p[2]]

NodeAt(id, pos) == [id |-> id, osm_id |-> id, pos |-> pos]
Link(from, to, cost) == [from |-> from, to |-> to, cost |-> cost]

\* A way 1 - 2 - 3 in both directions whose first two nodes share a
\* position, as GraphBuilder stores it with penalty 1: cost = distance.
FreeCalls ==
    {[graph |-> FromIter(<<NodeAt(1, 0), NodeAt(2, 0), NodeAt(3, 1)>>,
                         <<Link(1, 2, 0), Link(2, 1, 0), Link(2, 3, 1), Link(3, 2, 1)>>),
      from_id |-> 1, to_id |-> 3, step_limit |-> 5, no_turn_around |-> FALSE]}

=============================================================================
