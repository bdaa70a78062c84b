------------------------------ MODULE MCAStar ------------------------------
(***************************************************************************)
(* Small graphs for AStar.  Positions lie on a line, one degree apart.     *)
(***************************************************************************)
EXTENDS AStar

MCDistance == [p \in {<<a, b>> : a, b \in 0 .. 3} |->
                  IF p[1] < p[2] THEN p[2] - p[1] ELSE p[1] - p[2]]

NodeAt(id, pos) == [id |-> id, osm_id |-> id, pos |-> pos]
Clone(id, osm_id, pos) == [id |-> id, osm_id |-> osm_id, pos |-> pos]
Link(from, to, cost) == [from |-> from, to |-> to, cost |-> cost]
Call(g, from, to, limit) ==
    [graph |-> g, from_id |-> from, to_id |-> to, step_limit |-> limit, no_turn_around |-> FALSE]

\* Every selection of edges, in a fixed order of the ends, with a cost each
\* from a set; 0 stands for no edge.
Selections(ends, Costs(_)) ==
    {SelectSeq([i \in DOMAIN ends |-> Link(ends[i][1], ends[i][2], f[i])],
               LAMBDA e : e.cost # 0) :
        f \in {h \in [DOMAIN ends -> 0 .. 4] : \A i \in DOMAIN ends : h[i] \in Costs(ends[i])}}

\* All graphs on three nodes, an edge costing its length or one more.
Line == <<NodeAt(1, 0), NodeAt(2, 1), NodeAt(3, 2)>>
LineEnds == <<<<1, 2>>, <<1, 3>>, <<2, 1>>, <<2, 3>>, <<3, 1>>, <<3, 2>>>>
LineCosts(p) ==
    LET d == MCDistance[p[1] - 1, p[2] - 1] IN {0, d, d + 1}
LineCalls ==
    {Call(FromIter(Line, es), 1, 3, 9) : es \in Selections(LineEnds, LineCosts)}

\* A detour off the line, a clone of node 2, and a node beyond the
\* destination: the shapes turn restrictions leave behind.
Cloned == <<NodeAt(1, 0), NodeAt(2, 1), Clone(13, 2, 1), NodeAt(3, 1), NodeAt(4, 2)>>
ClonedEnds == <<<<1, 2>>, <<1, 13>>, <<2, 1>>, <<2, 3>>, <<3, 2>>, <<3, 13>>, <<13, 3>>, <<13, 4>>>>
ClonedCosts(p) == IF p \in {<<2, 3>>, <<3, 2>>, <<3, 13>>, <<13, 3>>} THEN {0, 2} ELSE {0, 1}
ClonedCalls ==
    {Call(FromIter(Cloned, es), 1, 4, 20) : es \in Selections(ClonedEnds, ClonedCosts)}

\* Two ways of equal cost, and a dangling edge that must be passed over.
Diamond ==
    DeleteNode(FromIter(
        <<NodeAt(1, 0), NodeAt(2, 1), NodeAt(3, 1), NodeAt(4, 2), NodeAt(5, 3), NodeAt(6, 1)>>,
        <<Link(1, 6, 1), Link(1, 2, 1), Link(1, 3, 1), Link(2, 4, 1), Link(3, 4, 1),
          Link(4, 5, 1), Link(5, 4, 1), Link(4, 2, 1)>>), 6)

\* The errors, the destination as the origin, and every small step limit.
EdgeCalls ==
    {Call(Diamond, from, to, limit) : from \in {1, 4, 6}, to \in {4, 5, 6}, limit \in 0 .. 6}
        \cup {Call(FromIter(Cloned, << >>), 13, to, 3) : to \in {2, 13}}

\* Node 3 is queued by way of 13 and again, cheaper, by way of 2; its first
\* item surfaces while the last edge is still to be walked.
Superseded ==
    FromIter(<<NodeAt(1, 0), NodeAt(2, 1), Clone(13, 2, 1), NodeAt(3, 2), NodeAt(4, 3)>>,
             <<Link(1, 2, 2), Link(1, 13, 1), Link(13, 3, 3), Link(2, 3, 1), Link(3, 4, 3)>>)
SupersededCalls == {Call(Superseded, 1, 4, limit) : limit \in 3 .. 6}

\* A way round, shorter than the way out.
RingCalls ==
    {Call(FromIter(<<NodeAt(1, 0), NodeAt(2, 1), NodeAt(3, 2), NodeAt(4, 3)>>,
                   <<Link(1, 2, 1), Link(2, 3, 1), Link(3, 1, 2), Link(3, 4, 9)>>), 1, 4, 20)}

PlainCalls == LineCalls \cup ClonedCalls \cup EdgeCalls \cup SupersededCalls \cup RingCalls

\* Each of them in both search spaces.
MCCalls == PlainCalls \cup {[c EXCEPT !.no_turn_around = TRUE] : c \in PlainCalls}

\* The calls meet what the model and the proofs assume of them.
ASSUME MCCallsAreWellFormed == CallsAssumption /\ PositiveCosts /\ Admissible

=============================================================================
