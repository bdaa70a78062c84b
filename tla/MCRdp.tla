------------------------------- MODULE MCRdp -------------------------------
(***************************************************************************)
(* Routes of a small graph, one node of which is gone; all short ones, and *)
(* a longer one with rings, shaped after the test of simplify_flat.  The   *)
(* result is compared with that of the textbook's recursion.               *)
(***************************************************************************)
EXTENDS Rdp, Graph

\* The test's line, in tenths.
TestLine == Pairs(<<0, 0, 5, 5, 10, 10, 7, 13, 2, 20, 3, 21, 6, 30, -1, 40, 7>>)

Node(id, pos) == [osm_id |-> id, pos |-> pos, edges |-> << >>]

RouteGraph ==
    [id \in {1, 2, 3, 4, 11, 12, 13, 14, 15, 16, 17, 18} |->
        Node(id, IF id > 10 THEN TestLine[id - 10]
                 ELSE << <<0, 1>>, <<2, 2>>, <<4, 0>>, <<1, 3>> >>[id])]

MCElems == DOMAIN RouteGraph \cup {9}
MCPositionOf == [id \in MCElems |-> RoutePosition(RouteGraph, id)]

MCLines ==
    UNION {[1 .. n -> {1, 2, 3, 9}] : n \in 0 .. 5}
        \cup {[i \in 1 .. 8 |-> 10 + i],
              <<11, 12, 13, 14, 15, 11, 12, 13, 14, 15>>,
              <<1, 2, 3, 1, 4, 9, 1>>}

---------------------------------------------------------------------------
\* The indices in line that the recursion keeps between two, in order.
Between[from, to \in 1 .. Len(line)] ==
    LET s == [start |-> from, end |-> to]
        splits == {i \in Inside(s) : Furthest(line, i, s) /\ Exceeds(line, i, s)}
    IN  IF splits = {} THEN << >>
        ELSE LET i == CHOOSE i \in splits : TRUE
             IN  Between[from, i] \o <<i>> \o Between[i, to]

\* The stack does what the recursion of the Ramer-Douglas-Peucker algorithm
\* does, and the result of the test is the one it expects.
IsRamerDouglasPeucker ==
    pc = "done" =>
        /\ Len(line) > 2 => kept = <<1>> \o Between[1, Len(line)] \o <<Len(line)>>
        /\ line = [i \in 1 .. 8 |-> 10 + i] /\ epsilon_sq = 1 => kept = <<1, 3, 5, 7, 8>>

=============================================================================
