------------------------------- MODULE KdTree -------------------------------
(***************************************************************************)
(* The k-d tree of src/src/kd.rs: copies of the canonical nodes of a graph *)
(* taken when it is built, split in two by latitude and by longitude in    *)
(* turn; and the search that skips a half when the axis between them is no *)
(* nearer than the best node so far.                                       *)
(*                                                                         *)
(* The search is right in a plane only, as the source says, so positions   *)
(* are points of a plane here, and distances are squared, which keeps      *)
(* their order.  A tree that may be missing is a sequence of at most one.  *)
(***************************************************************************)
EXTENDS Graph

Dist(p, q) == (p[1] - q[1]) * (p[1] - q[1]) + (p[2] - q[2]) * (p[2] - q[2])

\* The coordinate that divides: latitude first.
Along(lon_divides, p) == IF lon_divides THEN p[2] ELSE p[1]

NodeOf(g, id) == [id |-> id, pos |-> Pos(g, id)]

CanonicalIds(g) == {id \in DOMAIN g : Canonical(g, id)}

---------------------------------------------------------------------------
(* Building *)

\* slice::sort_by is stable.
SortedAlong(nodes, lon_divides) ==
    LET At(i) == Along(lon_divides, nodes[i].pos)
        Before(i, j) == At(i) < At(j) \/ (At(i) = At(j) /\ i < j)
        order == SetToSortSeq(DOMAIN nodes, Before)
    IN  [i \in DOMAIN nodes |-> nodes[order[i]]]

RECURSIVE BuildImpl(_, _)
BuildImpl(nodes, lon_divides) ==
    IF nodes = << >> THEN << >>
    ELSE LET sorted == SortedAlong(nodes, lon_divides)
             median == Len(nodes) \div 2 + 1
         IN  <<[pivot |-> sorted[median],
                left |-> BuildImpl(SubSeq(sorted, 1, median - 1), ~ lon_divides),
                right |-> BuildImpl(SubSeq(sorted, median + 1, Len(nodes)), ~ lon_divides)]>>

BuildFromGraph(g) ==
    LET ids == SetToSortSeq(CanonicalIds(g), <)
    IN  BuildImpl([i \in DOMAIN ids |-> NodeOf(g, ids[i])], FALSE)

---------------------------------------------------------------------------
(* Searching *)

Nearer(a, b) == IF b.dist < a.dist THEN b ELSE a

\* Variant: the first half is searched, never the second.
RECURSIVE FindInHalf(_, _, _)
FindInHalf(tree, p, lon_divides) ==
    LET pivot == [node |-> tree.pivot, dist |-> Dist(p, tree.pivot.pos)]
        first_left == Along(lon_divides, p) < Along(lon_divides, tree.pivot.pos)
        first == IF first_left THEN tree.left ELSE tree.right
    IN  IF first = << >> THEN pivot
        ELSE Nearer(pivot, FindInHalf(first[1], p, ~ lon_divides))

RECURSIVE FindNearestImpl(_, _, _)
FindNearestImpl(tree, p, lon_divides) ==
    LET pivot == [node |-> tree.pivot, dist |-> Dist(p, tree.pivot.pos)]
        first_left == Along(lon_divides, p) < Along(lon_divides, tree.pivot.pos)
        first == IF first_left THEN tree.left ELSE tree.right
        second == IF first_left THEN tree.right ELSE tree.left
        Best(branch, best) ==
            IF branch = << >> THEN best
            ELSE Nearer(best, FindNearestImpl(branch[1], p, ~ lon_divides))
        best == Best(first, pivot)
        axis == IF lon_divides THEN <<p[1], tree.pivot.pos[2]>> ELSE <<tree.pivot.pos[1], p[2]>>
    IN  IF Dist(p, axis) < best.dist THEN Best(second, best) ELSE best

FindNearest(tree, p) == FindNearestImpl(tree, p, FALSE).node

---------------------------------------------------------------------------
\* Graph::find_nearest_node, which looks at every node: of those that are
\* nearest the one of the least id.  It has no answer if no node is canonical.
FindNearestNode(g, p) ==
    CHOOSE id \in CanonicalIds(g) :
        \A other \in CanonicalIds(g) :
            \/ Dist(p, Pos(g, id)) < Dist(p, Pos(g, other))
            \/ Dist(p, Pos(g, id)) = Dist(p, Pos(g, other)) /\ id <= other

=============================================================================
