-------------------------------- MODULE Rdp --------------------------------
(***************************************************************************)
(* Line simplification of src/src/rdp.rs: the Ramer-Douglas-Peucker        *)
(* algorithm with a stack of segments in place of recursion, writing the   *)
(* points it keeps over the line while segments are still to be read.      *)
(*                                                                         *)
(* Elements are points, or ids that stand for points.  Coordinates are     *)
(* integers and distances exact fractions <<n, d>>; the source rounds.     *)
(* Indices are from 1: write_idx is the number of points written.          *)
(***************************************************************************)
EXTENDS Integers, Sequences

CONSTANTS
    Elems,       \* the elements of lines
    PositionOf,  \* the position <<x, y>> of each
    Lines,       \* the lines to simplify
    EpsilonsSq   \* the squares of tolerances

ASSUME LinesAssumption == Lines \subseteq Seq(Elems)

VARIABLES
    line,        \* the line as it was given
    epsilon_sq,
    pc,          \* "called", "running" or "done"
    points,      \* the buffer
    stack,
    write_idx,
    kept         \* the indices in line of what was written, in order

vars == <<line, epsilon_sq, pc, points, stack, write_idx, kept>>

---------------------------------------------------------------------------
(* Geometry *)

Sub(p, q) == <<p[1] - q[1], p[2] - q[2]>>
Dot(p, q) == p[1] * q[1] + p[2] * q[2]
Mag(p) == Dot(p, p)

\* The square of the distance of pt to the segment from start to end, which
\* is a point if the line is a ring.  Where it projects onto the inside of
\* the segment, that is (|to_pt|^2 |line|^2 - dot^2) / |line|^2.
SegmentDist(pt, start, end) ==
    LET to_pt == Sub(pt, start)
        segment == Sub(end, start)
        dot == Dot(to_pt, segment)
        line_len == Mag(segment)
    IN  IF line_len = 0 \/ dot <= 0 THEN <<Mag(to_pt), 1>>
        ELSE IF dot >= line_len THEN <<Mag(Sub(pt, end)), 1>>
        ELSE <<Mag(to_pt) * line_len - dot * dot, line_len>>

Greater(a, b) == a[1] * b[2] > b[1] * a[2]

\* Of a sequence of elements, how far the one at i is from the segment s.
DistAt(elems, i, s) ==
    SegmentDist(PositionOf[elems[i]], PositionOf[elems[s.start]], PositionOf[elems[s.end]])

Exceeds(elems, i, s) == Greater(DistAt(elems, i, s), <<epsilon_sq, 1>>)

Inside(s) == s.start + 1 .. s.end - 1

\* The first of those that protrude most.
Furthest(elems, i, s) ==
    /\ i \in Inside(s)
    /\ \A j \in Inside(s) :
          /\ ~ Greater(DistAt(elems, j, s), DistAt(elems, i, s))
          /\ j < i => Greater(DistAt(elems, i, s), DistAt(elems, j, s))

\* simplify_flat: numbers by two, an odd one at the end is ignored.
Pairs(flat) == [i \in 1 .. Len(flat) \div 2 |-> <<flat[2 * i - 1], flat[2 * i]>>]

---------------------------------------------------------------------------
Init ==
    /\ line \in Lines
    /\ epsilon_sq \in EpsilonsSq
    /\ pc = "called"
    /\ points = line
    /\ stack = << >>
    /\ write_idx = 0
    /\ kept = << >>

\* Two points are the simplest line already.
TooShort ==
    /\ pc = "called"
    /\ Len(points) <= 2
    /\ pc' = "done"
    /\ write_idx' = Len(points)
    /\ kept' = [i \in 1 .. Len(points) |-> i]
    /\ UNCHANGED <<line, epsilon_sq, points, stack>>

Start ==
    /\ pc = "called"
    /\ Len(points) > 2
    /\ pc' = "running"
    /\ stack' = <<[start |-> 1, end |-> Len(points)]>>
    /\ UNCHANGED <<line, epsilon_sq, points, write_idx, kept>>

Looping == pc = "running" /\ stack # << >>
Top == stack[Len(stack)]
Popped == SubSeq(stack, 1, Len(stack) - 1)

\* Variant: the segments are pushed from left to right.
SplitLeftFirst ==
    /\ Looping
    /\ \E furthest \in Inside(Top) :
          /\ Furthest(points, furthest, Top)
          /\ Exceeds(points, furthest, Top)
          /\ stack' = Popped \o <<[start |-> Top.start, end |-> furthest],
                                  [start |-> furthest, end |-> Top.end]>>
    /\ UNCHANGED <<line, epsilon_sq, pc, points, write_idx, kept>>

\* Variant: any point that protrudes is as good as the furthest.
SplitAnywhere ==
    /\ Looping
    /\ \E furthest \in Inside(Top) :
          /\ Exceeds(points, furthest, Top)
          /\ stack' = Popped \o <<[start |-> furthest, end |-> Top.end],
                                  [start |-> Top.start, end |-> furthest]>>
    /\ UNCHANGED <<line, epsilon_sq, pc, points, write_idx, kept>>

Split ==
    /\ Looping
    /\ \E furthest \in Inside(Top) :
          /\ Furthest(points, furthest, Top)
          /\ Exceeds(points, furthest, Top)
          /\ stack' = Popped \o <<[start |-> furthest, end |-> Top.end],
                                  [start |-> Top.start, end |-> furthest]>>
    /\ UNCHANGED <<line, epsilon_sq, pc, points, write_idx, kept>>

\* Variant: the segment is looked at, and stays on the stack.
KeepUnpopped ==
    /\ Looping
    /\ \A i \in Inside(Top) : ~ Exceeds(points, i, Top)
    /\ write_idx < Len(points)
    /\ points' = [points EXCEPT ![write_idx + 1] = points[Top.start]]
    /\ write_idx' = write_idx + 1
    /\ kept' = Append(kept, Top.start)
    /\ UNCHANGED <<line, epsilon_sq, pc, stack>>

\* Variant: the last point inside is not looked at.
KeepButLast ==
    /\ Looping
    /\ \A i \in Inside(Top) \ {Top.end - 1} : ~ Exceeds(points, i, Top)
    /\ write_idx < Len(points)
    /\ points' = [points EXCEPT ![write_idx + 1] = points[Top.start]]
    /\ write_idx' = write_idx + 1
    /\ kept' = Append(kept, Top.start)
    /\ stack' = Popped
    /\ UNCHANGED <<line, epsilon_sq, pc>>

\* Nothing protrudes enough: only the start of the segment is written.
Keep ==
    /\ Looping
    /\ \A i \in Inside(Top) : ~ Exceeds(points, i, Top)
    /\ write_idx < Len(points)
    /\ points' = [points EXCEPT ![write_idx + 1] = points[Top.start]]
    /\ write_idx' = write_idx + 1
    /\ kept' = Append(kept, Top.start)
    /\ stack' = Popped
    /\ UNCHANGED <<line, epsilon_sq, pc>>

Finish ==
    /\ pc = "running"
    /\ stack = << >>
    /\ write_idx < Len(points)
    /\ points' = [points EXCEPT ![write_idx + 1] = points[Len(points)]]
    /\ write_idx' = write_idx + 1
    /\ kept' = Append(kept, Len(points))
    /\ pc' = "done"
    /\ UNCHANGED <<line, epsilon_sq, stack>>

Next == TooShort \/ Start \/ Split \/ Keep \/ Finish

\* One thread runs from the call to the return.
Spec == Init /\ [][Next]_vars /\ WF_vars(Next)

---------------------------------------------------------------------------
(* Properties *)

\* Every variable stays within its type.
TypeOK ==
    /\ line \in Lines
    /\ epsilon_sq \in EpsilonsSq
    /\ pc \in {"called", "running", "done"}
    /\ points \in Seq(Elems)
    /\ Len(points) = Len(line)
    /\ stack \in Seq([start : 1 .. Len(line), end : 1 .. Len(line)])
    /\ write_idx \in 0 .. Len(line)
    /\ kept \in Seq(1 .. Len(line))

\* "all segments (in `stack`) need to be processed left-to-right": what is
\* still to be read was not yet written over, however the line was split.
ReadsPrecedeWrites ==
    pc = "running" =>
        /\ \A k \in DOMAIN stack : \A i \in stack[k].start .. stack[k].end : points[i] = line[i]
        /\ points[Len(line)] = line[Len(line)]

\* The result is some of the points in their order, the ends among them,
\* although it was written over what it was taken from.
ResultIsSubline ==
    pc = "done" =>
        /\ Len(kept) = write_idx
        /\ \A i \in 1 .. write_idx : points[i] = line[kept[i]]
        /\ \A i, j \in 1 .. write_idx : i < j => kept[i] < kept[j]
        /\ line # << >> => write_idx > 0 /\ kept[1] = 1 /\ kept[write_idx] = Len(line)

\* Each point that was dropped is within epsilon of the part of the result
\* that replaces it.
DroppedAreNear ==
    pc = "done" =>
        \A k \in 1 .. write_idx - 1 :
            LET s == [start |-> kept[k], end |-> kept[k + 1]] IN
            \A i \in Inside(s) : ~ Exceeds(line, i, s)

\* The loop ends.
Terminates == <>(pc = "done")

=============================================================================
