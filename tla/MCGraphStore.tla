---------------------------- MODULE MCGraphStore ----------------------------
(***************************************************************************)
(* All graphs of three ids and few edges.  Ids, positions and costs are    *)
(* model values that the operations do not tell apart.                     *)
(***************************************************************************)
EXTENDS GraphStore, TLC

CONSTANT MaxEdges

EdgeCount == FoldFunctionOnSet(LAMBDA n, sum : Len(n.edges) + sum, 0, graph, DOMAIN graph)

\* Graphs beyond are not explored further.
FewEdges == EdgeCount <= MaxEdges

\* What was called last has no influence on what follows.
View == graph

Symmetry == Permutations(Ids) \cup Permutations(Positions) \cup Permutations(Costs)

=============================================================================
