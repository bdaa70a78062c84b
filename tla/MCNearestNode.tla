--------------------------- MODULE MCNearestNode ---------------------------
(***************************************************************************)
(* Five nodes, after a clone of the first of them, anywhere on a few       *)
(* places that share latitudes and longitudes, and searches from a grid.   *)
(***************************************************************************)
EXTENDS NearestNode

MCCloneOf == [id \in Ids |-> IF id = 1 THEN 2 ELSE id]

MCPositions == {<<0, 0>>, <<0, 2>>, <<1, 2>>, <<2, 0>>, <<3, 3>>}

MCQueries == (0 .. 3) \X (0 .. 3)

=============================================================================
