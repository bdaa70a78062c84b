--------------------------- MODULE MCBinaryStore ---------------------------
(***************************************************************************)
(* Small graphs to write and to read into, with clones, dangling edges,    *)
(* and nodes and edges in common; and files that are none.                 *)
(***************************************************************************)
EXTENDS BinaryStore, Functions

Node(osm_id, lat, edges) == [osm_id |-> osm_id, pos |-> <<lat, 0>>, edges |-> edges]
To(id, cost) == [to |-> id, cost |-> cost]

\* Node 3 may be missing while edges lead to it; 101 is a clone of 2.
Nodes ==
    [id \in {1, 2, 3, 101} |->
        CASE id = 1 -> Node(1, 1, <<To(3, 5), To(2, 1)>>)
          [] id = 2 -> Node(2, 2, <<To(101, 2), To(1, 1), To(3, 3)>>)
          [] id = 3 -> Node(3, 3, <<To(2, 4)>>)
          [] id = 101 -> Node(2, 2, <<To(1, 1)>>)]

MCGraphs == {Restrict(Nodes, ids) : ids \in SUBSET DOMAIN Nodes}

\* Other positions and costs of the same ids, and edges that wait for a node.
MCTargets ==
    {EmptyGraph,
     (1 :> Node(1, 9, <<To(2, 9)>>)),
     (2 :> Node(2, 8, <<To(1, 8), To(3, 8)>>) @@ 3 :> Node(3, 8, << >>)),
     (3 :> Node(3, 7, <<To(101, 7), To(2, 7)>>) @@ 4 :> Node(4, 7, <<To(3, 7)>>))}

MCForeign ==
    {<<<<1, 1, 1, 0>>, <<2, 2, 1, 0>>, Header>>,
     <<Header, Separator, Separator>>,
     <<Header, <<1, 1, 1, 0>>, <<0, 7, 7, 7>>, <<1, 0, 1, 0>>>>,
     <<Header, Header, Separator, <<MAGIC, MAGIC, 1, 0>>>>}

=============================================================================
