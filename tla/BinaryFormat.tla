---------------------------- MODULE BinaryFormat ----------------------------
(***************************************************************************)
(* The binary format of src/src/serialize/binary.rs.  A row is 24 bytes:   *)
(* two integers and two numbers, <<a, b, c, d>>.  What it means depends on *)
(* the rows before it.  A row written in part reads as the end of the      *)
(* file, so a file is a sequence of whole rows.                            *)
(***************************************************************************)
EXTENDS Graph

CONSTANT MAGIC  \* BINARY_FILE_MAGIC, read as an integer

Header == <<MAGIC, 0, 0, 0>>
Separator == <<0, 0, 0, 0>>

NodeRow(g, id) == <<id, OsmId(g, id), Pos(g, id)[1], Pos(g, id)[2]>>
EdgeRow(id, e) == <<id, e.to, e.cost, 0>>

\* The map of nodes is ordered by id.
InOrder(g) ==
    CHOOSE ids \in [1 .. Cardinality(DOMAIN g) -> DOMAIN g] :
        /\ ToSet(ids) = DOMAIN g
        /\ \A i, j \in DOMAIN ids : i < j => ids[i] < ids[j]

\* Variant: the edges of a node follow it.
RowsByNode(g) ==
    LET ids == InOrder(g)
        EdgeRows(id) == [i \in DOMAIN GetEdges(g, id) |-> EdgeRow(id, GetEdges(g, id)[i])]
    IN  <<Header>>
        \o FlattenSeq([i \in DOMAIN ids |-> <<NodeRow(g, ids[i])>> \o EdgeRows(ids[i])])
        \o <<Separator>>

Rows(g) ==
    LET ids == InOrder(g)
        EdgeRows(id) == [i \in DOMAIN GetEdges(g, id) |-> EdgeRow(id, GetEdges(g, id)[i])]
    IN  <<Header>>
        \o [i \in DOMAIN ids |-> NodeRow(g, ids[i])]
        \o <<Separator>>
        \o FlattenSeq([i \in DOMAIN ids |-> EdgeRows(ids[i])])

---------------------------------------------------------------------------
(* Files as a whole *)

\* Variant: without a flush, errors of the last rows are lost.
WriteBinUnflushed(g) ==
    {[rows |-> SubSeq(Rows(g), 1, n), returned |-> TRUE] : n \in 0 .. Len(Rows(g))}

\* What write_bin may leave in a file, and whether it says that it has
\* written all of it.  Rows are buffered: an error may come as late as with
\* the last flush.
WriteBin(g) ==
    {[rows |-> Rows(g), returned |-> TRUE]}
        \cup {[rows |-> SubSeq(Rows(g), 1, n), returned |-> FALSE] : n \in 0 .. Len(Rows(g)) - 1}

\* What read_bin makes of a graph and a file that write_bin wrote, or a part of
\* it: after the header, nodes up to the separator, then edges.
ReadBin(g, rows) ==
    LET read[n \in 0 .. Len(rows)] ==
            IF n <= 1 THEN [graph |-> g, seen_nodes |-> FALSE]
            ELSE LET row == rows[n]
                     before == read[n - 1]
                 IN  IF before.seen_nodes
                     THEN [before EXCEPT !.graph = SetEdge(@, row[1], [to |-> row[2], cost |-> row[3]])]
                     ELSE IF row[1] = 0 THEN [before EXCEPT !.seen_nodes = TRUE]
                     ELSE [before EXCEPT !.graph = SetNode(@, row[1], row[2], <<row[3], row[4]>>)]
    IN  read[Len(rows)].graph

---------------------------------------------------------------------------
(* What a graph is to properties *)

\* Every node has its fields, and a list of edges that may be parallel.
HasLists(g) ==
    /\ g = [id \in DOMAIN g |-> g[id]]
    /\ \A id \in DOMAIN g :
          /\ g[id] = [osm_id |-> OsmId(g, id), pos |-> Pos(g, id), edges |-> g[id].edges]
          /\ g[id].edges \in Seq(ToSet(g[id].edges))

\* What set_edge and set_node make of nothing: no id is 0, and no two edges of
\* a node lead to the same one.
IsGraph(g) ==
    /\ HasLists(g)
    /\ IsFiniteSet(DOMAIN g) /\ DOMAIN g \subseteq Int \ {0}
    /\ \A id \in DOMAIN g :
          /\ Pos(g, id) = <<Pos(g, id)[1], Pos(g, id)[2]>>
          /\ \A i \in DOMAIN GetEdges(g, id) :
                LET e == GetEdges(g, id)[i] IN
                /\ e = [to |-> e.to, cost |-> e.cost] /\ e.to \in Int \ {0}
                /\ EdgesTo(GetEdges(g, id), e.to) = {i}

\* Of the first n edges of a node, those that lead to nodes.
Living(g, id) ==
    LET edges == GetEdges(g, id)
        living[n \in 0 .. Len(edges)] ==
            IF n = 0 THEN << >>
            ELSE IF HasNode(g, edges[n].to) THEN Append(living[n - 1], edges[n]) ELSE living[n - 1]
    IN  living

LivingEdges(g, id) == Living(g, id)[Len(GetEdges(g, id))]

=============================================================================
