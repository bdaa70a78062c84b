---------------------------- MODULE BinaryStore ----------------------------
(***************************************************************************)
(* The binary format of src/src/serialize/binary.rs: a graph is written to *)
(* a file row by row, and read row by row into another one, which may have *)
(* nodes already.                                                          *)
(*                                                                         *)
(* Whoever writes may stop at any point.                                   *)
(***************************************************************************)
EXTENDS BinaryFormat

CONSTANTS
    Graphs,   \* the graphs to write
    Targets,  \* the graphs to read into
    Foreign,  \* files from elsewhere
    MaxReads  \* how often a file is read

VARIABLES
    source,       \* the graph that was written
    file,
    target,       \* the graph that is read into
    before,       \* what it was when reading began
    pc,           \* "writing", "closed", "reading", or how the last read ended
    seen_header,
    seen_nodes,
    row,          \* rows read so far
    reads

vars == <<source, file, target, before, pc, seen_header, seen_nodes, row, reads>>

\* Graphs are made by Graph, files are sequences of rows.
ASSUME GraphsAssumption ==
    /\ \A g \in Graphs : IsGraph(g)
    /\ \A g \in Targets : HasLists(g)
    /\ \A rows \in Foreign : rows \in Seq(ToSet(rows))

---------------------------------------------------------------------------
Init ==
    /\ source \in Graphs
    /\ target \in Targets
    /\ before = target
    /\ \/ file = << >> /\ pc = "writing"
       \/ file \in Foreign /\ pc = "closed"
    /\ seen_header = FALSE
    /\ seen_nodes = FALSE
    /\ row = 0
    /\ reads = 0

WriteRow ==
    /\ pc = "writing"
    /\ Len(file) < Len(Rows(source))
    /\ file' = Append(file, Rows(source)[Len(file) + 1])
    /\ UNCHANGED <<source, target, before, pc, seen_header, seen_nodes, row, reads>>

\* The file is complete, or whoever wrote it could not go on.
Close ==
    /\ pc = "writing"
    /\ pc' = "closed"
    /\ UNCHANGED <<source, file, target, before, seen_header, seen_nodes, row, reads>>

Ended == pc \in {"closed", "ok", "invalid", "failed"}

Open ==
    /\ Ended
    /\ reads < MaxReads
    /\ reads' = reads + 1
    /\ pc' = "reading"
    /\ before' = target
    /\ seen_header' = FALSE
    /\ seen_nodes' = FALSE
    /\ row' = 0
    /\ UNCHANGED <<source, file, target>>

\* r.read_exact
NextRow == pc = "reading" /\ row < Len(file)
Row == file[row + 1]

ReadHeader ==
    /\ NextRow
    /\ ~ seen_header
    /\ Row[1] = MAGIC
    /\ seen_header' = TRUE
    /\ row' = row + 1
    /\ UNCHANGED <<source, file, target, before, pc, seen_nodes, reads>>

InvalidMagic ==
    /\ NextRow
    /\ ~ seen_header
    /\ Row[1] # MAGIC
    /\ pc' = "invalid"
    /\ UNCHANGED <<source, file, target, before, seen_header, seen_nodes, row, reads>>

\* Variant: what the graph has of an id goes with its node.
ReadNodeAfresh ==
    /\ NextRow
    /\ seen_header
    /\ ~ seen_nodes
    /\ Row[1] # 0
    /\ target' = SetNode(DeleteNode(target, Row[1]), Row[1], Row[2], <<Row[3], Row[4]>>)
    /\ row' = row + 1
    /\ UNCHANGED <<source, file, before, pc, seen_header, seen_nodes, reads>>

ReadNode ==
    /\ NextRow
    /\ seen_header
    /\ ~ seen_nodes
    /\ Row[1] # 0
    /\ target' = SetNode(target, Row[1], Row[2], <<Row[3], Row[4]>>)
    /\ row' = row + 1
    /\ UNCHANGED <<source, file, before, pc, seen_header, seen_nodes, reads>>

\* Any row of id 0 ends the nodes.
ReadSeparator ==
    /\ NextRow
    /\ seen_header
    /\ ~ seen_nodes
    /\ Row[1] = 0
    /\ seen_nodes' = TRUE
    /\ row' = row + 1
    /\ UNCHANGED <<source, file, target, before, pc, seen_header, reads>>

\* Variant: an edge that is there already is kept.
ReadEdgeOnce ==
    /\ NextRow
    /\ seen_header
    /\ seen_nodes
    /\ Row[1] # 0
    /\ Row[2] # 0
    /\ target' = IF HasEdge(target, Row[1], Row[2]) THEN target
                 ELSE SetEdge(target, Row[1], [to |-> Row[2], cost |-> Row[3]])
    /\ row' = row + 1
    /\ UNCHANGED <<source, file, before, pc, seen_header, seen_nodes, reads>>

\* An edge whose ends are not both there is dropped by set_edge.
ReadEdge ==
    /\ NextRow
    /\ seen_header
    /\ seen_nodes
    /\ Row[1] # 0
    /\ Row[2] # 0
    /\ target' = SetEdge(target, Row[1], [to |-> Row[2], cost |-> Row[3]])
    /\ row' = row + 1
    /\ UNCHANGED <<source, file, before, pc, seen_header, seen_nodes, reads>>

\* set_edge asserts that no id is 0.
Panic ==
    /\ NextRow
    /\ seen_header
    /\ seen_nodes
    /\ Row[1] = 0 \/ Row[2] = 0
    /\ pc' = "panicked"
    /\ UNCHANGED <<source, file, target, before, seen_header, seen_nodes, row, reads>>

EndOfFile ==
    /\ pc = "reading"
    /\ row = Len(file)
    /\ pc' = "ok"
    /\ UNCHANGED <<source, file, target, before, seen_header, seen_nodes, row, reads>>

\* Any other error of the reader.
IoError ==
    /\ pc = "reading"
    /\ pc' = "failed"
    /\ UNCHANGED <<source, file, target, before, seen_header, seen_nodes, row, reads>>

Next ==
    \/ WriteRow \/ Close \/ Open
    \/ ReadHeader \/ InvalidMagic
    \/ ReadNode \/ ReadSeparator \/ ReadEdge \/ Panic
    \/ EndOfFile \/ IoError

Spec == Init /\ [][Next]_vars

---------------------------------------------------------------------------
(* Properties *)

Own == IsPrefix(file, Rows(source))
Complete == file = Rows(source)

\* Edges of the source that a graph with the nodes of both has ends for.
Carried(from, to) ==
    HasEdge(source, from, to) /\ {from, to} \subseteq DOMAIN source \cup DOMAIN before

\* Reading a complete file merges two graphs: what either has is there, and
\* where both have something, it is the file's.  Only edges that dangle in
\* the union are lost, and edges that dangled in one may find their end.
MergeIsUnion ==
    pc = "ok" /\ Complete =>
        /\ DOMAIN target = DOMAIN before \cup DOMAIN source
        /\ \A id \in DOMAIN target :
              LET origin == IF HasNode(source, id) THEN source ELSE before IN
              OsmId(target, id) = OsmId(origin, id) /\ Pos(target, id) = Pos(origin, id)
        /\ \A from \in DOMAIN target :
              \A to \in {e.to : e \in ToSet(GetEdges(source, from)) \cup ToSet(GetEdges(before, from))
                                                                  \cup ToSet(GetEdges(target, from))} :
                 /\ HasEdge(target, from, to) <=> Carried(from, to) \/ HasEdge(before, from, to)
                 /\ HasEdge(target, from, to) =>
                       GetEdge(target, from, to) =
                          IF Carried(from, to) THEN GetEdge(source, from, to) ELSE GetEdge(before, from, to)

\* What write_bin has written, or begun to, is never rejected or taken for an
\* edge of ids that are 0.  That it was cut is not noticed, but it loses only
\* its end: the copy has the first nodes, edges only if it has all of the
\* nodes, and of the edges, in their order, the first; no node is without an
\* edge that comes before one that is there.
CutsLoseOnlyTheEnd ==
    /\ Own => pc \notin {"invalid", "panicked"}
    /\ pc \in {"reading", "ok"} /\ Own /\ before = EmptyGraph =>
        /\ \A id \in DOMAIN target :
              HasNode(source, id) /\ OsmId(target, id) = OsmId(source, id) /\ Pos(target, id) = Pos(source, id)
        /\ \A id \in DOMAIN source, other \in DOMAIN target : id <= other => id \in DOMAIN target
        /\ \A from \in DOMAIN target :
              /\ IsPrefix(GetEdges(target, from), LivingEdges(source, from))
              /\ GetEdges(target, from) # << >> =>
                    /\ DOMAIN target = DOMAIN source
                    /\ \A id \in DOMAIN source : id < from =>
                          GetEdges(target, id) = LivingEdges(source, id)

\* No row that is read takes away a node or an edge of the graph.
ReadingNeverForgets ==
    [][\A id \in DOMAIN target :
          /\ HasNode(target', id)
          /\ \A e \in ToSet(GetEdges(target, id)) : HasEdge(target', id, e.to)]_vars

=============================================================================
