---------------------------- MODULE OsmFeatures ----------------------------
(***************************************************************************)
(* What the two readers of OSM files have in common: the features of       *)
(* src/src/osm/reader/model.rs, and whom they are handed to, a graph       *)
(* builder that takes one after the other until the reader has no more or  *)
(* reports an error (GraphBuilder::add_features).                          *)
(*                                                                         *)
(* A file is a record with events if it is XML and blobs if it is PBF.     *)
(* Files may be cut anywhere and reading may fail at any time.             *)
(***************************************************************************)
EXTENDS Integers, Sequences, SequencesExt, FiniteSets, Functions

VARIABLES
    file,
    delivered,  \* the features handed to the graph builder
    outcome,    \* "reading", "ok", an error ("io", "xml", "pbf", "unknown"), or "panicked"
    cut         \* whether the file ended early, or reading it failed

\* Options, and text that may be missing, are sequences of at most one.
None == << >>

NodeFeature(id, lat, lon) == [type |-> "node", id |-> id, pos |-> <<lat, lon>>]
WayFeature(id, nodes, tags) == [type |-> "way", id |-> id, nodes |-> nodes, tags |-> tags]
RelationFeature(id, members, tags) ==
    [type |-> "relation", id |-> id, members |-> members, tags |-> tags]
RelationMember(type, ref, role) == [type |-> type, ref |-> ref, role |-> role]

FeatureTypes == {"node", "way", "relation"}

NoTags == [k \in {} |-> ""]

\* HashMap::insert.
Insert(tags, k, v) == [x \in DOMAIN tags \cup {k} |-> IF x = k THEN v ELSE tags[x]]

HandOver(feature) == delivered' = Append(delivered, feature)

\* The builder takes no more, and the load returns.
Return(result) ==
    /\ outcome' = result
    /\ UNCHANGED <<file, delivered>>

\* The reader under the parsers fails.
Fails == Return("io") /\ cut' = TRUE

=============================================================================
