----------------------------- MODULE PbfReader -----------------------------
(***************************************************************************)
(* The reader of src/src/osm/reader/pbf/mod.rs: FileBlocks finds blocks in *)
(* the blobs of a file, Block and Group make features of them.             *)
(*                                                                         *)
(* A blob is [size, header, content]: the size of the header as four       *)
(* bytes, the header and the content as messages of PbfMessages.  What a   *)
(* blob holds is [inflates, wire], a message, compressed or not.           *)
(***************************************************************************)
EXTENDS OsmFeatures, PbfMessages

CONSTANTS
    MAX_BLOB_HEADER_SIZE,
    MAX_BLOB_SIZE,
    U32  \* the number of values of a u32

VARIABLES
    blob,         \* blobs read
    phase,        \* what is read next: "size", "header" or "content"
    seen_header,
    pending       \* features of the block that are still to be returned

pbfVars == <<blob, phase, seen_header, pending>>

PbfInit == blob = 0 /\ phase = "size" /\ seen_header = FALSE /\ pending = << >>

---------------------------------------------------------------------------
(* Blocks and groups *)

\* Indices that the table does not have, negative ones too, mean "".
GetString(table, idx) == IF idx \in 0 .. Len(table) - 1 THEN table[idx + 1] ELSE ""

Shorter(a, b) == IF Len(a) < Len(b) THEN Len(a) ELSE Len(b)

\* The last value of a key is the one that stays.
CollectTags(keys, vals, table) ==
    LET pairs == 1 .. Shorter(keys, vals)
        Key(i) == GetString(table, keys[i])
        LastOf(key) == CHOOSE i \in pairs : Key(i) = key /\ \A j \in pairs : Key(j) = key => j <= i
    IN  [key \in {Key(i) : i \in pairs} |-> GetString(table, vals[LastOf(key)])]

\* Variant: each delta is taken for a value.
NotSummed(deltas) == deltas

\* A running sum of deltas.
Summed(deltas) ==
    LET sum[i \in 0 .. Len(deltas)] == IF i = 0 THEN 0 ELSE sum[i - 1] + deltas[i]
    IN  [i \in DOMAIN deltas |-> sum[i]]

\* A type of member that is none.
Panic == [type |-> "panic"]

MemberTypes == <<"node", "way", "relation">>

\* Ids, roles and types are zipped: the shortest ends the members.
CollectMembers(r, table) ==
    LET ids == Summed(r.memids)
        n == Shorter(r.memids, IF Len(r.roles_sid) < Len(r.types) THEN r.roles_sid ELSE r.types)
    IN  [i \in 1 .. n |-> RelationMember(MemberTypes[r.types[i] + 1], ids[i],
                                         GetString(table, r.roles_sid[i]))]

Relation(r, table) ==
    IF \E i \in 1 .. Shorter(r.memids, IF Len(r.roles_sid) < Len(r.types) THEN r.roles_sid ELSE r.types) :
          r.types[i] \notin 0 .. 2
    THEN Panic
    ELSE RelationFeature(r.id, CollectMembers(r, table), CollectTags(r.keys, r.vals, table))

Way(w, table) == WayFeature(w.id, Summed(w.refs), CollectTags(w.keys, w.vals, table))

\* In nanodegrees.
ConvertLat(block, value) == FieldOr(block, "lat_offset", 0) + FieldOr(block, "granularity", 100) * value
ConvertLon(block, value) == FieldOr(block, "lon_offset", 0) + FieldOr(block, "granularity", 100) * value

Nodes(block, nodes) ==
    [i \in DOMAIN nodes |->
        NodeFeature(nodes[i].id, ConvertLat(block, nodes[i].lat), ConvertLon(block, nodes[i].lon))]

Dense(block, dense) ==
    LET ids == Summed(dense.id)
        lats == Summed(dense.lat)
        lons == Summed(dense.lon)
    IN  [i \in 1 .. Shorter(ids, IF Len(lats) < Len(lons) THEN lats ELSE lons) |->
            NodeFeature(ids[i], ConvertLat(block, lats[i]), ConvertLon(block, lons[i]))]

\* Variant: a relation comes before the ways it refers to.
GroupRelationsFirst(block, group) ==
    LET table == block.stringtable.s IN
    Nodes(block, group.nodes)
    \o Dense(block, FieldOr(group, "dense", DenseNodes.default))
    \o [i \in DOMAIN group.relations |-> Relation(group.relations[i], table)]
    \o [i \in DOMAIN group.ways |-> Way(group.ways[i], table)]

GroupFeatures(block, group) ==
    LET table == block.stringtable.s IN
    Nodes(block, group.nodes)
    \o Dense(block, FieldOr(group, "dense", DenseNodes.default))
    \o [i \in DOMAIN group.ways |-> Way(group.ways[i], table)]
    \o [i \in DOMAIN group.relations |-> Relation(group.relations[i], table)]

BlockFeatures(block) ==
    FlattenSeq([i \in DOMAIN block.primitivegroup |-> GroupFeatures(block, block.primitivegroup[i])])

---------------------------------------------------------------------------
(* Blobs *)

NextBlob == file.blobs[blob + 1]
Header == Parse(BlobHeader, NextBlob.header)[1]
Content == Parse(Blob, NextBlob.content)

\* A negative size is a large one as u32.
BlobSize == FieldOr(Content[1], "raw_size", 0) % U32

Bytes == Content[1].data.bytes

\* How read_blob fails, or "ok".
ReadBlob ==
    CASE Header.datasize < 0 -> "pbf"
      [] Header.datasize >= 0 /\ Content = << >> -> "pbf"
      [] Header.datasize >= 0 /\ Content # << >> ->
            IF BlobSize > MAX_BLOB_SIZE THEN "pbf"
            ELSE IF "data" \notin DOMAIN Content[1] THEN "panicked"
            ELSE IF Content[1].data.form \notin {"raw", "zlib", "bzip2"} THEN "pbf"
            ELSE IF ~ Bytes.inflates THEN "io"
            ELSE "ok"

Reading(p) == outcome = "reading" /\ pending = << >> /\ phase = p

\* No more bytes, or no more than three.
NoMoreBlobs ==
    /\ Reading("size")
    /\ Return("ok")
    /\ cut' = (cut \/ blob < Len(file.blobs))
    /\ UNCHANGED pbfVars

ReadSize ==
    /\ Reading("size")
    /\ blob < Len(file.blobs)
    /\ phase' = "header"
    /\ UNCHANGED <<file, delivered, outcome, cut, blob, seen_header, pending>>

\* A header that is too large is not even read.
ReadHeader ==
    /\ Reading("header")
    /\ IF NextBlob.size > MAX_BLOB_HEADER_SIZE \/ Parse(BlobHeader, NextBlob.header) = << >>
       THEN Return("pbf") /\ UNCHANGED phase
       ELSE phase' = "content" /\ UNCHANGED <<file, delivered, outcome>>
    /\ UNCHANGED <<cut, blob, seen_header, pending>>

NextBlobRead == blob' = blob + 1 /\ phase' = "size"

Supported == {"OsmSchema-V0.6", "DenseNodes"}

\* Variant: the first header counts, whatever follows.
ReadAndCheckFirstHeader ==
    /\ Reading("content")
    /\ Header.type = "OSMHeader"
    /\ ReadBlob = "ok"
    /\ LET header == Parse(HeaderBlock, Bytes.wire) IN
       IF ~ seen_header /\ (header = << >> \/ ~ (ToSet(header[1].required_features) \subseteq Supported))
       THEN Return("pbf") /\ UNCHANGED <<blob, phase, seen_header>>
       ELSE NextBlobRead /\ seen_header' = TRUE /\ UNCHANGED <<file, delivered, outcome>>
    /\ UNCHANGED <<cut, pending>>

ReadAndCheckHeader ==
    /\ Reading("content")
    /\ Header.type = "OSMHeader"
    /\ ReadBlob = "ok"
    /\ LET header == Parse(HeaderBlock, Bytes.wire) IN
       IF header = << >> \/ ~ (ToSet(header[1].required_features) \subseteq Supported)
       THEN Return("pbf") /\ UNCHANGED <<blob, phase, seen_header>>
       ELSE NextBlobRead /\ seen_header' = TRUE /\ UNCHANGED <<file, delivered, outcome>>
    /\ UNCHANGED <<cut, pending>>

DataBlobBeforeHeader ==
    /\ Reading("content")
    /\ Header.type = "OSMData"
    /\ ~ seen_header
    /\ Return("pbf")
    /\ UNCHANGED <<cut, pbfVars>>

ReadData ==
    /\ Reading("content")
    /\ Header.type = "OSMData"
    /\ seen_header
    /\ ReadBlob = "ok"
    /\ LET block == Parse(PrimitiveBlock, Bytes.wire) IN
       IF block = << >>
       THEN Return("pbf") /\ UNCHANGED <<blob, phase, pending>>
       ELSE NextBlobRead /\ pending' = BlockFeatures(block[1]) /\ UNCHANGED <<file, delivered, outcome>>
    /\ UNCHANGED <<cut, seen_header>>

\* Variant: the blob is looked at, but stays in the stream.
SkipBlobUnread ==
    /\ Reading("content")
    /\ Header.type \notin {"OSMHeader", "OSMData"}
    /\ phase' = "size"
    /\ UNCHANGED <<file, delivered, outcome, cut, blob, seen_header, pending>>

\* "Parsers should ignore and skip fileblock types that they do not recognize."
SkipBlob ==
    /\ Reading("content")
    /\ Header.type \notin {"OSMHeader", "OSMData"}
    /\ ReadBlob = "ok"
    /\ NextBlobRead
    /\ UNCHANGED <<file, delivered, outcome, cut, seen_header, pending>>

ReadBlobFails ==
    /\ Reading("content")
    /\ Header.type = "OSMData" => seen_header
    /\ ReadBlob # "ok"
    /\ Return(ReadBlob)
    /\ UNCHANGED <<cut, pbfVars>>

\* The file is cut within a blob, or cannot be read.
PbfIoError ==
    /\ outcome = "reading"
    /\ pending = << >>
    /\ Fails
    /\ UNCHANGED pbfVars

NextFeature ==
    /\ outcome = "reading"
    /\ pending # << >>
    /\ IF Head(pending) = Panic THEN Return("panicked")
       ELSE HandOver(Head(pending)) /\ UNCHANGED <<file, outcome>>
    /\ pending' = Tail(pending)
    /\ UNCHANGED <<cut, blob, phase, seen_header>>

PbfNext ==
    \/ PbfIoError \/ NextFeature
    \/ NoMoreBlobs \/ ReadSize \/ ReadHeader
    \/ ReadAndCheckHeader \/ DataBlobBeforeHeader \/ ReadData \/ SkipBlob \/ ReadBlobFails

=============================================================================
