---------------------------- MODULE PbfMessages ----------------------------
(***************************************************************************)
(* The protocol buffers of src/src/osm/reader/pbf/fileformat.rs and        *)
(* osmformat.rs: how merge_from makes a message of the fields it finds, in *)
(* whatever order they come, and is_initialized asks for the required ones.*)
(*                                                                         *)
(* A message in a file is a sequence of <<tag, value>>, where a tag is the *)
(* number of a field with its wire type, and 0 none at all.  A message in  *)
(* memory is a function from names of fields to values; one that has no    *)
(* value is not in its domain.  Fields that nobody reads are unknown here. *)
(***************************************************************************)
EXTENDS Integers, Sequences, SequencesExt, TLC

\* What a field with some tag does to a message.
Rule(tag, how, field, of) == tag :> [how |-> how, field |-> field, of |-> of]

Set(tag, field) == Rule(tag, "set", field, "")
Push(tag, field) == Rule(tag, "push", field, "")
Extend(tag, field) == Rule(tag, "extend", field, "")  \* packed
OneOf(tag, field, form) == Rule(tag, "one of", field, form)
Message(tag, field, type) == Rule(tag, "message", field, type)
Messages(tag, field, type) == Rule(tag, "messages", field, type)

\* Repeated fields begin empty.
Repeated(fields) == [field \in fields |-> << >>]

---------------------------------------------------------------------------
(* The types of messages *)

BlobHeader ==
    [rules |-> Set(10, "type") @@ Set(24, "datasize"),
     default |-> Repeated({}), required |-> {"type", "datasize"}]

Blob ==
    [rules |-> Set(16, "raw_size")
               @@ OneOf(10, "data", "raw") @@ OneOf(26, "data", "zlib") @@ OneOf(34, "data", "lzma")
               @@ OneOf(42, "data", "bzip2") @@ OneOf(50, "data", "lz4") @@ OneOf(58, "data", "zstd"),
     default |-> Repeated({}), required |-> {}]

HeaderBlock ==
    [rules |-> Push(34, "required_features"),
     default |-> Repeated({"required_features"}), required |-> {}]

StringTable == [rules |-> Push(10, "s"), default |-> Repeated({"s"}), required |-> {}]

RawNode ==
    [rules |-> Set(8, "id") @@ Set(64, "lat") @@ Set(72, "lon"),
     default |-> Repeated({}), required |-> {"id", "lat", "lon"}]

DenseNodes ==
    [rules |-> Extend(10, "id") @@ Push(8, "id") @@ Extend(66, "lat") @@ Push(64, "lat")
               @@ Extend(74, "lon") @@ Push(72, "lon"),
     default |-> Repeated({"id", "lat", "lon"}), required |-> {}]

RawWay ==
    [rules |-> Set(8, "id") @@ Extend(18, "keys") @@ Push(16, "keys") @@ Extend(26, "vals")
               @@ Push(24, "vals") @@ Extend(66, "refs") @@ Push(64, "refs"),
     default |-> Repeated({"keys", "vals", "refs"}), required |-> {"id"}]

RawRelation ==
    [rules |-> Set(8, "id") @@ Extend(18, "keys") @@ Push(16, "keys") @@ Extend(26, "vals")
               @@ Push(24, "vals") @@ Extend(66, "roles_sid") @@ Push(64, "roles_sid")
               @@ Extend(74, "memids") @@ Push(72, "memids") @@ Extend(82, "types") @@ Push(80, "types"),
     default |-> Repeated({"keys", "vals", "roles_sid", "memids", "types"}), required |-> {"id"}]

PrimitiveGroup ==
    [rules |-> Messages(10, "nodes", RawNode) @@ Message(18, "dense", DenseNodes)
               @@ Messages(26, "ways", RawWay) @@ Messages(34, "relations", RawRelation),
     default |-> Repeated({"nodes", "ways", "relations"}), required |-> {}]

PrimitiveBlock ==
    [rules |-> Message(10, "stringtable", StringTable) @@ Messages(18, "primitivegroup", PrimitiveGroup)
               @@ Set(136, "granularity") @@ Set(152, "lat_offset") @@ Set(160, "lon_offset"),
     default |-> Repeated({"primitivegroup"}), required |-> {"stringtable"}]

---------------------------------------------------------------------------
Put(message, field, value) == (field :> value) @@ message

Merge(message, rule, value) ==
    Put(message, rule.field,
        CASE rule.how \in {"set", "message"} -> value
          [] rule.how \in {"push", "messages"} -> Append(message[rule.field], value)
          [] rule.how = "extend" -> message[rule.field] \o value
          [] rule.how = "one of" -> [form |-> rule.of, bytes |-> value])

\* merge_from: the message, or << >> if there is an error in what follows.
\* Of a message within a message the fields required of it are asked too.
RECURSIVE MergeFrom(_, _, _)
MergeFrom(message, rules, wire) ==
    IF wire = << >> THEN <<message>>
    ELSE LET tag == Head(wire)[1]
             rule == rules[tag]
             merged == MergeFrom(rule.of.default, rule.of.rules, Head(wire)[2])
             nested == IF rule.how \notin {"message", "messages"} THEN <<Head(wire)[2]>>
                       ELSE IF merged # << >> /\ rule.of.required \subseteq DOMAIN merged[1] THEN merged
                       ELSE << >>
         IN  IF tag = 0 \/ (tag \in DOMAIN rules /\ nested = << >>) THEN << >>
             ELSE MergeFrom(IF tag \in DOMAIN rules THEN Merge(message, rule, nested[1]) ELSE message,
                            rules, Tail(wire))

\* parse_from_bytes.
Parse(type, wire) ==
    LET merged == MergeFrom(type.default, type.rules, wire)
    IN  IF merged # << >> /\ type.required \subseteq DOMAIN merged[1] THEN merged ELSE << >>

\* The value of an optional field, or what the accessor gives for it.
FieldOr(message, field, default) == IF field \in DOMAIN message THEN message[field] ELSE default

=============================================================================
