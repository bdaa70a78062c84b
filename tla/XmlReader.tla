----------------------------- MODULE XmlReader -----------------------------
(***************************************************************************)
(* The reader of src/src/osm/reader/xml.rs: events of an XML parser become *)
(* features.  Reader::next goes on from event to event until it has a      *)
(* feature to return; what is open meanwhile is its local variable f.      *)
(*                                                                         *)
(* An event is [kind, name, attrs]: an "empty" element, a "start" or an    *)
(* "end" tag, or "other".  Attributes are a function from names to values; *)
(* a number is None if it cannot be parsed (or is not finite), a text is   *)
(* what stands in the file.  An attribute "?" stands for one that is not   *)
(* well-formed.                                                            *)
(***************************************************************************)
EXTENDS OsmFeatures

VARIABLES
    pos,  \* events read
    f,    \* the feature that is open
    eof

xmlVars == <<pos, f, eof>>

XmlInit == pos = 0 /\ f = None /\ eof = FALSE

---------------------------------------------------------------------------
(* Elements *)

WellFormed(attrs) == "?" \notin DOMAIN attrs
HasNumber(attrs, key) == key \in DOMAIN attrs /\ attrs[key] # None
HasId(attrs, key) == HasNumber(attrs, key) /\ attrs[key][1] # 0

ParseNode(attrs) ==
    IF WellFormed(attrs) /\ HasId(attrs, "id") /\ HasNumber(attrs, "lat") /\ HasNumber(attrs, "lon")
    THEN <<NodeFeature(attrs.id[1], attrs.lat[1], attrs.lon[1])>>
    ELSE None

ParseWay(attrs) ==
    IF WellFormed(attrs) /\ HasId(attrs, "id") THEN <<WayFeature(attrs.id[1], << >>, NoTags)>> ELSE None

ParseRelation(attrs) ==
    IF WellFormed(attrs) /\ HasId(attrs, "id") THEN <<RelationFeature(attrs.id[1], << >>, NoTags)>>
    ELSE None

ParseTag(attrs) ==
    IF WellFormed(attrs) /\ {"k", "v"} \subseteq DOMAIN attrs THEN <<<<attrs.k, attrs.v>>>> ELSE None

ParseNd(attrs) == IF WellFormed(attrs) /\ HasId(attrs, "ref") THEN <<attrs.ref[1]>> ELSE None

ParseMember(attrs) ==
    IF /\ WellFormed(attrs)
       /\ HasId(attrs, "ref")
       /\ "type" \in DOMAIN attrs /\ attrs.type \in FeatureTypes
       /\ "role" \in DOMAIN attrs
    THEN <<RelationMember(attrs.type, attrs.ref[1], attrs.role)>>
    ELSE None

\* The open feature, and whether it has tags, nodes or members.
Open(types) == f # None /\ f[1].type \in types

---------------------------------------------------------------------------
\* The next event of an element of one of some names.
Event(kind, names) ==
    /\ outcome = "reading"
    /\ ~ eof
    /\ pos < Len(file.events)
    /\ file.events[pos + 1].kind = kind
    /\ file.events[pos + 1].name \in names
    /\ pos' = pos + 1
    /\ UNCHANGED <<file, outcome, cut, eof>>

Attrs == file.events[pos + 1].attrs

\* A node without content is returned at once, whatever was open is lost.
EmptyNode ==
    /\ Event("empty", {"node"})
    /\ IF ParseNode(Attrs) # None
       THEN HandOver(ParseNode(Attrs)[1]) /\ f' = None
       ELSE UNCHANGED <<delivered, f>>

EmptyTag ==
    /\ Event("empty", {"tag"})
    /\ f' = IF Open({"way", "relation"}) /\ ParseTag(Attrs) # None
            THEN LET tag == ParseTag(Attrs)[1] IN <<[f[1] EXCEPT !.tags = Insert(@, tag[1], tag[2])]>>
            ELSE f
    /\ UNCHANGED delivered

EmptyNd ==
    /\ Event("empty", {"nd"})
    /\ f' = IF Open({"way"}) THEN <<[f[1] EXCEPT !.nodes = @ \o ParseNd(Attrs)]>> ELSE f
    /\ UNCHANGED delivered

EmptyMember ==
    /\ Event("empty", {"member"})
    /\ f' = IF Open({"relation"}) THEN <<[f[1] EXCEPT !.members = @ \o ParseMember(Attrs)]>> ELSE f
    /\ UNCHANGED delivered

\* Variant: a feature that is not valid leaves the open one as it was.
StartFeatureIfValid ==
    /\ Event("start", FeatureTypes)
    /\ LET feature == CASE file.events[pos + 1].name = "node" -> ParseNode(Attrs)
                        [] file.events[pos + 1].name = "way" -> ParseWay(Attrs)
                        [] OTHER -> ParseRelation(Attrs)
       IN  f' = IF feature = None THEN f ELSE feature
    /\ UNCHANGED delivered

\* One that is not valid is open to nobody: its content is skipped.
StartFeature ==
    /\ Event("start", FeatureTypes)
    /\ f' = CASE file.events[pos + 1].name = "node" -> ParseNode(Attrs)
              [] file.events[pos + 1].name = "way" -> ParseWay(Attrs)
              [] OTHER -> ParseRelation(Attrs)
    /\ UNCHANGED delivered

EndFeature ==
    /\ Event("end", FeatureTypes)
    /\ IF f # None THEN HandOver(f[1]) /\ f' = None ELSE UNCHANGED <<delivered, f>>

\* An empty way or relation, a tag, nd or member with content, and the rest.
Ignored ==
    /\ \/ Event("empty", {"way", "relation", "else"})
       \/ Event("start", {"tag", "nd", "member", "else"})
       \/ Event("end", {"tag", "nd", "member", "else"})
       \/ Event("other", {"else"})
    /\ UNCHANGED <<delivered, f>>

\* The parser does not mind that elements are open at the end.
Eof ==
    /\ outcome = "reading"
    /\ ~ eof
    /\ \/ pos = Len(file.events) /\ UNCHANGED cut
       \/ pos < Len(file.events) /\ file.container = "plain" /\ cut' = TRUE
    /\ eof' = TRUE
    /\ UNCHANGED <<file, delivered, outcome, pos, f>>

ReturnOpen ==
    /\ outcome = "reading"
    /\ eof
    /\ f # None
    /\ HandOver(f[1])
    /\ f' = None
    /\ UNCHANGED <<file, outcome, cut, pos, eof>>

XmlDone ==
    /\ outcome = "reading"
    /\ eof
    /\ f = None
    /\ Return("ok")
    /\ UNCHANGED <<cut, xmlVars>>

\* A file cut within a tag, or one that is no XML.  A compressed one that is
\* cut cannot be decompressed to its end.
XmlError ==
    /\ outcome = "reading"
    /\ ~ eof
    /\ \/ file.container = "plain" /\ Return("xml") /\ cut' = TRUE
       \/ Fails
    /\ UNCHANGED xmlVars

XmlNext ==
    \/ EmptyNode \/ EmptyTag \/ EmptyNd \/ EmptyMember
    \/ StartFeature \/ EndFeature \/ Ignored
    \/ Eof \/ ReturnOpen \/ XmlDone \/ XmlError

=============================================================================
