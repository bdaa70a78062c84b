---------------------------- MODULE MCOsmLoading ----------------------------
(***************************************************************************)
(* Files to load: some data, encoded in either format in several ways; all *)
(* short sequences of XML elements that nest; and PBF files put together   *)
(* from blobs, among which are some of every kind of fault.                *)
(***************************************************************************)
EXTENDS OsmLoading

Event3(kind, name, attrs) == [kind |-> kind, name |-> name, attrs |-> attrs]
NoAttrs == [a \in {} |-> ""]
End(name) == Event3("end", name, NoAttrs)
Else == Event3("other", "else", NoAttrs)

NodeAttrs(id, lat, lon) == [id |-> <<id>>, lat |-> <<lat>>, lon |-> <<lon>>]
NdEvent(ref) == Event3("empty", "nd", [ref |-> <<ref>>])
TagEvent(k, v) == Event3("empty", "tag", [k |-> k, v |-> v])
MemberEvent(type, ref, role) == Event3("empty", "member", [type |-> type, ref |-> <<ref>>, role |-> role])

---------------------------------------------------------------------------
(* Some data *)

N5 == NodeFeature(5, 200, 300)
N7 == NodeFeature(7, 100, 500)
W1 == WayFeature(1, <<5, 7, 5>>, [highway |-> "road", oneway |-> "yes"])
R2 == RelationFeature(2, <<RelationMember("way", 1, "from"), RelationMember("node", 7, "via"),
                           RelationMember("relation", 2, "to")>>, [type |-> "restriction"])
Data == <<N5, N7, W1, R2>>

TagEvents(tags) ==
    LET keys == SetToSeq(DOMAIN tags) IN [i \in DOMAIN keys |-> TagEvent(keys[i], tags[keys[i]])]

XmlOf(x) ==
    CASE x.type = "node" -> <<Event3("empty", "node", NodeAttrs(x.id, x.pos[1], x.pos[2])), Else>>
      [] x.type = "way" ->
            <<Event3("start", "way", [id |-> <<x.id>>]), Else>>
            \o [i \in DOMAIN x.nodes |-> NdEvent(x.nodes[i])] \o TagEvents(x.tags) \o <<End("way")>>
      [] OTHER ->
            <<Event3("start", "relation", [id |-> <<x.id>>])>>
            \o [i \in DOMAIN x.members |-> MemberEvent(x.members[i].type, x.members[i].ref, x.members[i].role)]
            \o TagEvents(x.tags) \o <<End("relation")>>

XmlFile(container, magic, events, says, good) ==
    [container |-> container, magic |-> magic, content |-> "xml", events |-> events, blobs |-> << >>,
     says |-> says, good |-> good]

DataEvents ==
    <<Event3("start", "else", NoAttrs)>> \o FlattenSeq([i \in DOMAIN Data |-> XmlOf(Data[i])]) \o <<End("else")>>

XmlFiles ==
    {XmlFile("plain", magic, DataEvents, Data, TRUE) : magic \in {"<?xml", "<osm", "other"}}
        \cup {XmlFile("gzip", "1F 8B", DataEvents, Data, TRUE), XmlFile("bzip2", "BZh", DataEvents, Data, TRUE)}

---------------------------------------------------------------------------
(* Elements that nest *)

Invalid == Event3("start", "way", [id |-> None])
Elements1 ==
    {Invalid, Event3("start", "way", [id |-> <<1>>]), End("way"), NdEvent(5), NdEvent(0),
     Event3("empty", "node", NodeAttrs(5, 200, 300)), Event3("start", "node", NodeAttrs(7, 100, 500)),
     End("node"), Event3("start", "relation", [id |-> <<2>>]), End("relation"),
     MemberEvent("way", 1, "from"), TagEvent("highway", "road")}

\* Whether every end tag closes the element that was opened last: the parser
\* reports one that does not as an error.
Nests(events) ==
    LET open[i \in 0 .. Len(events)] ==
            IF i = 0 THEN << >>
            ELSE LET before == open[i - 1] IN
                 IF before = <<"?">> THEN before
                 ELSE IF events[i].kind = "start" THEN Append(before, events[i].name)
                 ELSE IF events[i].kind # "end" THEN before
                 ELSE IF before # << >> /\ Last(before) = events[i].name THEN Front(before) ELSE <<"?">>
    IN  open[Len(events)] # <<"?">>

OddDocuments ==
    {<<Event3("start", "way", [id |-> <<1>>]), NdEvent(5), Event3("start", "nd", [ref |-> <<7>>]), End("nd"),
       Event3("empty", "nd", NoAttrs), Event3("empty", "tag", [k |-> "oneway"]),
       TagEvent("oneway", "yes"), TagEvent("oneway", "no"), Event3("empty", "tag", "?" :> "" @@ [k |-> "a", v |-> "b"]),
       Event3("empty", "way", [id |-> <<3>>]), NdEvent(7), End("way")>>,
     <<Event3("start", "relation", [id |-> <<0>>]), MemberEvent("way", 1, "from"), End("relation"),
       Event3("start", "relation", [id |-> <<2>>]), MemberEvent("changeset", 1, "to"),
       Event3("empty", "member", [type |-> "way", ref |-> <<1>>]), NdEvent(5),
       Event3("start", "member", [type |-> "way", ref |-> <<1>>, role |-> "to"]), NdEvent(5), End("member"),
       MemberEvent("node", 5, "via"), MemberEvent("node", 0, "via"), End("relation")>>,
     <<Event3("empty", "node", NodeAttrs(0, 1, 1)), Event3("empty", "node", [id |-> <<5>>, lat |-> <<1>>]),
       Event3("empty", "node", [id |-> <<5>>, lat |-> <<1>>, lon |-> None]), Event3("empty", "else", NoAttrs),
       Event3("start", "node", NodeAttrs(7, 100, 500)), TagEvent("highway", "stop"), NdEvent(5), End("node")>>}

Documents ==
    OddDocuments \cup
    {doc \in UNION {[1 .. n -> Elements1] : n \in 0 .. 4} : Nests(doc)}

---------------------------------------------------------------------------
(* Blobs *)

HeaderOf(type) == <<<<10, type>>, <<18, "index">>, <<24, 10>>>>

\* A blob of some content; what it requires or says is for comparison.
BlobOf(type, tag, wire) ==
    [size |-> 3, header |-> HeaderOf(type), type |-> type, requires |-> {}, says |-> << >>,
     content |-> <<<<16, 2>>, <<tag, [inflates |-> TRUE, wire |-> wire]>>>>]

HeaderBlob(features) ==
    [BlobOf("OSMHeader", 26, [i \in DOMAIN features |-> <<34, features[i]>>]) EXCEPT !.requires = ToSet(features)]
DataBlob(tag, wire, says) == [BlobOf("OSMData", tag, wire) EXCEPT !.says = says]

Strings == <<10, << <<10, "">>, <<10, "highway">>, <<10, "road">>, <<10, "oneway">>, <<10, "yes">>, <<10, "from">>,
                    <<10, "via">>, <<10, "to">>, <<10, "type">>, <<10, "restriction">> >>>>

DenseWire == <<18, << <<10, <<5, 2>>>>, <<66, <<2, -1>>>>, <<74, <<3, 2>>>> >>>>
PlainWire == << <<10, << <<8, 5>>, <<64, 2>>, <<72, 10>> >>>>, <<10, << <<72, 20>>, <<64, 0>>, <<8, 7>> >>>> >>
WayWire == <<26, << <<8, 1>>, <<18, <<1, 3>>>>, <<26, <<2, 4>>>>, <<66, <<5, 2, -2>>>> >>>>
RelationWire ==
    <<34, << <<82, <<1, 0, 2>>>>, <<66, <<5, 6, 7>>>>, <<8, 2>>, <<72, 1>>, <<74, <<6, -5>>>>, <<16, 8>>, <<24, 9>> >>>>

\* All of the data in one block; or in two, with a grid of their own.
Dense1 == DataBlob(26, <<Strings, <<18, <<DenseWire, WayWire, RelationWire>>>>, <<144, 1>>>>, Data)
Plain1 == DataBlob(10, << <<18, PlainWire>>, <<160, 100>>, <<152, 100>>, <<136, 20>>, <<10, << >>>> >>,
                   <<NodeFeature(5, 140, 300), NodeFeature(7, 100, 500)>>)
Ways2 == DataBlob(42, << <<18, <<RelationWire>>>>, <<18, <<WayWire>>>>, Strings>>, <<R2, W1>>)
Swapped == DataBlob(26, <<Strings, <<18, <<RelationWire, WayWire, DenseWire>>>>>>, Data)

\* Arrays of unequal length, strings that are not there.
Odd == DataBlob(26, <<Strings, <<18, << <<18, << <<10, <<5, 2, 9>>>>, <<66, <<2, -1>>>>, <<74, <<3>>>> >>>>,
                                        <<26, << <<8, 1>>, <<16, 1>>, <<16, 1>>, <<16, 3>>, <<24, 2>>, <<24, 77>> >>>>,
                                        <<34, << <<8, 2>>, <<82, <<1, 9>>>>, <<66, <<-1, 5>>>>, <<72, 1>> >>>> >>>>>>,
                <<N5, WayFeature(1, << >>, [highway |-> ""]),
                  RelationFeature(2, <<RelationMember("way", 1, "")>>, NoTags)>>)

Known == HeaderBlob(<<"OsmSchema-V0.6", "DenseNodes">>)

Faulty ==
    {HeaderBlob(<<"OsmSchema-V0.6", "HistoricalInformation">>),
     [Known EXCEPT !.size = 4],                                        \* header too large
     [Known EXCEPT !.header = <<<<10, "OSMHeader">>>>],                \* no datasize
     [Known EXCEPT !.header = <<<<10, "OSMHeader">>, <<24, -1>>>>],    \* negative datasize
     [Dense1 EXCEPT !.content = <<<<16, -1>>, Dense1.content[2]>>],    \* raw_size too large
     [Dense1 EXCEPT !.content = <<<<16, 2>>>>],                        \* no data
     [Dense1 EXCEPT !.content = <<<<0, 0>>>>],                         \* no blob
     [Dense1 EXCEPT !.content[2][2].inflates = FALSE],
     [Dense1 EXCEPT !.content[2][1] = 34],                             \* lzma
     DataBlob(26, << <<18, <<WayWire>>>> >>, << >>),                   \* no table of strings
     DataBlob(26, <<Strings, <<18, << <<26, << <<66, <<5, 2>>>> >>>> >>>>>>, << >>),  \* no id
     DataBlob(26, <<Strings, <<18, <<WayWire, <<34, << <<8, 2>>, <<80, 3>>, <<64, 5>>, <<72, 1>> >>>> >>>>>>,
              <<W1>>)}                                                 \* no such type

Good == {Known, Dense1, Plain1, Ways2, Swapped, Odd, BlobOf("OSMOther", 10, << >>)}
Blobs == Good \cup Faulty

PbfFile(blobs, good) ==
    [container |-> "plain", content |-> "pbf", events |-> << >>, blobs |-> blobs,
     magic |-> IF blobs[1].type = "OSMHeader" THEN "0A 09 OS" ELSE "other",
     says |-> FlattenSeq([i \in DOMAIN blobs |-> blobs[i].says]), good |-> good]

PbfFiles ==
    {PbfFile(<<Known, Dense1>>, TRUE), PbfFile(<<Known, Known, Plain1, Swapped, Ways2>>, TRUE),
     PbfFile(<<BlobOf("OSMOther", 10, << >>), Known, BlobOf("OSMOther", 58, << >>)>>, FALSE)}
BlobFiles == UNION {{PbfFile(blobs, FALSE) : blobs \in [1 .. n -> Blobs]} : n \in 1 .. 2}
                \cup {PbfFile(<<Known, b, c>>, FALSE) : b \in Blobs, c \in Blobs}

---------------------------------------------------------------------------
Call(f1, fmt, n) == [file |-> f1, file_format |-> fmt, first |-> n]

MCCalls ==
    {Call(f1, fmt, 8) : f1 \in XmlFiles \cup PbfFiles, fmt \in FileFormats}
        \cup {Call(f1, "Unknown", n) : f1 \in XmlFiles \cup PbfFiles, n \in 1 .. 7}
        \cup {Call(f1, "Pbf", 8) : f1 \in BlobFiles}
        \cup {Call(XmlFile("plain", "<osm", doc, << >>, FALSE), "Xml", 8) : doc \in Documents}

=============================================================================
