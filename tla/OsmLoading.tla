----------------------------- MODULE OsmLoading -----------------------------
(***************************************************************************)
(* add_features_from_io of src/src/osm/reader/mod.rs: the format of a file *)
(* is the one given, or it is guessed from the first bytes; the reader of  *)
(* that format, behind a decompressor or not, feeds a graph builder.       *)
(*                                                                         *)
(* A file is [container, magic, content, events, blobs, says, good], where *)
(* container is "plain", "gzip" or "bzip2", magic what it begins with, and *)
(* content "xml" or "pbf".  For comparison it has the features it says,    *)
(* and whether it is as it should be.                                      *)
(***************************************************************************)
EXTENDS XmlReader, PbfReader

CONSTANT Calls  \* calls to consider: [file, file_format, first]

VARIABLES
    file_format,  \* options.file_format
    first,        \* how many bytes the first read returns
    format        \* the format it is read as, None at first

options == <<file_format, first>>
vars == <<file, delivered, outcome, cut, xmlVars, pbfVars, options, format>>

FileFormats == {"Unknown", "Xml", "XmlGz", "XmlBz2", "Pbf"}

Init ==
    /\ \E call \in Calls :
          file = call.file /\ file_format = call.file_format /\ first = call.first
    /\ delivered = << >>
    /\ outcome = "reading"
    /\ cut = FALSE
    /\ format = None
    /\ XmlInit
    /\ PbfInit

\* Variant: what has no other mark is text.
DetectXmlOtherwise(magic) ==
    CASE magic = "1F 8B" /\ first >= 2 -> "XmlGz"
      [] magic = "BZh" /\ first >= 3 -> "XmlBz2"
      [] magic = "0A 09 OS" /\ first >= 8 -> "Pbf"
      [] OTHER -> "Xml"

\* A mark has to be in the first read, as far as it goes; that of a PBF file is
\* in bytes five to eight.
Detect(magic) ==
    CASE magic = "<?xml" /\ first >= 5 -> "Xml"
      [] magic = "<osm" /\ first >= 4 -> "Xml"
      [] magic = "1F 8B" /\ first >= 2 -> "XmlGz"
      [] magic = "BZh" /\ first >= 3 -> "XmlBz2"
      [] magic = "0A 09 OS" /\ first >= 8 -> "Pbf"
      [] OTHER -> "Unknown"

\* The first read, if it is needed, fails or finds nothing.
FirstReadFails ==
    /\ format = None
    /\ file_format = "Unknown"
    /\ format' = <<"Unknown">>
    /\ Return("io") \/ Return("unknown")
    /\ cut' = TRUE
    /\ UNCHANGED <<xmlVars, pbfVars, options>>

Begin ==
    /\ format = None
    /\ LET detected == IF file_format = "Unknown" THEN Detect(file.magic) ELSE file_format IN
       /\ format' = <<detected>>
       /\ IF detected = "Unknown" THEN Return("unknown") ELSE UNCHANGED <<file, delivered, outcome>>
    /\ UNCHANGED <<cut, xmlVars, pbfVars, options>>

ContainerOf(fmt) == CASE fmt = "XmlGz" -> "gzip" [] fmt = "XmlBz2" -> "bzip2" [] OTHER -> "plain"
ContentOf(fmt) == IF fmt = "Pbf" THEN "pbf" ELSE "xml"

Matches(fmt) == ContainerOf(fmt) = file.container /\ ContentOf(fmt) = file.content

ReadXml ==
    /\ format # None
    /\ format[1] \in {"Xml", "XmlGz", "XmlBz2"}
    /\ Matches(format[1])
    /\ XmlNext
    /\ UNCHANGED <<pbfVars, options, format>>

ReadPbf ==
    /\ format = <<"Pbf">>
    /\ Matches("Pbf")
    /\ PbfNext
    /\ UNCHANGED <<xmlVars, options, format>>

\* A decompressor does not take what is not compressed its way; the size of a
\* first header is too large when it is made of other bytes; and to the XML
\* parser, what has no tags is text, or an error.
Mismatch ==
    /\ format # None
    /\ outcome = "reading"
    /\ ~ Matches(format[1])
    /\ \/ ContainerOf(format[1]) # "plain" /\ Return("io")
       \/ format[1] = "Pbf" /\ Return("pbf")
       \/ format[1] = "Xml" /\ (Return("ok") \/ Return("xml"))
    /\ UNCHANGED <<cut, xmlVars, pbfVars, options, format>>

Next == FirstReadFails \/ Begin \/ ReadXml \/ ReadPbf \/ Mismatch

\* One thread runs from the call to the return.
Spec == Init /\ [][Next]_vars /\ WF_vars(Next)

---------------------------------------------------------------------------
(* Properties *)

IsXml == format # None /\ ContentOf(format[1]) = "xml" /\ Matches(format[1])
IsPbf == format = <<"Pbf">> /\ Matches("Pbf")

Whole == outcome = "ok" /\ ~ cut /\ Matches(format[1])

\* The graph builder gets what a file says, all of it and in its order, in each
\* of these encodings: in XML (without entities in attributes), compressed or
\* not, in plain or in dense nodes, in one group or in several blobs, and
\* whether it was detected or not.
FilesSayTheirFeatures == Whole /\ (file.good \/ IsPbf) => delivered = file.says

\* A file as it should be loads, unless it is cut or its format is given wrongly.
\* If it has to be guessed, a first read of eight bytes or more is enough ("At
\* least 8 bytes should be provided"), and a shorter one may make the guess
\* fail but never makes it wrong: then nothing is read as what it is not.
GoodFilesLoad ==
    outcome # "reading" /\ file.good =>
        \/ outcome = "unknown" /\ (cut \/ file.magic = "other" \/ first < 8)
        \/ outcome \in {"io", "xml", "pbf"} /\ cut
        \/ outcome = "ok" /\ Matches(format[1])
        \/ file_format # "Unknown" /\ ~ Matches(file_format)

---------------------------------------------------------------------------
(* What the events of an XML file mean, each feature by itself *)

Begins(i) ==
    LET e == file.events[i] IN
    CASE e.name = "node" /\ e.kind \in {"start", "empty"} -> ParseNode(e.attrs) # None
      [] e.name = "way" /\ e.kind = "start" -> ParseWay(e.attrs) # None
      [] e.name = "relation" /\ e.kind = "start" -> ParseRelation(e.attrs) # None
      [] OTHER -> FALSE

\* Where another element takes the place of an open feature.
Interrupts(i) ==
    file.events[i].name \in FeatureTypes /\ (file.events[i].kind = "start" \/ Begins(i))

Ends(i) == file.events[i].name \in FeatureTypes /\ file.events[i].kind = "end"

\* Of a feature that begins at i, the last of its elements among the first n.
Extent(i, n) ==
    CHOOSE k \in i .. n :
        /\ \A j \in i + 1 .. k : ~ Interrupts(j) /\ ~ Ends(j)
        /\ k < n => Interrupts(k + 1) \/ Ends(k + 1)

\* It is returned if it is empty, or its end comes first, or the end of the file.
Returned(i, n) ==
    LET k == Extent(i, n) IN
    Begins(i) /\ (file.events[i].kind = "empty" \/ k = n \/ Ends(k + 1))

Elements(i, n, name) ==
    SelectSeq(SubSeq(file.events, i + 1, Extent(i, n)),
              LAMBDA e : e.kind = "empty" /\ e.name = name)

FeatureAt(i, n) ==
    LET attrs == file.events[i].attrs
        tags == SelectSeq(Elements(i, n, "tag"), LAMBDA e : ParseTag(e.attrs) # None)
        members == SelectSeq(Elements(i, n, "member"), LAMBDA e : ParseMember(e.attrs) # None)
        nds == SelectSeq(Elements(i, n, "nd"), LAMBDA e : ParseNd(e.attrs) # None)
        AllTags == [key \in {tags[j].attrs.k : j \in DOMAIN tags} |->
                      LET j == CHOOSE j \in DOMAIN tags :
                                  /\ tags[j].attrs.k = key
                                  /\ \A l \in j + 1 .. Len(tags) : tags[l].attrs.k # key
                      IN  tags[j].attrs.v]
    IN  CASE file.events[i].name = "node" -> ParseNode(attrs)[1]
          [] file.events[i].name = "way" ->
                WayFeature(attrs.id[1], [j \in DOMAIN nds |-> nds[j].attrs.ref[1]], AllTags)
          [] OTHER ->
                RelationFeature(attrs.id[1], [j \in DOMAIN members |-> ParseMember(members[j].attrs)[1]],
                                AllTags)

\* The features of the first n events.
Meaning(n) ==
    LET begins == SelectSeq([i \in 1 .. n |-> i], LAMBDA i : Returned(i, n))
    IN  [j \in DOMAIN begins |-> FeatureAt(begins[j], n)]

\* Nothing of one element gets into the feature of another, whatever elements
\* are not valid, nested or misplaced, or cut off.
XmlElementsStayApart == IsXml /\ outcome = "ok" => delivered = Meaning(pos)

---------------------------------------------------------------------------
(* Cut files *)

\* A PBF file that was cut is either not read to its end, or it loses whole
\* blobs only.
PbfCutsLoseOnlyBlobs ==
    IsPbf =>
        LET read == FlattenSeq([i \in 1 .. blob |-> file.blobs[i].says]) IN
        /\ IsPrefix(delivered, read)
        /\ outcome = "ok" => delivered = read

\* Nothing is delivered of a file that has not said before that it can be read.
HeadersComeFirst ==
    IsPbf /\ delivered # << >> =>
        /\ \E i \in 1 .. blob - 1 : file.blobs[i].type = "OSMHeader"
        /\ \A i \in 1 .. blob : file.blobs[i].type = "OSMHeader" => file.blobs[i].requires \subseteq Supported

\* Every file comes to an end.
Terminates == <>(outcome # "reading")

=============================================================================
