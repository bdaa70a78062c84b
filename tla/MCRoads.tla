------------------------------ MODULE MCRoads ------------------------------
(***************************************************************************)
(* Sessions for RestrictedRoads, on a small network of two-way streets:    *)
(*                                                                         *)
(*          5                                                              *)
(*          |                                                              *)
(*  6 - 1 - 2 - 3 - 4          the ways 6-1-2, 3-2, 3-4 and 5-2            *)
(*                                                                         *)
(* A way's id is made of the digits of its ends at crossings.              *)
(***************************************************************************)
EXTENDS RestrictedRoads

Apart(a, b) == IF a < b THEN b - a ELSE a - b
Places == (0 .. 1) \X (0 .. 4)
MCDistance == [p \in Places \X Places |-> Apart(p[1][1], p[2][1]) + Apart(p[1][2], p[2][2])]

Node(id, lat, lon) == [type |-> "node", id |-> id, pos |-> <<lat, lon>>]
Way(id, nodes, tags) == [type |-> "way", id |-> id, nodes |-> nodes, tags |-> tags]
TwoWay(id, nodes) == Way(id, nodes, [highway |-> "trunk"])
Member(type, ref, role) == [type |-> type, ref |-> ref, role |-> role]
Relation(kind, meant, members) ==
    [type |-> "relation", members |-> members, meant |-> meant,
     tags |-> [type |-> "restriction",
               restriction |-> CASE kind = "prohibitory" -> <<"no", "left_turn">>
                                 [] kind = "mandatory" -> <<"only", "straight_on">>
                                 [] OTHER -> <<"no", "entry">>]]

\* A restriction along nodes, with a via node or else with via ways.
WayBetween(a, b) == IF a < b THEN 10 * a + b ELSE 10 * b + a
Restriction(kind, nodes) ==
    LET n == Len(nodes)
        Street(i) == WayBetween(nodes[i], nodes[i + 1])
        vias == IF n = 3 THEN <<Member("node", nodes[2], "via")>>
                ELSE [i \in 1 .. n - 3 |-> Member("way", Street(i + 1), "via")]
    IN  Relation(kind, nodes, <<Member("way", Street(n - 1), "to")>> \o vias
                                  \o <<Member("way", Street(1), "from")>>)

Each(seq) == [i \in DOMAIN seq |-> {seq[i]}]
Network ==
    Each(<<Node(1, 0, 1), Node(2, 0, 2), Node(3, 0, 3), Node(4, 0, 4), Node(5, 1, 2), Node(6, 0, 0),
           TwoWay(12, <<6, 1, 2>>), Way(23, <<3, 2>>, [highway |-> "secondary"]),
           TwoWay(34, <<3, 4>>), TwoWay(25, <<5, 2>>)>>)

File(stream) == [op |-> "load", bbox |-> NoBbox, fails |-> FALSE, features |-> stream]

Deletion(node) == [op |-> "delete", id |-> node]

---------------------------------------------------------------------------
(* Two restrictions of either kind, and relations that are none *)

Turns ==
    {<<1, 2, 3>>, <<1, 2, 5>>, <<3, 2, 5>>, <<5, 2, 5>>, <<3, 2, 3>>, <<2, 3, 4>>, <<4, 3, 2>>,
     <<2, 3, 2>>, <<1, 2, 3, 4>>, <<5, 2, 3, 4>>, <<4, 3, 2, 1>>, <<4, 3, 2, 5>>}
Restrictions == {Restriction(kind, turn) : kind \in {"prohibitory", "mandatory"}, turn \in Turns}

From == Member("way", 12, "from")
Via == Member("node", 2, "via")
To == Member("way", 23, "to")
NoRestrictions ==
    {Relation("inapplicable", << >>, <<From, Via, To>>)} \cup
    {Relation("prohibitory", << >>, members) :
        members \in {<<From, Via>>, <<Via, To>>, <<From, From, Via, To>>, <<From, Via, To, To>>,
                     <<From, Member("node", 9, "via"), To>>, <<From, Member("node", 3, "via"), To>>,
                     <<From, Via, Member("way", 99, "to")>>, <<From, Via, Member("node", 3, "to")>>,
                     <<From, Via, Member("way", 34, "to")>>}}

PairSessions ==
    {<<File(Network \o <<Restrictions \cup NoRestrictions, Restrictions>>)>>}

---------------------------------------------------------------------------
(* Three restrictions: any that prohibit, and some of either kind that meet *)

Prohibitions == {Restriction("prohibitory", turn) : turn \in Turns}
Meeting == {Restriction(kind, turn) : kind \in {"prohibitory", "mandatory"},
                                      turn \in {<<1, 2, 5>>, <<2, 3, 2>>, <<1, 2, 3, 4>>, <<5, 2, 3, 4>>}}

TripleSessions ==
    {<<File(Network \o <<some, some, some>>)>> : some \in {Prohibitions, Meeting}}

---------------------------------------------------------------------------
(* Files that overlap, are cut by a box, are odd, or cannot be read to the end *)

OneWay(id, nodes) == Way(id, nodes, [highway |-> "trunk", oneway |-> "-1"])
Unroutable(id, nodes) == Way(id, nodes, [highway |-> "trunk", motor_vehicle |-> "no"])

Town(box, n, cut) ==
    [op |-> "load", bbox |-> box, fails |-> cut,
     features |-> SubSeq(
        <<{Node(6, 0, 0)}, {Node(1, 0, 1)}, {Node(2, 0, 2)}, {Node(3, 0, 3), Node(3, 1, 4)},
          {Node(5, 1, 2), Node(0, 1, 2), Node(100, 1, 2), Node(2, 1, 2)},
          {TwoWay(12, <<6, 1, 9, 2>>)},
          {TwoWay(23, <<2, 3>>), OneWay(23, <<2, 3>>), TwoWay(23, <<3, 3, 2>>), Unroutable(23, <<2, 3>>),
           TwoWay(23, <<2>>), TwoWay(23, <<2, 9>>)},
          {Restriction(kind, turn) : kind \in {"prohibitory", "mandatory"},
                                     turn \in {<<1, 2, 3>>, <<3, 2, 1>>}}>>, 1, n)]
Suburb ==
    File(<<{Node(3, 0, 3)}, {Node(4, 0, 4)}, {TwoWay(23, <<3, 2>>)}, {TwoWay(34, <<3, 4>>)},
           {Restriction("prohibitory", <<2, 3, 4>>), Restriction("mandatory", <<4, 3, 2>>)}>>)

Boxes == {NoBbox, <<1, 0, 2, 1>>, <<2, 0, 1, 1>>}
LoadSessions ==
    {<<Town(box, 8, FALSE), Deletion(77), Suburb, Deletion(101)>> : box \in Boxes}
        \cup {<<Town(NoBbox, n, TRUE), Suburb, Town(NoBbox, 8, FALSE)>> : n \in {4, 7, 8}}

\* The way 2-3 becomes a dearer one before anything is cloned.
Retagged ==
    <<Town(NoBbox, 7, TRUE),
      File(<<{Node(4, 0, 4)}, {TwoWay(34, <<3, 4>>)}, {Way(23, <<3, 2>>, [highway |-> "secondary"])},
             {Restriction("prohibitory", <<2, 3, 4>>), Restriction("mandatory", <<4, 3, 2>>)}>>)>>

MCSessions == PairSessions \cup TripleSessions \cup LoadSessions \cup {Retagged}

---------------------------------------------------------------------------
(* Where the code departs from what is said of it *)

No(turn) == {Restriction("prohibitory", turn)}

\* "no 1-2-5" clones 2, and its clone keeps the edge to 3; then "no 2-3-4"
\* relinks the edge of 2 itself only, and 1-2'-3-4 stays possible.
OutOfOrderSessions == {<<File(Network \o <<No(<<1, 2, 5>>), No(<<2, 3, 4>>)>>)>>}

=============================================================================
