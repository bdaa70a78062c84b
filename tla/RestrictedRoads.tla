-------------------------- MODULE RestrictedRoads --------------------------
(***************************************************************************)
(* GraphBuilder with history variables, for saying what its graph stands   *)
(* for: the roads, a graph of the same nodes and ways but no restrictions; *)
(* the rules, the turn restrictions given so far, in order; the number of  *)
(* loads begun; the nodes that failed loads have left behind; and the      *)
(* nodes that were deleted.                                                *)
(*                                                                         *)
(* A relation carries one more field here: meant, the nodes of the turn    *)
(* that its members describe, << >> if they describe none.                 *)
(***************************************************************************)
EXTENDS GraphBuilder, TurnRules

CONSTANT WalkLength  \* the longest walks to look at, in edges

ASSUME WalkLengthAssumption == WalkLength \in Nat

\* A turn takes three nodes or more, the OSM nodes that it leads through.
ASSUME TurnsAssumption ==
    \A f \in Features :
        f.type = "relation" /\ f.meant # << >> => f.meant \in Seq(Int) /\ Len(f.meant) >= 3

VARIABLES roads, rules, loads, abandoned, deleted

history == <<roads, rules, loads, abandoned, deleted>>
rvars == <<vars, history>>

\* A rule stands from when it is given, unless it is a mandatory one that the
\* roads and the rules so far do not let anyone follow.
Given(r) ==
    IF KindOf(r) = "inapplicable" \/ r.meant = << >> THEN << >>
    ELSE IF /\ KindOf(r) = "mandatory"
            /\ r.meant \notin LawfulWalks(roads, ToSet(rules), Len(r.meant) - 1)
         THEN << >>
         ELSE <<[kind |-> KindOf(r), nodes |-> r.meant]>>

RInit ==
    Init /\ roads = EmptyGraph /\ rules = << >> /\ loads = 0 /\ abandoned = {} /\ deleted = {}

RLoad == Load /\ loads' = loads + 1 /\ UNCHANGED <<roads, rules, abandoned, deleted>>

RNode ==
    \E n \in Read("node") :
        \/ /\ AddNode(n)
           /\ roads' = SetNode(roads, n.id, n.id, n.pos)
           /\ UNCHANGED <<rules, loads, abandoned, deleted>>
        \/ IgnoreNode(n) /\ UNCHANGED history

RWay ==
    \E w \in Read("way") :
        \/ AddWay(w) /\ roads' = CreateEdges(roads, w) /\ UNCHANGED <<rules, loads, abandoned, deleted>>
        \/ IgnoreWay(w) /\ UNCHANGED history

RRelation ==
    \E r \in Read("relation") :
        /\ AddRelation(r) \/ IgnoreRelation(r)
        /\ rules' = rules \o Given(r)
        /\ UNCHANGED <<roads, loads, abandoned, deleted>>

RCleanup ==
    /\ Cleanup
    /\ roads' = [id \in DOMAIN roads \ unused_nodes |-> roads[id]]
    /\ UNCHANGED <<rules, loads, abandoned, deleted>>

RFail ==
    /\ Fail
    /\ abandoned' = abandoned \cup unused_nodes
    /\ UNCHANGED <<roads, rules, loads, deleted>>

RDelete ==
    /\ Delete
    /\ roads' = DeleteNode(roads, Head(session).id)
    /\ deleted' = deleted \cup {Head(session).id}
    /\ UNCHANGED <<rules, loads, abandoned>>

RNext ==
    \/ RLoad \/ RNode \/ RWay \/ RRelation \/ RCleanup \/ RFail \/ RDelete
    \/ Done /\ UNCHANGED history

RSpec == RInit /\ [][RNext]_rvars

---------------------------------------------------------------------------
(* Properties *)

GraphWalks == OsmWalks(graph, WalkLength)
RoadWalks == LawfulWalks(roads, ToSet(rules), WalkLength)

\* No rule starts at a node that an earlier rule goes through, or itself comes
\* back to, and no load brings edges back that an earlier one relinked.
InOrder ==
    /\ loads = 1
    /\ \A i, j \in DOMAIN rules :
          i <= j => rules[j].nodes[1] \notin {rules[i].nodes[k] : k \in 2 .. Len(rules[i].nodes) - 1}

\* Between loads: TurnRestriction, "The sequence of nodes indicated by this restriction is
\* prohibited", "must be followed".  No walk through the graph breaks a rule,
\* whichever clones it goes through.
RestrictionsHold == pc = "idle" => GraphWalks \subseteq RoadWalks

\* A rule made stricter, for one turn at a time: the last turn of a prohibitory
\* one, whichever way one comes to it, or any turn of a mandatory one.
TurnsOf(r) ==
    LET n == Len(r.nodes) IN
    {[kind |-> r.kind, nodes |-> SubSeq(r.nodes, i, i + 2)] :
        i \in IF r.kind = "prohibitory" THEN {n - 2} ELSE 1 .. n - 2}

\* After a load of at most two restrictions in order, a walk is lost only to a
\* rule it breaks.  This is not so for three: after "no 2-3-2" and "no 1-2-5",
\* "no 1-2-3-4" is applied to a clone of 3 that others use, and 5-2-3-4 is lost
\* as well.  But a walk that is lost then makes a turn of some rule, so that
\* rules with one via node take no other walk with them.
OnlyRestrictionsBite ==
    pc = "idle" /\ InOrder =>
        /\ Len(rules) <= 2 => RoadWalks \subseteq GraphWalks
        /\ LawfulWalks(roads, UNION {TurnsOf(r) : r \in ToSet(rules)}, WalkLength) \subseteq GraphWalks

\* When they are given in order, restrictions hold: no way round one is left
\* open by the clones and edges of another that shares nodes with it.
RestrictionsInOrderHold == InOrder => RestrictionsHold

\* An edge costs what the road costs that it stands for, whichever of its
\* ends are clones, so a detour through clones is never cheaper or dearer.
CostsAreThoseOfRoads ==
    \A id \in DOMAIN graph : \A e \in ToSet(GetEdges(graph, id)) :
        LET from == OsmId(graph, id)
            to == OsmId(graph, e.to)
        IN  HasNode(graph, e.to) =>
                HasEdge(roads, from, to) /\ GetEdge(roads, from, to) = e.cost

\* No edge dangles unless somebody deleted its end, and no node has two edges
\* to another: what is relinked, cleaned up or loaded again leaves no trace.
OnlyDeletionsLeaveDanglingEdges ==
    \A id \in DOMAIN graph :
        LET edges == GetEdges(graph, id) IN
        /\ \A i \in DOMAIN edges : HasNode(graph, edges[i].to) \/ edges[i].to \in deleted
        /\ \A i, j \in DOMAIN edges : edges[i].to = edges[j].to => i = j

\* Between loads every node is on a way, except what a failed load left: the
\* cleanup takes all of its nodes that are not, and no restriction undoes that.
OnlyFailuresLeaveOrphans ==
    pc = "idle" =>
        \A id \in DOMAIN roads \ abandoned :
            /\ HasNode(graph, id)
            /\ \E other \in DOMAIN roads : HasEdge(roads, id, other) \/ HasEdge(roads, other, id)

=============================================================================
