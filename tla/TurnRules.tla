------------------------------ MODULE TurnRules ------------------------------
(***************************************************************************)
(* What turn restrictions mean: the reference for what GraphBuilder does   *)
(* with them.  A rule is a record [kind, nodes]; it is about walks, and    *)
(* knows nothing of clones.                                                *)
(***************************************************************************)
EXTENDS Graph

\* The walks of up to n edges that start at a canonical node, each with the
\* node of the graph where it ends.
Walks(g, n) ==
    LET Steps[k \in 0 .. n] ==
            IF k = 0
            THEN {[nodes |-> <<id>>, at |-> id] : id \in {i \in DOMAIN g : Canonical(g, i)}}
            ELSE UNION {{[nodes |-> Append(w.nodes, OsmId(g, e.to)), at |-> e.to] :
                            e \in {f \in ToSet(GetEdges(g, w.at)) : HasNode(g, f.to)}} :
                        w \in Steps[k - 1]}
    IN  UNION {Steps[k] : k \in 0 .. n}

\* The same as sequences of OSM nodes, which is all a traveller sees.
OsmWalks(g, n) == {w.nodes : w \in Walks(g, n)}

Occurs(nodes, walk, i) ==
    \A j \in DOMAIN nodes : i + j - 1 \in DOMAIN walk /\ walk[i + j - 1] = nodes[j]

\* "The sequence of nodes indicated by this restriction is prohibited."
Prohibits(nodes, walk) == \E i \in DOMAIN walk : Occurs(nodes, walk, i)

\* "The sequence of nodes must be followed after using an edge identified by
\* the first two nodes."
Deviates(nodes, walk) ==
    \E i \in DOMAIN walk :
        /\ Occurs(<<nodes[1], nodes[2]>>, walk, i)
        /\ \E j \in DOMAIN nodes : i + j - 1 \in DOMAIN walk /\ walk[i + j - 1] # nodes[j]

Lawful(rules, walk) ==
    \A r \in rules : ~ (IF r.kind = "mandatory" THEN Deviates(r.nodes, walk)
                                                ELSE Prohibits(r.nodes, walk))

LawfulWalks(g, rules, n) == {w \in OsmWalks(g, n) : Lawful(rules, w)}

=============================================================================
