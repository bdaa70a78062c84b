----------------------------- MODULE MCCClient -----------------------------
(***************************************************************************)
(* A client that knows a node and a clone of it, whose ids are addresses   *)
(* as well, and has two profiles of its own, one of them with nothing in   *)
(* its arrays.                                                             *)
(***************************************************************************)
EXTENDS CClient

MCNodes == (101 :> [osm_id |-> 101, pos |-> <<1, 1>>]) @@ (102 :> [osm_id |-> 101, pos |-> <<1, 1>>])

\* From the clone to the node, and from that to itself.
MCEdges == {[from |-> 102, to |-> 101, cost |-> 1], [from |-> 101, to |-> 101, cost |-> 1]}

MCClients ==
    {{"file", "load"}, {"file", "memory"}, {"memory", "search"}, {"memory", "tree", "iterate"},
     {"search", "tree", "iterate"}}

MCCustomProfiles ==
    201 :> [name |-> "hiking",
            penalties |-> <<[key |-> "highway", value |-> "path", penalty |-> 100],
                            [key |-> "route", value |-> "ferry", penalty |-> 300]>>,
            access |-> <<"access", "foot", "hiking">>,
            disallow_motorroad |-> TRUE,
            disable_restrictions |-> FALSE]
    @@ 202 :> [name |-> "nothing", penalties |-> << >>, access |-> << >>,
               disallow_motorroad |-> FALSE, disable_restrictions |-> TRUE]

=============================================================================
