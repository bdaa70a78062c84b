---------------------------- MODULE GraphBuilder ----------------------------
(***************************************************************************)
(* GraphBuilder of src/src/osm/reader/graph_builder.rs: OSM features, one  *)
(* at a time, become a routing graph.                                      *)
(*                                                                         *)
(* A session is what the owner of one graph does with it: a sequence of    *)
(* loads [op, bbox, features, fails] and deletions [op, id].  A load makes *)
(* a new builder, which reads all its features and cleans up, unless the   *)
(* reader fails after them.  A builder has the graph for itself (&mut), so *)
(* each feature is one step.                                               *)
(*                                                                         *)
(* A feature is a node [type, id, pos], with pos = <<lat, lon>>, a way     *)
(* [type, id, nodes, tags] or a relation [type, tags, members]; Profile    *)
(* says what the tags mean.  As penalties, costs are in hundredths.        *)
(***************************************************************************)
EXTENDS TurnRestrictions, Profile

CONSTANTS
    profile,      \* options.profile
    MAX_NODE_ID,  \* ids from here on are those of clones
    Sessions,     \* the sessions to consider
    Distance      \* earth_distance of two positions, Distance[p, q]

ASSUME MaxNodeIdAssumption == MAX_NODE_ID \in Nat \ {0}

\* The positions that there is a distance of.
Positions == {p[1] : p \in DOMAIN Distance}

\* It is as far there as back: the haversine formula is symmetric.
ASSUME DistanceAssumption ==
    /\ Distance \in [Positions \X Positions -> Nat]
    /\ \A p, q \in Positions : Distance[p, q] = Distance[q, p]

\* What the owner ever does, and what is ever read.
Operations == UNION {ToSet(s) : s \in Sessions}
Features == UNION {UNION ToSet(o.features) : o \in {p \in Operations : p.op = "load"}}

\* Sessions, and the features of model.rs, are of the types that they have there.
ASSUME SessionsAssumption ==
    /\ \A s \in Sessions : s \in Seq(Operations)
    /\ \A o \in Operations : o.op = "load" => o.features \in Seq(SUBSET Features)
    /\ \A f \in Features :
          /\ f.type = "node" => f.id \in Int /\ f.pos \in Positions
          /\ f.type = "way" => f.nodes \in Seq(Int)
          /\ f.type = "relation" =>
                /\ f.members \in Seq(ToSet(f.members))
                /\ \A m \in ToSet(f.members) : m.type = "node" => m.ref \in Int

VARIABLES
    session,      \* what is still to be done
    pc,           \* "idle" between loads, else "loading"
    graph,
    bbox,         \* options.bbox
    features,     \* what the reader has yet to return: a sequence of sets, each
                  \* of which it returns one member of
    fails,        \* whether it fails then
    phantom_node_id_counter,
    unused_nodes,
    way_nodes

reader == <<session, pc, bbox, fails>>
builder == <<phantom_node_id_counter, unused_nodes, way_nodes>>
vars == <<reader, graph, features, builder>>

NoBbox == <<0, 0, 0, 0>>

---------------------------------------------------------------------------
\* A box is left, bottom, right, top; one that is empty is ignored.
IsBboxApplicable(box) == box # NoBbox /\ box[1] < box[3] /\ box[2] < box[4]

InBbox(pos) ==
    IsBboxApplicable(bbox) =>
        pos[1] \in bbox[2] .. bbox[4] /\ pos[2] \in bbox[1] .. bbox[3]

ValidNodeId(id) == id # 0 /\ id < MAX_NODE_ID

\* The nodes of a way that exist: others may be outside the bounding box.
WayNodes(g, w) == Kept(w.nodes, DOMAIN g)

\* A penalty is finite and not below 1: a way with any other is of no use.
Routable(g, w) ==
    /\ WayPenalty(profile, w.tags) \in 100 .. INFINITY - 1
    /\ Len(w.nodes) >= 2
    /\ Len(WayNodes(g, w)) >= 2

\* Variant: the penalty is divided by.
WayCostDivided(g, w, a, b) ==
    (10000 * Distance[Pos(g, a), Pos(g, b)]) \div WayPenalty(profile, w.tags)

WayCost(g, w, a, b) == WayPenalty(profile, w.tags) * Distance[Pos(g, a), Pos(g, b)]

\* The edges between the i-th node of a way and the next, in the directions allowed.
Linked(g, w, h, i) ==
    LET way == WayDirection(profile, w.tags)
        left == WayNodes(g, w)[i]
        right == WayNodes(g, w)[i + 1]
        cost == WayCost(g, w, left, right)
        ahead == IF way.forward THEN SetEdge(h, left, [to |-> right, cost |-> cost]) ELSE h
    IN  IF way.backward THEN SetEdge(ahead, right, [to |-> left, cost |-> cost]) ELSE ahead

CreateEdges(g, w) ==
    LET linked[n \in 0 .. Len(WayNodes(g, w)) - 1] ==
            IF n = 0 THEN g ELSE Linked(g, w, linked[n - 1], n)
    IN  linked[Len(WayNodes(g, w)) - 1]

---------------------------------------------------------------------------
Init ==
    /\ session \in Sessions
    /\ pc = "idle"
    /\ graph = EmptyGraph
    /\ bbox = NoBbox
    /\ features = << >>
    /\ fails = FALSE
    /\ phantom_node_id_counter = MAX_NODE_ID
    /\ unused_nodes = {}
    /\ way_nodes = [id \in {} |-> << >>]

Do(op) ==
    /\ pc = "idle"
    /\ session # << >>
    /\ Head(session).op = op
    /\ session' = Tail(session)

\* Variant: clones are numbered from MAX_NODE_ID in every load.
FirstPhantomIsFixed(g) == MAX_NODE_ID

\* The last id in use that a clone may have.
FirstPhantom(g) == Max(DOMAIN g \cup {MAX_NODE_ID})

\* GraphBuilder::new: clones are numbered after those of earlier loads.
Load ==
    /\ Do("load")
    /\ pc' = "loading"
    /\ bbox' = Head(session).bbox
    /\ features' = Head(session).features
    /\ fails' = Head(session).fails
    /\ phantom_node_id_counter' = FirstPhantom(graph)
    /\ unused_nodes' = {}
    /\ way_nodes' = [id \in {} |-> << >>]
    /\ UNCHANGED graph

\* Graph::delete_node, called by the owner of the graph.
Delete ==
    /\ Do("delete")
    /\ graph' = DeleteNode(graph, Head(session).id)
    /\ UNCHANGED <<pc, bbox, fails, features, builder>>

\* What the reader may return next.
Read(type) ==
    IF pc = "loading" /\ features # << >> THEN {f \in Head(features) : f.type = type} ELSE {}

NextFeature == features' = Tail(features) /\ UNCHANGED reader

\* Variant: a node that exists is overwritten.
AcceptsNodeAgain(n) == ValidNodeId(n.id) /\ InBbox(n.pos)

AcceptsNode(n) == ~ HasNode(graph, n.id) /\ ValidNodeId(n.id) /\ InBbox(n.pos)

\* Variant: the node is not noted as unused.
AddNodeUntracked(n) ==
    /\ NextFeature
    /\ AcceptsNode(n)
    /\ graph' = SetNode(graph, n.id, n.id, n.pos)
    /\ UNCHANGED builder

\* The first to be added stays: a node that exists is ignored.
AddNode(n) ==
    /\ NextFeature
    /\ AcceptsNode(n)
    /\ graph' = SetNode(graph, n.id, n.id, n.pos)
    /\ unused_nodes' = unused_nodes \cup {n.id}
    /\ UNCHANGED <<phantom_node_id_counter, way_nodes>>

IgnoreNode(n) ==
    /\ NextFeature
    /\ ~ AcceptsNode(n)
    /\ UNCHANGED <<graph, builder>>

\* Variant: only the ends of a way count as used.
UsedEnds(w) == {WayNodes(graph, w)[1], Last(WayNodes(graph, w))}

Used(w) == ToSet(WayNodes(graph, w))

AddWay(w) ==
    /\ NextFeature
    /\ Routable(graph, w)
    /\ graph' = CreateEdges(graph, w)
    /\ unused_nodes' = unused_nodes \ Used(w)
    /\ way_nodes' = [id \in DOMAIN way_nodes \cup {w.id} |->
                        IF id = w.id THEN WayNodes(graph, w) ELSE way_nodes[id]]
    /\ UNCHANGED phantom_node_id_counter

IgnoreWay(w) ==
    /\ NextFeature
    /\ ~ Routable(graph, w)
    /\ UNCHANGED <<graph, builder>>

KindOf(r) == RestrictionKind(profile, r.tags)

\* The nodes of a relation; << >> unless it is a restriction that applies.
NodesOf(r) ==
    IF KindOf(r) = "inapplicable" THEN << >> ELSE RestrictionNodes(graph, way_nodes, r)

Change(r) == RestrictionChange(graph, phantom_node_id_counter, NodesOf(r), KindOf(r))

AddRelation(r) ==
    /\ NextFeature
    /\ NodesOf(r) # << >>
    /\ \E removals \in SetToSeqs(Change(r).edges_to_remove),
          additions \in SetToSeqs(Change(r).edges_to_add) :
          graph' = Applied(graph, Change(r), removals, additions)
    /\ phantom_node_id_counter' = Change(r).phantom_node_id_counter
    /\ UNCHANGED <<unused_nodes, way_nodes>>

IgnoreRelation(r) ==
    /\ NextFeature
    /\ NodesOf(r) = << >>
    /\ UNCHANGED <<graph, builder>>

\* Every node that is on no way goes when the reader is done ...
Cleanup ==
    /\ pc = "loading"
    /\ features = << >>
    /\ ~ fails
    /\ graph' = [id \in DOMAIN graph \ unused_nodes |-> graph[id]]
    /\ pc' = "idle"
    /\ UNCHANGED <<session, bbox, fails, features, builder>>

\* ... but stays if it fails: the builder is dropped as it is.
Fail ==
    /\ pc = "loading"
    /\ features = << >>
    /\ fails
    /\ pc' = "idle"
    /\ UNCHANGED <<session, graph, bbox, fails, features, builder>>

Done == pc = "idle" /\ session = << >> /\ UNCHANGED vars

Next ==
    \/ Load \/ Delete
    \/ \E n \in Read("node") : AddNode(n) \/ IgnoreNode(n)
    \/ \E w \in Read("way") : AddWay(w) \/ IgnoreWay(w)
    \/ \E r \in Read("relation") : AddRelation(r) \/ IgnoreRelation(r)
    \/ Cleanup \/ Fail
    \/ Done

Spec == Init /\ [][Next]_vars

---------------------------------------------------------------------------
(* Properties *)

\* Every clone has a canonical node at the same place: restrictions, cleanups
\* and further loads never take it away, so to_id can always name it.
ClonesHaveCanonicals ==
    \A id \in DOMAIN graph :
        LET osm_id == OsmId(graph, id) IN
        Canonical(graph, osm_id) /\ Pos(graph, id) = Pos(graph, osm_id)

\* Edge: "cost must be greater than the crow-flies distance between the two
\* nodes".  No edge is shorter than the distance, whatever was cloned,
\* relinked and loaded again; find_route relies on it.
EdgesCoverDistance ==
    \A id \in DOMAIN graph : \A e \in ToSet(GetEdges(graph, id)) :
        HasNode(graph, e.to) => e.cost >= 100 * Distance[Pos(graph, id), Pos(graph, e.to)]

\* No step, of this load or a later one, turns a node into another: a clone
\* never takes an id that is in use.
NodesStay ==
    [][\A id \in DOMAIN graph \cap DOMAIN graph' :
          OsmId(graph', id) = OsmId(graph, id) /\ Pos(graph', id) = Pos(graph, id)]_vars

=============================================================================
