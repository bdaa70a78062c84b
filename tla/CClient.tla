------------------------------ MODULE CClient ------------------------------
(***************************************************************************)
(* The functions of src/src/c.rs, called in any order by one C client that *)
(* keeps to their documentation: it deletes what it was given, once, and   *)
(* does not change a graph while it iterates over it.                      *)
(*                                                                         *)
(* Pointers are numbers, NULL is 0, and freed memory may be handed out     *)
(* again.  Without a graph or an iterator, calls change nothing and return *)
(* what stands for nothing; those steps are left out.  The words of the    *)
(* union in a result mean what its type_ says, and node ids are numbers    *)
(* as well.                                                                *)
(*                                                                         *)
(* The client may die at any time; the file that it writes graphs to is    *)
(* still there when it is started again.                                   *)
(***************************************************************************)
EXTENDS BinaryFormat, Profile

CONSTANTS
    Addresses,       \* of memory
    MaxAllocated,    \* how much of it is in use at once
    Nodes,           \* the nodes the client knows: id -> [osm_id, pos]
    Edges,           \* the edges it gives to a graph: [from, to, cost]
    Clients,         \* which groups of functions clients use, besides those of graphs
    CustomProfiles,  \* the COsmProfiles of the client: pointer -> profile
    U32              \* the number of values of a u32

VARIABLES
    uses,        \* what this client uses
    heap,        \* what is allocated: address -> object
    graph,       \* *mut Graph
    iterator,    \* *mut CGraphIterator
    route,       \* CRouteResult
    serialized,  \* CSerializedGraph
    kd_tree,     \* *mut KDTree
    file,        \* rows of the file, if it exists
    seen,        \* ids the iterator has returned
    saved,       \* the graph that the file has, for all the client knows
    options,     \* osm::Options of the call that was just made
    status       \* "running", "undefined" or "aborted"

handles == <<graph, iterator, route, serialized, kd_tree>>
vars == <<uses, heap, handles, file, seen, saved, options, status>>

NULL == 0
None == << >>

ASSUME AddressesAssumption == NULL \notin Addresses

\* No node has the id 0, and an id is a number of 64 bits.
ASSUME NodesAssumption ==
    /\ IsFiniteSet(DOMAIN Nodes) /\ DOMAIN Nodes \subseteq Int \ {0}
    /\ \A id \in DOMAIN Nodes : Nodes[id].pos = <<Nodes[id].pos[1], Nodes[id].pos[2]>>

ASSUME EdgesAssumption == \A e \in Edges : {e.from, e.to} \subseteq DOMAIN Nodes

\* Where a Vec without elements is said to be.
DANGLING == 8

NoRoute == [type_ |-> "Ok", words |-> <<NULL, 0, 0>>]
NoContent == [content |-> NULL, len |-> 0, capacity |-> 0]

---------------------------------------------------------------------------
(* Memory *)

Allocated(a, object) ==
    /\ a \in Addresses \ DOMAIN heap
    /\ \A b \in Addresses \ DOMAIN heap : a <= b
    /\ Cardinality(DOMAIN heap) < MaxAllocated
    /\ heap' = [b \in DOMAIN heap \cup {a} |-> IF b = a THEN object ELSE heap[b]]

Box(value) == [type |-> "Box", value |-> value]
Vec(values, capacity) == [type |-> "Vec", value |-> values, capacity |-> capacity]

\* After shrink_to_fit an allocator may still have given more than was asked.
Capacities(values) == {Len(values), Len(values) + 1}

\* Box::from_raw and Vec::from_raw_parts take back what was allocated, with
\* the capacity it was allocated with, or the behaviour is undefined.
Dropped(ptr, type, capacity) ==
    IF ptr \in DOMAIN heap /\ heap[ptr].type = type /\ (type = "Vec" => heap[ptr].capacity = capacity)
    THEN heap' = [a \in DOMAIN heap \ {ptr} |-> heap[a]] /\ UNCHANGED status
    ELSE status' = "undefined" /\ UNCHANGED heap

DropBox(ptr) ==
    IF ptr = NULL THEN UNCHANGED <<heap, status>> ELSE Dropped(ptr, "Box", 0)

\* A Vec of no capacity has no memory, whatever its pointer.
LeakedVec(ptr, values, capacity) ==
    IF capacity = 0 THEN ptr = DANGLING /\ UNCHANGED heap ELSE Allocated(ptr, Vec(values, capacity))

DropVec(ptr, capacity) ==
    IF ptr = NULL \/ capacity = 0 THEN UNCHANGED <<heap, status>> ELSE Dropped(ptr, "Vec", capacity)

TheGraph == heap[graph].value

Changes(g) ==
    /\ heap' = [heap EXCEPT ![graph].value = g]
    /\ UNCHANGED <<handles, file, seen, saved, status>>
    /\ options' = None

---------------------------------------------------------------------------
(* Graphs *)

GraphNew ==
    /\ graph = NULL
    /\ \E a \in Addresses : Allocated(a, Box(EmptyGraph)) /\ graph' = a
    /\ options' = None
    /\ UNCHANGED <<iterator, route, serialized, kd_tree, file, seen, saved, status>>

GraphDelete ==
    /\ iterator = NULL
    /\ DropBox(graph)
    /\ graph' = NULL
    /\ options' = None
    /\ UNCHANGED <<iterator, route, serialized, kd_tree, file, seen, saved>>

\* With a pointer for an iterator over the nodes that are there.
GraphGetNodes ==
    /\ iterator = NULL
    /\ graph # NULL
    /\ \E a \in Addresses : Allocated(a, Box(InOrder(TheGraph))) /\ iterator' = a
    /\ seen' = << >>
    /\ options' = None
    /\ UNCHANGED <<graph, route, serialized, kd_tree, file, saved, status>>

\* Variant: the last node is taken for the end.
IteratorNextButLast ==
    /\ iterator # NULL
    /\ IF Len(heap[iterator].value) > 1
       THEN /\ seen' = Append(seen, Head(heap[iterator].value))
            /\ heap' = [heap EXCEPT ![iterator].value = Tail(@)]
       ELSE seen' = Append(seen, 0) /\ UNCHANGED heap
    /\ Len(seen) > 0 => seen[Len(seen)] # 0
    /\ options' = None
    /\ UNCHANGED <<handles, file, saved, status>>

\* The zero node comes at the end; nobody asks for another one.
IteratorNext ==
    /\ iterator # NULL
    /\ IF heap[iterator].value # << >>
       THEN /\ seen' = Append(seen, Head(heap[iterator].value))
            /\ heap' = [heap EXCEPT ![iterator].value = Tail(@)]
       ELSE seen' = Append(seen, 0) /\ UNCHANGED heap
    /\ Len(seen) > 0 => seen[Len(seen)] # 0
    /\ options' = None
    /\ UNCHANGED <<handles, file, saved, status>>

IteratorDelete ==
    /\ DropBox(iterator)
    /\ iterator' = NULL
    /\ seen' = << >>
    /\ options' = None
    /\ UNCHANGED <<graph, route, serialized, kd_tree, file, saved>>

\* When the client may change its graph.
MayChange == graph # NULL /\ iterator = NULL

GraphSetNode ==
    /\ MayChange
    /\ \E id \in DOMAIN Nodes :
          Changes(SetNode(TheGraph, id, Nodes[id].osm_id, Nodes[id].pos))

GraphDeleteNode ==
    /\ MayChange
    /\ \E id \in DOMAIN Nodes : Changes(DeleteNode(TheGraph, id))

GraphSetEdge ==
    /\ MayChange
    /\ \E e \in Edges : Changes(SetEdge(TheGraph, e.from, [to |-> e.to, cost |-> e.cost]))

GraphDeleteEdge ==
    /\ MayChange
    /\ \E from, to \in DOMAIN Nodes :
          Changes(DeleteEdge(TheGraph, from, to))

---------------------------------------------------------------------------
(* Searching and simplifying *)

RouteOk(ptr, n, capacity) == [type_ |-> "Ok", words |-> <<ptr, n, capacity>>]

\* The other words of the union have not been written to.
RouteInvalidReference(id, word) == [type_ |-> "InvalidReference", words |-> <<id, 0, word>>]
RouteEmpty(id, word) == [type_ |-> "StepLimitExceeded", words |-> <<id, 0, word>>]

\* find_route and find_route_without_turn_around return a route, or an empty
\* one, or an error.  A route of two nodes stands for all that are not empty.
\* Where a length or capacity does not fit a u32, CRouteResult::ok panics and
\* the process ends, as it may at any step (Restart).
FindRoute ==
    /\ route = NoRoute
    /\ graph # NULL
    /\ \E from, to \in DOMAIN Nodes, word \in {0, 2}, ptr \in Addresses \cup {DANGLING} :
       \/ /\ ~ Canonical(TheGraph, to) \/ ~ HasNode(TheGraph, from)
          /\ route' = RouteInvalidReference(IF Canonical(TheGraph, to) THEN from ELSE to, word)
          /\ UNCHANGED heap
       \/ /\ Canonical(TheGraph, to) /\ HasNode(TheGraph, from)
          /\ \/ route' = RouteEmpty(ptr, word) /\ UNCHANGED heap
             \/ LeakedVec(ptr, << >>, 0) /\ route' = RouteOk(ptr, 0, 0)
             \/ /\ from # to /\ HasEdge(TheGraph, from, to)
                /\ \E capacity \in Capacities(<<from, to>>) :
                      LeakedVec(ptr, <<from, to>>, capacity) /\ route' = RouteOk(ptr, 2, capacity)
    /\ options' = None
    /\ UNCHANGED <<graph, iterator, serialized, kd_tree, file, seen, saved, status>>

\* Variant: the type of the result is not asked.
RouteResultDeleteUntyped ==
    /\ DropVec(route.words[1], route.words[3])
    /\ route' = NoRoute
    /\ options' = None
    /\ UNCHANGED <<graph, iterator, serialized, kd_tree, file, seen, saved>>

\* Only a result that is Ok owns memory.
RouteResultDelete ==
    /\ IF route.type_ = "Ok" THEN DropVec(route.words[1], route.words[3]) ELSE UNCHANGED <<heap, status>>
    /\ route' = NoRoute
    /\ options' = None
    /\ UNCHANGED <<graph, iterator, serialized, kd_tree, file, seen, saved>>

\* A route is simplified in place, and only its length changes.
GraphSimplifyRoute ==
    /\ route.type_ = "Ok"
    /\ route.words[2] > 0
    /\ graph # NULL
    /\ \E n \in 1 .. route.words[2] : route' = [route EXCEPT !.words[2] = n]
    /\ options' = None
    /\ UNCHANGED <<heap, graph, iterator, serialized, kd_tree, file, seen, saved, status>>

\* Variant: the tree of a graph without canonical nodes is not returned.
KdTreeNewUnseen ==
    /\ kd_tree = NULL
    /\ graph # NULL
    /\ \E a \in Addresses :
          LET canonical == {id \in DOMAIN TheGraph : Canonical(TheGraph, id)} IN
          Allocated(a, Box(canonical)) /\ kd_tree' = (IF canonical = {} THEN NULL ELSE a)
    /\ options' = None
    /\ UNCHANGED <<graph, iterator, route, serialized, file, seen, saved, status>>

\* There is no tree without a canonical node.
KdTreeNew ==
    /\ kd_tree = NULL
    /\ graph # NULL
    /\ \E a \in Addresses :
          LET canonical == {id \in DOMAIN TheGraph : Canonical(TheGraph, id)} IN
          IF canonical = {} THEN UNCHANGED <<heap, kd_tree>>
          ELSE Allocated(a, Box(canonical)) /\ kd_tree' = a
    /\ options' = None
    /\ UNCHANGED <<graph, iterator, route, serialized, file, seen, saved, status>>

KdTreeDelete ==
    /\ DropBox(kd_tree)
    /\ kd_tree' = NULL
    /\ options' = None
    /\ UNCHANGED <<graph, iterator, route, serialized, file, seen, saved>>

---------------------------------------------------------------------------
(* Graphs in memory and in a file *)

\* A length or a capacity beyond u32 is a panic, and a panic in a function
\* that C calls ends the process.
WriteToMemory ==
    /\ serialized = NoContent
    /\ graph # NULL
    /\ \E ptr \in Addresses \cup {DANGLING}, capacity \in Capacities(Rows(TheGraph)) :
          IF capacity < U32
          THEN /\ LeakedVec(ptr, Rows(TheGraph), capacity)
               /\ serialized' = [content |-> ptr, len |-> Len(Rows(TheGraph)), capacity |-> capacity]
               /\ UNCHANGED status
          ELSE status' = "aborted" /\ UNCHANGED <<heap, serialized>>
    /\ options' = None
    /\ UNCHANGED <<graph, iterator, route, kd_tree, file, seen, saved>>

SerializedGraphDelete ==
    /\ DropVec(serialized.content, serialized.capacity)
    /\ serialized' = NoContent
    /\ options' = None
    /\ UNCHANGED <<graph, iterator, route, kd_tree, file, seen, saved>>

ReadFromMemory ==
    /\ MayChange
    /\ serialized # NoContent
    /\ Changes(ReadBin(TheGraph, SubSeq(heap[serialized.content].value, 1, serialized.len)))

\* A file that is not there, or that cannot be read beyond some row.
ReadFromFile ==
    /\ MayChange
    /\ file # None
    /\ \E n \in 0 .. Len(file[1]) : Changes(ReadBin(TheGraph, SubSeq(file[1], 1, n)))

\* File::create empties the file, if it can be opened at all.
WriteToFile ==
    /\ graph # NULL
    /\ \/ file' = file /\ saved' = saved
       \/ \E w \in WriteBin(TheGraph) :
             file' = <<w.rows>> /\ saved' = (IF w.returned THEN <<TheGraph>> ELSE None)
    /\ options' = None
    /\ UNCHANGED <<heap, handles, seen, status>>

---------------------------------------------------------------------------
(* Loading *)

FormatOf == <<"Unknown", "Xml", "XmlGz", "XmlBz2", "Pbf">>

PredefinedProfiles ==
    <<CAR_PROFILE, BUS_PROFILE, BICYCLE_PROFILE, FOOT_PROFILE, RAILWAY_PROFILE, TRAM_PROFILE, SUBWAY_PROFILE>>

\* A COsmProfile has a name, two arrays and two flags, and lies where memory may be.
ASSUME CustomProfilesAssumption ==
    \A ptr \in DOMAIN CustomProfiles :
        LET c == CustomProfiles[ptr] IN
        /\ ptr \notin DOMAIN PredefinedProfiles
        /\ c = [name |-> c.name, penalties |-> c.penalties, access |-> c.access,
                disallow_motorroad |-> c.disallow_motorroad, disable_restrictions |-> c.disable_restrictions]
        /\ c.access \in Seq(ToSet(c.access)) /\ c.penalties \in Seq(ToSet(c.penalties))
        /\ \A i \in DOMAIN c.penalties :
              LET p == c.penalties[i] IN p = [key |-> p.key, value |-> p.value, penalty |-> p.penalty]

\* All strings of a profile: its name, its access tags, and keys and values.
BuildStringTable(c) ==
    <<c.name>> \o c.access
    \o FlattenSeq([i \in DOMAIN c.penalties |-> <<c.penalties[i].key, c.penalties[i].value>>])

\* Variant: the name is forgotten.
PenaltiesFromAccess(c, table) ==
    LET offset == Len(c.access) IN
    [i \in DOMAIN c.penalties |->
        [key |-> table[offset + 2 * (i - 1) + 1], value |-> table[offset + 2 * (i - 1) + 2],
         penalty |-> c.penalties[i].penalty]]

PenaltiesAsRust(c, table) ==
    LET offset == 1 + Len(c.access) IN
    [i \in DOMAIN c.penalties |->
        [key |-> table[offset + 2 * (i - 1) + 1], value |-> table[offset + 2 * (i - 1) + 2],
         penalty |-> c.penalties[i].penalty]]

AccessAsRust(c, table) == SubSeq(table, 2, 1 + Len(c.access))

AsRust(c) ==
    LET table == BuildStringTable(c) IN
    [name |-> table[1], penalties |-> PenaltiesAsRust(c, table), access |-> AccessAsRust(c, table),
     disallow_motorroad |-> c.disallow_motorroad, disable_restrictions |-> c.disable_restrictions]

\* Small numbers are no pointers but predefined profiles.
ProfileAt(ptr) == IF ptr \in DOMAIN PredefinedProfiles THEN PredefinedProfiles[ptr] ELSE AsRust(CustomProfiles[ptr])

\* What a load adds to the graph, and whether it fails, is up to the file.
AddFromOsm ==
    /\ MayChange
    /\ \E ptr \in DOMAIN PredefinedProfiles \cup DOMAIN CustomProfiles, format \in DOMAIN FormatOf :
          options' = <<[ptr |-> ptr, profile |-> ProfileAt(ptr), file_format |-> FormatOf[format]]>>
    /\ \E ids \in SUBSET (DOMAIN Nodes \ DOMAIN TheGraph) :
          heap' = [heap EXCEPT ![graph].value =
                      [id \in DOMAIN @ \cup ids |->
                          IF id \in ids THEN [osm_id |-> Nodes[id].osm_id, pos |-> Nodes[id].pos, edges |-> << >>]
                          ELSE @[id]]]
    /\ UNCHANGED <<handles, file, seen, saved, status>>

---------------------------------------------------------------------------
(* The client *)

Init ==
    /\ uses \in Clients
    /\ heap = [a \in {} |-> NULL]
    /\ graph = NULL /\ iterator = NULL /\ route = NoRoute /\ serialized = NoContent /\ kd_tree = NULL
    /\ file = None
    /\ seen = << >>
    /\ saved = None
    /\ options = None
    /\ status = "running"

\* The process dies, perhaps while it writes the file, and is started again.
Restart ==
    /\ \/ UNCHANGED <<file, saved>>
       \/ /\ status = "running"
          /\ graph # NULL
          /\ \E w \in WriteBin(TheGraph) : file' = <<w.rows>>
          /\ saved' = None
    /\ heap' = [a \in {} |-> NULL]
    /\ graph' = NULL /\ iterator' = NULL /\ route' = NoRoute /\ serialized' = NoContent /\ kd_tree' = NULL
    /\ seen' = << >>
    /\ options' = None
    /\ status' = "running"

Call ==
    \/ GraphNew \/ GraphDelete \/ GraphSetNode \/ GraphDeleteNode \/ GraphSetEdge \/ GraphDeleteEdge
    \/ "iterate" \in uses /\ (GraphGetNodes \/ IteratorNext \/ IteratorDelete)
    \/ "search" \in uses /\ (FindRoute \/ RouteResultDelete \/ GraphSimplifyRoute)
    \/ "tree" \in uses /\ (KdTreeNew \/ KdTreeDelete)
    \/ "memory" \in uses /\ (WriteToMemory \/ SerializedGraphDelete \/ ReadFromMemory)
    \/ "file" \in uses /\ (WriteToFile \/ ReadFromFile)
    \/ "load" \in uses /\ AddFromOsm

Next ==
    /\ uses' = uses
    /\ (status = "running" /\ Call) \/ Restart

Spec == Init /\ [][Next]_vars

---------------------------------------------------------------------------
(* Properties *)

\* For a client that keeps to the documentation, nothing is freed that was not
\* allocated, or as another type or with another capacity, although results
\* and buffers come back in parts, lengths change, memory is used again, and a
\* union may hold an id that looks like a pointer.
CallsAreDefined == status # "undefined"

\* The memory that each handle of the client stands for.
RouteVec == IF route.type_ = "Ok" /\ route.words[3] # 0 THEN {route.words[1]} ELSE {}
SerializedVec == IF serialized.capacity # 0 THEN {serialized.content} ELSE {}

Owned ==
    [graph |-> {graph} \ {NULL}, iterator |-> {iterator} \ {NULL}, kd_tree |-> {kd_tree} \ {NULL},
     route |-> RouteVec, serialized |-> SerializedVec]

\* What is allocated is in the hands of the client, who can free it: each
\* piece of memory belongs to one handle, and no handle has any other.
NothingLeaks ==
    /\ DOMAIN heap = UNION {Owned[h] : h \in DOMAIN Owned}
    /\ \A h, k \in DOMAIN Owned : h # k => Owned[h] \cap Owned[k] = {}

\* An iterator returns each node of its graph once and in order, and zero only
\* after the last, whatever else is called meanwhile.
IterationIsWhole ==
    iterator # NULL =>
        LET ids == InOrder(TheGraph)
            n == Len(seen)
        IN  IF n > 0 /\ seen[n] = 0 THEN SubSeq(seen, 1, n - 1) = ids
            ELSE seen \o heap[iterator].value = ids

\* After routx_graph_write_to_file returned true, and until the file is written
\* to again, what can be read from it is that graph, without its dangling edges.
TrueMeansWritten ==
    saved # None =>
        LET g == saved[1] IN
        ReadBin(EmptyGraph, file[1]) =
            [id \in DOMAIN g |-> [g[id] EXCEPT !.edges = LivingEdges(g, id)]]

\* The loader gets the profile the client meant, string by string: its own, or
\* the predefined one of the number that the header gives it.
ProfilesArriveAsGiven ==
    options # None =>
        LET o == options[1] IN
        IF o.ptr \in DOMAIN CustomProfiles THEN o.profile = CustomProfiles[o.ptr]
        ELSE o.profile.name =
                <<"motorcar", "bus", "bicycle", "foot", "train", "tram", "subway">>[o.ptr]

=============================================================================
