--------------------------- MODULE CClientProofs ---------------------------
(***************************************************************************)
(* Proofs about CClient, for any memory, graphs, lengths and clients: the  *)
(* functions of c.rs free what they allocated, as what it was allocated,   *)
(* and everything that is allocated can be freed; and graphs, files,       *)
(* iterators and profiles are what the client was told they are.           *)
(***************************************************************************)
EXTENDS CClient, FiniteSetTheorems, TLAPS

---------------------------------------------------------------------------
(* The inductive invariant *)

Boxes == {graph, iterator, kd_tree} \ {NULL}

\* A result has both of its fields, and the union three words.
RouteIsRecord ==
    route = [type_ |-> route.type_, words |-> <<route.words[1], route.words[2], route.words[3]>>]

\* All that is allocated has a handle ...
MemoryIsOwned ==
    /\ DOMAIN heap \subseteq Addresses
    /\ DOMAIN heap = Boxes \cup RouteVec \cup SerializedVec

BoxesDiffer ==
    /\ graph # NULL => graph # iterator /\ graph # kd_tree
    /\ iterator # NULL => iterator # kd_tree

\* ... and only one.
OwnersDiffer ==
    /\ BoxesDiffer
    /\ Boxes \cap RouteVec = {}
    /\ Boxes \cap SerializedVec = {}
    /\ RouteVec \cap SerializedVec = {}

IsBox(object) == object = Box(object.value)
IsVec(object, capacity) == object = Vec(object.value, capacity)

\* What is behind a handle is what its destructor will take it for.
HandlesFit ==
    /\ \A a \in Boxes : IsBox(heap[a])
    /\ \A a \in RouteVec : IsVec(heap[a], route.words[3])
    /\ \A a \in SerializedVec : IsVec(heap[a], serialized.capacity)

IInv ==
    /\ RouteIsRecord
    /\ MemoryIsOwned
    /\ OwnersDiffer
    /\ HandlesFit
    /\ CallsAreDefined

\* The invariant says of the memory what NothingLeaks says of its owners.
LEMMA OwnedMemory ==
    MemoryIsOwned /\ OwnersDiffer => NothingLeaks
<1> SUFFICES ASSUME MemoryIsOwned, OwnersDiffer PROVE NothingLeaks
  OBVIOUS
<1> DEFINE names == {"graph", "iterator", "kd_tree", "route", "serialized"}
<1>1. DOMAIN Owned = names
  BY DEF Owned
<1>2. /\ Owned["graph"] = {graph} \ {NULL}
      /\ Owned["iterator"] = {iterator} \ {NULL}
      /\ Owned["kd_tree"] = {kd_tree} \ {NULL}
      /\ Owned["route"] = RouteVec
      /\ Owned["serialized"] = SerializedVec
  BY DEF Owned
<1>3. UNION {Owned[h] : h \in names} = Boxes \cup RouteVec \cup SerializedVec
  BY <1>2 DEF Boxes
<1>4. ASSUME NEW h \in names, NEW k \in names, h # k
      PROVE  Owned[h] \cap Owned[k] = {}
  BY <1>2, <1>4 DEF OwnersDiffer, BoxesDiffer, Boxes
<1> QED  BY <1>1, <1>3, <1>4 DEF NothingLeaks, MemoryIsOwned

---------------------------------------------------------------------------
(* Memory *)

\* What allocating does to the memory.
LEMMA AllocatedAdds ==
    ASSUME NEW a, NEW object, Allocated(a, object)
    PROVE  /\ a \in Addresses \ DOMAIN heap
           /\ DOMAIN heap' = DOMAIN heap \cup {a}
           /\ heap'[a] = object
           /\ \A b \in DOMAIN heap : heap'[b] = heap[b]
BY DEF Allocated

\* What is allocated as it is freed is freed, and nothing else.
LEMMA DroppedRemoves ==
    ASSUME NEW ptr, NEW type, NEW capacity, Dropped(ptr, type, capacity),
           ptr \in DOMAIN heap, heap[ptr].type = type,
           type = "Vec" => heap[ptr].capacity = capacity
    PROVE  /\ DOMAIN heap' = DOMAIN heap \ {ptr}
           /\ \A b \in DOMAIN heap' : heap'[b] = heap[b]
           /\ status' = status
BY DEF Dropped

\* A step that leaves the handles alone, and what they need of the memory.
LEMMA HandlesStay ==
    ASSUME IInv, UNCHANGED handles, UNCHANGED status, DOMAIN heap' = DOMAIN heap,
           \A a \in Boxes : IsBox(heap'[a]),
           \A a \in RouteVec \cup SerializedVec : heap'[a] = heap[a]
    PROVE  IInv'
<1>1. UNCHANGED <<Boxes, RouteVec, SerializedVec, BoxesDiffer, route, serialized>>
  BY DEF handles, Boxes, RouteVec, SerializedVec, BoxesDiffer
<1>2. MemoryIsOwned' /\ OwnersDiffer'
  BY <1>1 DEF IInv, MemoryIsOwned, OwnersDiffer
<1>3. RouteIsRecord' /\ CallsAreDefined'
  BY <1>1 DEF IInv, RouteIsRecord, CallsAreDefined
<1>4. HandlesFit'
  BY <1>1 DEF IInv, HandlesFit
<1> QED  BY <1>2, <1>3, <1>4 DEF IInv

\* A step that changes neither.
LEMMA NothingChanges ==
    ASSUME IInv, UNCHANGED heap, UNCHANGED handles, UNCHANGED status
    PROVE  IInv'
<1>1. \A a \in Boxes : IsBox(heap'[a])
  BY DEF IInv, HandlesFit
<1> QED  BY <1>1, HandlesStay

\* A step that only changes what is in a box.
LEMMA BoxChanges ==
    ASSUME IInv, NEW a \in Boxes, NEW value, heap' = [heap EXCEPT ![a].value = value],
           UNCHANGED handles, UNCHANGED status
    PROVE  IInv'
<1>1. DOMAIN heap' = DOMAIN heap
  OBVIOUS
<1>2. a \in DOMAIN heap /\ IsBox(heap[a])
  BY DEF IInv, MemoryIsOwned, HandlesFit
<1>3. IsBox(heap'[a])
  BY <1>2 DEF IsBox, Box
<1>4. \A b \in DOMAIN heap : b # a => heap'[b] = heap[b]
  OBVIOUS
<1>5. \A b \in Boxes : IsBox(heap'[b])
  BY <1>3, <1>4 DEF IInv, MemoryIsOwned, HandlesFit
<1>6. \A b \in RouteVec \cup SerializedVec : heap'[b] = heap[b]
  BY <1>4 DEF IInv, MemoryIsOwned, OwnersDiffer
<1> QED  BY <1>1, <1>5, <1>6, HandlesStay

\* A new box that one of its handles is given.
LEMMA BoxAllocated ==
    ASSUME IInv, NEW a, NEW value, Allocated(a, Box(value)),
           Boxes' = Boxes \cup {a}, BoxesDiffer', UNCHANGED <<route, serialized, status>>
    PROVE  IInv'
<1>1. UNCHANGED <<RouteVec, SerializedVec>>
  BY DEF RouteVec, SerializedVec
<1>2. /\ a \in Addresses \ DOMAIN heap
      /\ DOMAIN heap' = DOMAIN heap \cup {a}
      /\ heap'[a] = Box(value)
      /\ \A b \in DOMAIN heap : heap'[b] = heap[b]
  BY AllocatedAdds
<1>3. IsBox(heap'[a])
  BY <1>2 DEF IsBox, Box
<1>4. MemoryIsOwned' /\ OwnersDiffer'
  BY <1>1, <1>2 DEF IInv, MemoryIsOwned, OwnersDiffer
<1>5. RouteIsRecord' /\ CallsAreDefined'
  BY DEF IInv, RouteIsRecord, CallsAreDefined
<1>6. HandlesFit'
  BY <1>1, <1>2, <1>3 DEF IInv, MemoryIsOwned, HandlesFit
<1> QED  BY <1>4, <1>5, <1>6 DEF IInv

\* A box that is dropped, and its handle with it.
LEMMA BoxDropped ==
    ASSUME IInv, NEW a \in Boxes, DropBox(a),
           Boxes' = Boxes \ {a}, BoxesDiffer', UNCHANGED <<route, serialized>>
    PROVE  IInv'
<1>1. UNCHANGED <<RouteVec, SerializedVec>>
  BY DEF RouteVec, SerializedVec
<1>2. a \in DOMAIN heap /\ IsBox(heap[a])
  BY DEF IInv, MemoryIsOwned, HandlesFit
<1>3. heap[a].type = "Box"
  BY <1>2 DEF IsBox, Box
<1>4. Dropped(a, "Box", 0)
  BY DEF DropBox, Boxes
<1>5. /\ DOMAIN heap' = DOMAIN heap \ {a}
      /\ \A b \in DOMAIN heap' : heap'[b] = heap[b]
      /\ status' = status
  BY <1>2, <1>3, <1>4, DroppedRemoves
<1>6. MemoryIsOwned' /\ OwnersDiffer'
  BY <1>1, <1>5 DEF IInv, MemoryIsOwned, OwnersDiffer
<1>7. RouteIsRecord' /\ CallsAreDefined'
  BY <1>5 DEF IInv, RouteIsRecord, CallsAreDefined
<1>8. HandlesFit'
  BY <1>1, <1>5, <1>6 DEF IInv, MemoryIsOwned, HandlesFit
<1> QED  BY <1>6, <1>7, <1>8 DEF IInv

---------------------------------------------------------------------------
(* Buffers *)

\* What a handle of a buffer needs to be freed.
LEMMA VecFreed ==
    ASSUME NEW ptr, NEW capacity, DropVec(ptr, capacity),
           capacity # 0, ptr # NULL, ptr \in DOMAIN heap, IsVec(heap[ptr], capacity)
    PROVE  /\ DOMAIN heap' = DOMAIN heap \ {ptr}
           /\ \A b \in DOMAIN heap' : heap'[b] = heap[b]
           /\ status' = status
<1>1. heap[ptr].type = "Vec" /\ heap[ptr].capacity = capacity
  BY DEF IsVec, Vec
<1>2. Dropped(ptr, "Vec", capacity)
  BY DEF DropVec
<1> QED  BY <1>1, <1>2, DroppedRemoves

\* A result that has the memory of the last one, or none as it has none.
LEMMA RouteChanges ==
    ASSUME IInv, UNCHANGED <<heap, graph, iterator, kd_tree, serialized, status>>,
           RouteIsRecord', RouteVec' = RouteVec,
           RouteVec # {} => route'.words[3] = route.words[3]
    PROVE  IInv'
<1>1. UNCHANGED <<Boxes, BoxesDiffer, SerializedVec>>
  BY DEF Boxes, BoxesDiffer, SerializedVec
<1>2. MemoryIsOwned' /\ OwnersDiffer' /\ CallsAreDefined'
  BY <1>1 DEF IInv, MemoryIsOwned, OwnersDiffer, CallsAreDefined
<1>3. HandlesFit'
  BY <1>1 DEF IInv, HandlesFit
<1> QED  BY <1>2, <1>3 DEF IInv

LEMMA RouteLeaked ==
    ASSUME IInv, RouteVec = {}, NEW ptr, NEW values, NEW n, NEW capacity,
           LeakedVec(ptr, values, capacity), route' = RouteOk(ptr, n, capacity),
           UNCHANGED <<graph, iterator, kd_tree, serialized, status>>
    PROVE  IInv'
<1>1. RouteIsRecord' /\ route'.type_ = "Ok" /\ route'.words[1] = ptr /\ route'.words[3] = capacity
  BY DEF RouteOk, RouteIsRecord
<1>2. CASE capacity = 0
  <2>1. RouteVec' = {}
    BY <1>1, <1>2 DEF RouteVec
  <2> QED  BY <1>1, <1>2, <2>1, RouteChanges DEF LeakedVec
<1>3. CASE capacity # 0
  <2>1. RouteVec' = {ptr}
    BY <1>1, <1>3 DEF RouteVec
  <2>2. /\ ptr \in Addresses \ DOMAIN heap
        /\ DOMAIN heap' = DOMAIN heap \cup {ptr}
        /\ heap'[ptr] = Vec(values, capacity)
        /\ \A b \in DOMAIN heap : heap'[b] = heap[b]
    BY <1>3, AllocatedAdds DEF LeakedVec
  <2>3. IsVec(heap'[ptr], capacity)
    BY <2>2 DEF IsVec, Vec
  <2>4. UNCHANGED <<Boxes, BoxesDiffer, SerializedVec>>
    BY DEF Boxes, BoxesDiffer, SerializedVec
  <2>5. MemoryIsOwned' /\ OwnersDiffer' /\ CallsAreDefined'
    BY <2>1, <2>2, <2>4 DEF IInv, MemoryIsOwned, OwnersDiffer, CallsAreDefined
  <2>6. HandlesFit'
    BY <1>1, <2>1, <2>2, <2>3, <2>4 DEF IInv, MemoryIsOwned, HandlesFit
  <2> QED  BY <1>1, <2>5, <2>6 DEF IInv
<1> QED  BY <1>2, <1>3

LEMMA RouteDeleted ==
    ASSUME IInv, AddressesAssumption, RouteResultDelete
    PROVE  IInv'
<1>1. RouteIsRecord' /\ RouteVec' = {}
  BY DEF RouteResultDelete, NoRoute, RouteIsRecord, RouteVec
<1>2. UNCHANGED <<graph, iterator, kd_tree, serialized>>
  BY DEF RouteResultDelete
<1>3. CASE RouteVec = {}
  <2>1. UNCHANGED <<heap, status>>
    BY <1>3 DEF RouteResultDelete, RouteVec, DropVec
  <2> QED  BY <1>1, <1>2, <1>3, <2>1, RouteChanges
<1>4. CASE RouteVec # {}
  <2> DEFINE ptr == route.words[1]
             capacity == route.words[3]
  <2>1. route.type_ = "Ok" /\ capacity # 0 /\ RouteVec = {ptr}
    BY <1>4 DEF RouteVec
  <2>2. ptr \in DOMAIN heap /\ ptr # NULL /\ IsVec(heap[ptr], capacity)
    BY <2>1, AddressesAssumption DEF IInv, MemoryIsOwned, HandlesFit
  <2>3. DropVec(ptr, capacity)
    BY <2>1 DEF RouteResultDelete
  <2>4. /\ DOMAIN heap' = DOMAIN heap \ {ptr}
        /\ \A b \in DOMAIN heap' : heap'[b] = heap[b]
        /\ status' = status
    BY <2>1, <2>2, <2>3, VecFreed
  <2>5. UNCHANGED <<Boxes, BoxesDiffer, SerializedVec>>
    BY <1>2 DEF Boxes, BoxesDiffer, SerializedVec
  <2>6. MemoryIsOwned' /\ OwnersDiffer' /\ CallsAreDefined'
    BY <1>1, <2>1, <2>4, <2>5 DEF IInv, MemoryIsOwned, OwnersDiffer, CallsAreDefined
  <2>7. HandlesFit'
    BY <1>1, <1>2, <2>4, <2>5, <2>6 DEF IInv, MemoryIsOwned, HandlesFit
  <2> QED  BY <1>1, <2>6, <2>7 DEF IInv
<1> QED  BY <1>3, <1>4

\* The memory of serialized graphs, in the same way.
LEMMA ContentChanges ==
    ASSUME IInv, UNCHANGED <<heap, graph, iterator, kd_tree, route, status>>,
           SerializedVec = {}, SerializedVec' = {}
    PROVE  IInv'
<1>1. UNCHANGED <<Boxes, BoxesDiffer, RouteVec>>
  BY DEF Boxes, BoxesDiffer, RouteVec
<1>2. MemoryIsOwned' /\ OwnersDiffer' /\ CallsAreDefined' /\ RouteIsRecord'
  BY <1>1 DEF IInv, MemoryIsOwned, OwnersDiffer, CallsAreDefined, RouteIsRecord
<1>3. HandlesFit'
  BY <1>1 DEF IInv, HandlesFit
<1> QED  BY <1>2, <1>3 DEF IInv

LEMMA ContentLeaked ==
    ASSUME IInv, SerializedVec = {}, NEW ptr, NEW values, NEW n, NEW capacity,
           LeakedVec(ptr, values, capacity),
           serialized' = [content |-> ptr, len |-> n, capacity |-> capacity],
           UNCHANGED <<graph, iterator, kd_tree, route, status>>
    PROVE  IInv'
<1>1. CASE capacity = 0
  <2>1. SerializedVec' = {}
    BY <1>1 DEF SerializedVec
  <2> QED  BY <1>1, <2>1, ContentChanges DEF LeakedVec
<1>2. CASE capacity # 0
  <2>1. SerializedVec' = {ptr}
    BY <1>2 DEF SerializedVec
  <2>2. /\ ptr \in Addresses \ DOMAIN heap
        /\ DOMAIN heap' = DOMAIN heap \cup {ptr}
        /\ heap'[ptr] = Vec(values, capacity)
        /\ \A b \in DOMAIN heap : heap'[b] = heap[b]
    BY <1>2, AllocatedAdds DEF LeakedVec
  <2>3. IsVec(heap'[ptr], serialized'.capacity)
    BY <2>2 DEF IsVec, Vec
  <2>4. UNCHANGED <<Boxes, BoxesDiffer, RouteVec>>
    BY DEF Boxes, BoxesDiffer, RouteVec
  <2>5. MemoryIsOwned' /\ OwnersDiffer' /\ CallsAreDefined' /\ RouteIsRecord'
    BY <2>1, <2>2, <2>4 DEF IInv, MemoryIsOwned, OwnersDiffer, CallsAreDefined, RouteIsRecord
  <2>6. HandlesFit'
    BY <2>1, <2>2, <2>3, <2>4 DEF IInv, MemoryIsOwned, HandlesFit
  <2> QED  BY <2>5, <2>6 DEF IInv
<1> QED  BY <1>1, <1>2

LEMMA ContentDeleted ==
    ASSUME IInv, AddressesAssumption, SerializedGraphDelete
    PROVE  IInv'
<1>1. SerializedVec' = {}
  BY DEF SerializedGraphDelete, NoContent, SerializedVec
<1>2. UNCHANGED <<graph, iterator, kd_tree, route>>
  BY DEF SerializedGraphDelete
<1>3. CASE SerializedVec = {}
  <2>1. UNCHANGED <<heap, status>>
    BY <1>3 DEF SerializedGraphDelete, SerializedVec, DropVec
  <2> QED  BY <1>1, <1>2, <1>3, <2>1, ContentChanges
<1>4. CASE SerializedVec # {}
  <2> DEFINE ptr == serialized.content
             capacity == serialized.capacity
  <2>1. capacity # 0 /\ SerializedVec = {ptr}
    BY <1>4 DEF SerializedVec
  <2>2. ptr \in DOMAIN heap /\ ptr # NULL /\ IsVec(heap[ptr], capacity)
    BY <2>1, AddressesAssumption DEF IInv, MemoryIsOwned, HandlesFit
  <2>3. DropVec(ptr, capacity)
    BY DEF SerializedGraphDelete
  <2>4. /\ DOMAIN heap' = DOMAIN heap \ {ptr}
        /\ \A b \in DOMAIN heap' : heap'[b] = heap[b]
        /\ status' = status
    BY <2>1, <2>2, <2>3, VecFreed
  <2>5. UNCHANGED <<Boxes, BoxesDiffer, RouteVec>>
    BY <1>2 DEF Boxes, BoxesDiffer, RouteVec
  <2>6. MemoryIsOwned' /\ OwnersDiffer' /\ CallsAreDefined' /\ RouteIsRecord'
    BY <1>1, <1>2, <2>1, <2>4, <2>5 DEF IInv, MemoryIsOwned, OwnersDiffer, CallsAreDefined, RouteIsRecord
  <2>7. HandlesFit'
    BY <1>1, <1>2, <2>4, <2>5, <2>6 DEF IInv, MemoryIsOwned, HandlesFit
  <2> QED  BY <2>6, <2>7 DEF IInv
<1> QED  BY <1>3, <1>4

---------------------------------------------------------------------------
(* Steps *)

LEMMA InitIsOwned == Init => IInv
<1> SUFFICES ASSUME Init PROVE IInv
  OBVIOUS
<1>1. DOMAIN heap = {} /\ Boxes = {} /\ RouteVec = {} /\ SerializedVec = {}
  BY DEF Init, Boxes, RouteVec, SerializedVec, NoRoute, NoContent
<1>2. RouteIsRecord /\ BoxesDiffer /\ CallsAreDefined
  BY DEF Init, RouteIsRecord, NoRoute, BoxesDiffer, CallsAreDefined
<1> QED  BY <1>1, <1>2 DEF IInv, MemoryIsOwned, OwnersDiffer, HandlesFit

\* Functions that change a graph.
LEMMA GraphChanges ==
    ASSUME IInv, graph # NULL, NEW g, Changes(g)
    PROVE  IInv'
<1>1. graph \in Boxes
  BY DEF Boxes
<1>2. heap' = [heap EXCEPT ![graph].value = g] /\ UNCHANGED handles /\ UNCHANGED status
  BY DEF Changes
<1> QED  BY <1>1, <1>2, BoxChanges

LEMMA GraphStep ==
    ASSUME IInv, AddressesAssumption,
           \/ GraphNew \/ GraphDelete
           \/ GraphSetNode \/ GraphDeleteNode \/ GraphSetEdge \/ GraphDeleteEdge
    PROVE  IInv'
<1>1. CASE GraphNew
  <2>1. PICK a \in Addresses : Allocated(a, Box(EmptyGraph)) /\ graph' = a
    BY <1>1 DEF GraphNew
  <2>2. a \notin Boxes /\ a # NULL
    BY <2>1, AllocatedAdds, AddressesAssumption DEF IInv, MemoryIsOwned
  <2>3. graph = NULL /\ UNCHANGED <<iterator, kd_tree, route, serialized, status>>
    BY <1>1 DEF GraphNew
  <2>4. Boxes' = Boxes \cup {a}
    BY <2>1, <2>2, <2>3 DEF Boxes
  <2>5. BoxesDiffer'
    BY <2>1, <2>2, <2>3 DEF IInv, OwnersDiffer, BoxesDiffer, Boxes
  <2> QED  BY <2>1, <2>3, <2>4, <2>5, BoxAllocated
<1>2. CASE GraphDelete
  <2>1. graph' = NULL /\ UNCHANGED <<iterator, kd_tree, route, serialized>> /\ DropBox(graph)
    BY <1>2 DEF GraphDelete
  <2>2. CASE graph = NULL
    BY <2>1, <2>2, NothingChanges DEF DropBox, handles
  <2>3. CASE graph # NULL
    <3>1. graph \in Boxes /\ Boxes' = Boxes \ {graph} /\ BoxesDiffer'
      BY <2>1, <2>3 DEF IInv, OwnersDiffer, BoxesDiffer, Boxes
    <3> QED  BY <2>1, <3>1, BoxDropped
  <2> QED  BY <2>2, <2>3
<1>3. CASE GraphSetNode
  BY <1>3, GraphChanges DEF GraphSetNode, MayChange
<1>4. CASE GraphDeleteNode
  BY <1>4, GraphChanges DEF GraphDeleteNode, MayChange
<1>5. CASE GraphSetEdge
  BY <1>5, GraphChanges DEF GraphSetEdge, MayChange
<1>6. CASE GraphDeleteEdge
  BY <1>6, GraphChanges DEF GraphDeleteEdge, MayChange
<1> QED  BY <1>1, <1>2, <1>3, <1>4, <1>5, <1>6

LEMMA IteratorStep ==
    ASSUME IInv, AddressesAssumption, GraphGetNodes \/ IteratorNext \/ IteratorDelete
    PROVE  IInv'
<1>1. CASE GraphGetNodes
  <2>1. PICK a \in Addresses : Allocated(a, Box(InOrder(TheGraph))) /\ iterator' = a
    BY <1>1 DEF GraphGetNodes
  <2>2. a \notin Boxes /\ a # NULL
    BY <2>1, AllocatedAdds, AddressesAssumption DEF IInv, MemoryIsOwned
  <2>3. iterator = NULL /\ UNCHANGED <<graph, kd_tree, route, serialized, status>>
    BY <1>1 DEF GraphGetNodes
  <2>4. Boxes' = Boxes \cup {a}
    BY <2>1, <2>2, <2>3 DEF Boxes
  <2>5. BoxesDiffer'
    BY <2>1, <2>2, <2>3 DEF IInv, OwnersDiffer, BoxesDiffer, Boxes
  <2> QED  BY <2>1, <2>3, <2>4, <2>5, BoxAllocated
<1>2. CASE IteratorNext
  <2>1. iterator \in Boxes /\ UNCHANGED handles /\ UNCHANGED status
    BY <1>2 DEF IteratorNext, Boxes
  <2>2. CASE heap[iterator].value # << >>
    <3>1. heap' = [heap EXCEPT ![iterator].value = Tail(@)]
      BY <1>2, <2>2 DEF IteratorNext
    <3>2. heap' = [heap EXCEPT ![iterator].value = Tail(heap[iterator].value)]
      BY <3>1
    <3> QED  BY <2>1, <3>2, BoxChanges
  <2>3. CASE heap[iterator].value = << >>
    BY <1>2, <2>1, <2>3, NothingChanges DEF IteratorNext
  <2> QED  BY <2>2, <2>3
<1>3. CASE IteratorDelete
  <2>1. iterator' = NULL /\ UNCHANGED <<graph, kd_tree, route, serialized>> /\ DropBox(iterator)
    BY <1>3 DEF IteratorDelete
  <2>2. CASE iterator = NULL
    BY <2>1, <2>2, NothingChanges DEF DropBox, handles
  <2>3. CASE iterator # NULL
    <3>1. iterator \in Boxes /\ Boxes' = Boxes \ {iterator} /\ BoxesDiffer'
      BY <2>1, <2>3 DEF IInv, OwnersDiffer, BoxesDiffer, Boxes
    <3> QED  BY <2>1, <3>1, BoxDropped
  <2> QED  BY <2>2, <2>3
<1> QED  BY <1>1, <1>2, <1>3

LEMMA TreeStep ==
    ASSUME IInv, AddressesAssumption, KdTreeNew \/ KdTreeDelete
    PROVE  IInv'
<1>1. CASE KdTreeNew
  <2> DEFINE canonical == {id \in DOMAIN TheGraph : Canonical(TheGraph, id)}
  <2>1. kd_tree = NULL /\ UNCHANGED <<graph, iterator, route, serialized, status>>
    BY <1>1 DEF KdTreeNew
  <2>2. CASE canonical = {}
    BY <1>1, <2>1, <2>2, NothingChanges DEF KdTreeNew, handles
  <2>3. CASE canonical # {}
    <3>1. PICK a \in Addresses : Allocated(a, Box(canonical)) /\ kd_tree' = a
      BY <1>1, <2>3 DEF KdTreeNew
    <3>2. a \notin Boxes /\ a # NULL
      BY <3>1, AllocatedAdds, AddressesAssumption DEF IInv, MemoryIsOwned
    <3>3. Boxes' = Boxes \cup {a}
      BY <2>1, <3>1, <3>2 DEF Boxes
    <3>4. BoxesDiffer'
      BY <2>1, <3>1, <3>2 DEF IInv, OwnersDiffer, BoxesDiffer, Boxes
    <3> QED  BY <2>1, <3>1, <3>3, <3>4, BoxAllocated
  <2> QED  BY <2>2, <2>3
<1>2. CASE KdTreeDelete
  <2>1. kd_tree' = NULL /\ UNCHANGED <<graph, iterator, route, serialized>> /\ DropBox(kd_tree)
    BY <1>2 DEF KdTreeDelete
  <2>2. CASE kd_tree = NULL
    BY <2>1, <2>2, NothingChanges DEF DropBox, handles
  <2>3. CASE kd_tree # NULL
    <3>1. kd_tree \in Boxes /\ Boxes' = Boxes \ {kd_tree} /\ BoxesDiffer'
      BY <2>1, <2>3 DEF IInv, OwnersDiffer, BoxesDiffer, Boxes
    <3> QED  BY <2>1, <3>1, BoxDropped
  <2> QED  BY <2>2, <2>3
<1> QED  BY <1>1, <1>2

\* A result that is an error, or not there yet, owns nothing.
LEMMA SearchStep ==
    ASSUME IInv, AddressesAssumption, FindRoute \/ RouteResultDelete \/ GraphSimplifyRoute
    PROVE  IInv'
<1>1. CASE FindRoute
  <2>1. RouteVec = {} /\ UNCHANGED <<graph, iterator, kd_tree, serialized, status>>
    BY <1>1 DEF FindRoute, NoRoute, RouteVec
  <2>2. ASSUME NEW id, NEW word, UNCHANGED heap,
               route' = RouteInvalidReference(id, word) \/ route' = RouteEmpty(id, word)
        PROVE  IInv'
    <3>1. RouteIsRecord' /\ RouteVec' = {}
      BY <2>2 DEF RouteInvalidReference, RouteEmpty, RouteIsRecord, RouteVec
    <3> QED  BY <2>1, <2>2, <3>1, RouteChanges
  <2>3. ASSUME NEW ptr, NEW values, NEW n, NEW capacity,
               LeakedVec(ptr, values, capacity), route' = RouteOk(ptr, n, capacity)
        PROVE  IInv'
    BY <2>1, <2>3, RouteLeaked
  <2> QED  BY <1>1, <2>2, <2>3 DEF FindRoute
<1>2. CASE RouteResultDelete
  BY <1>2, RouteDeleted
<1>3. CASE GraphSimplifyRoute
  <2>1. PICK n : route' = [route EXCEPT !.words[2] = n]
    BY <1>3 DEF GraphSimplifyRoute
  <2>2. route' = [type_ |-> route.type_, words |-> <<route.words[1], n, route.words[3]>>]
    BY <2>1 DEF IInv, RouteIsRecord
  <2>3. RouteIsRecord' /\ RouteVec' = RouteVec /\ route'.words[3] = route.words[3]
    BY <2>2 DEF RouteIsRecord, RouteVec
  <2> QED  BY <1>3, <2>3, RouteChanges DEF GraphSimplifyRoute
<1> QED  BY <1>1, <1>2, <1>3

LEMMA StorageStep ==
    ASSUME IInv, AddressesAssumption,
           \/ WriteToMemory \/ SerializedGraphDelete \/ ReadFromMemory
           \/ WriteToFile \/ ReadFromFile
           \/ AddFromOsm
    PROVE  IInv'
<1>1. CASE WriteToMemory
  <2>1. SerializedVec = {} /\ UNCHANGED <<graph, iterator, route, kd_tree>>
    BY <1>1 DEF WriteToMemory, NoContent, SerializedVec
  <2>2. ASSUME NEW ptr, NEW capacity, LeakedVec(ptr, Rows(TheGraph), capacity),
               serialized' = [content |-> ptr, len |-> Len(Rows(TheGraph)), capacity |-> capacity],
               UNCHANGED status
        PROVE  IInv'
    BY <2>1, <2>2, ContentLeaked
  <2>3. ASSUME status' = "aborted", UNCHANGED <<heap, serialized>>
        PROVE  IInv'
    <3>1. UNCHANGED <<Boxes, BoxesDiffer, RouteVec, SerializedVec>>
      BY <2>1, <2>3 DEF Boxes, BoxesDiffer, RouteVec, SerializedVec
    <3>2. RouteIsRecord' /\ MemoryIsOwned' /\ OwnersDiffer'
      BY <2>1, <2>3, <3>1 DEF IInv, RouteIsRecord, MemoryIsOwned, OwnersDiffer
    <3>3. HandlesFit' /\ CallsAreDefined'
      BY <2>1, <2>3, <3>1 DEF IInv, HandlesFit, CallsAreDefined
    <3> QED  BY <3>2, <3>3 DEF IInv
  <2> QED  BY <1>1, <2>2, <2>3 DEF WriteToMemory
<1>2. CASE SerializedGraphDelete
  BY <1>2, ContentDeleted
<1>3. CASE ReadFromMemory
  BY <1>3, GraphChanges DEF ReadFromMemory, MayChange
<1>4. CASE WriteToFile
  BY <1>4, NothingChanges DEF WriteToFile
<1>5. CASE ReadFromFile
  BY <1>5, GraphChanges DEF ReadFromFile, MayChange
<1>6. CASE AddFromOsm
  <2>1. graph \in Boxes /\ UNCHANGED handles /\ UNCHANGED status
    BY <1>6 DEF AddFromOsm, MayChange, Boxes
  <2>2. PICK g : heap' = [heap EXCEPT ![graph].value = g]
    BY <1>6 DEF AddFromOsm
  <2> QED  BY <2>1, <2>2, BoxChanges
<1> QED  BY <1>1, <1>2, <1>3, <1>4, <1>5, <1>6

\* A process that is started again has nothing to free.
LEMMA RestartStep ==
    ASSUME Restart
    PROVE  IInv'
<1>1. (DOMAIN heap)' = {} /\ Boxes' = {} /\ RouteVec' = {} /\ SerializedVec' = {}
  BY DEF Restart, Boxes, RouteVec, SerializedVec, NoRoute, NoContent
<1>2. RouteIsRecord' /\ BoxesDiffer' /\ CallsAreDefined'
  BY DEF Restart, RouteIsRecord, NoRoute, BoxesDiffer, CallsAreDefined
<1> QED  BY <1>1, <1>2 DEF IInv, MemoryIsOwned, OwnersDiffer, HandlesFit

LEMMA OwnershipIsKept ==
    ASSUME AddressesAssumption, IInv, [Next]_vars
    PROVE  IInv'
<1>1. CASE Call
  BY <1>1, GraphStep, IteratorStep, SearchStep, TreeStep, StorageStep DEF Call
<1>2. CASE Restart
  BY <1>2, RestartStep
<1>3. CASE UNCHANGED vars
  BY <1>3, NothingChanges DEF vars, handles
<1> QED  BY <1>1, <1>2, <1>3 DEF Next

---------------------------------------------------------------------------
(* Graphs and rows, which are those of any BinaryStore, whatever that is   *)
(* about to do.                                                            *)

Store == INSTANCE BinaryStoreProofs WITH
    Graphs <- {}, Targets <- {}, Foreign <- {}, MaxReads <- 0,
    source <- EmptyGraph, target <- EmptyGraph, before <- EmptyGraph, file <- << >>,
    pc <- "closed", seen_header <- FALSE, seen_nodes <- FALSE, row <- 0, reads <- 0

LEMMA SameSet == \A s : Store!ToSet(s) = ToSet(s)
BY DEF Store!ToSet, ToSet

LEMMA SameGraph == \A g : Store!IsGraph(g) <=> IsGraph(g)
BY DEF Store!IsGraph, IsGraph, Store!HasLists, HasLists, Store!GetEdges, GetEdges,
       Store!HasNode, HasNode, Store!OsmId, OsmId, Store!Pos, Pos, Store!ToSet, ToSet,
       Store!IsFiniteSet, IsFiniteSet, Store!EdgesTo, EdgesTo

LEMMA SameEmptyGraph == Store!EmptyGraph = EmptyGraph
BY DEF Store!EmptyGraph, EmptyGraph

LEMMA SameSetNode ==
    \A g, id, osm_id, pos : Store!SetNode(g, id, osm_id, pos) = SetNode(g, id, osm_id, pos)
BY DEF Store!SetNode, SetNode, Store!HasNode, HasNode

LEMMA SameDeleteNode == \A g, id : Store!DeleteNode(g, id) = DeleteNode(g, id)
BY DEF Store!DeleteNode, DeleteNode

LEMMA SameSetEdge == \A g, from, e : Store!SetEdge(g, from, e) = SetEdge(g, from, e)
BY DEF Store!SetEdge, SetEdge, Store!PutEdge, PutEdge, Store!HasNode, HasNode,
       Store!EdgesTo, EdgesTo, Store!FirstEdgeTo, FirstEdgeTo

LEMMA SameDeleteEdge == \A g, from, to : Store!DeleteEdge(g, from, to) = DeleteEdge(g, from, to)
BY DEF Store!DeleteEdge, DeleteEdge, Store!HasEdge, HasEdge, Store!GetEdges, GetEdges,
       Store!HasNode, HasNode, Store!SwapRemove, SwapRemove,
       Store!EdgesTo, EdgesTo, Store!FirstEdgeTo, FirstEdgeTo

LEMMA SameOrder == \A g : Store!InOrder(g) = InOrder(g)
BY DEF Store!InOrder, InOrder, Store!ToSet, ToSet, Store!Cardinality, Cardinality

LEMMA SameFlattenSeq == \A seqs : Store!FlattenSeq(seqs) = FlattenSeq(seqs)
BY DEF Store!FlattenSeq, FlattenSeq

LEMMA SameRow ==
    /\ \A g, id : Store!GetEdges(g, id) = GetEdges(g, id) /\ Store!NodeRow(g, id) = NodeRow(g, id)
    /\ \A id, e : Store!EdgeRow(id, e) = EdgeRow(id, e)
    /\ Store!Header = Header /\ Store!Separator = Separator
BY DEF Store!GetEdges, GetEdges, Store!HasNode, HasNode, Store!NodeRow, NodeRow, Store!OsmId, OsmId,
       Store!Pos, Pos, Store!EdgeRow, EdgeRow, Store!Header, Header, Store!Separator, Separator

LEMMA SameRows ==
    ASSUME NEW g
    PROVE  Store!Rows(g) = Rows(g)
<1>1. PICK ids : ids = InOrder(g) /\ ids = Store!InOrder(g)
  BY SameOrder
<1>2. PICK a : a = [i \in DOMAIN ids |-> NodeRow(g, ids[i])]
  OBVIOUS
<1>3. PICK b : b = [i \in DOMAIN ids |->
                       [j \in DOMAIN GetEdges(g, ids[i]) |-> EdgeRow(ids[i], GetEdges(g, ids[i])[j])]]
  OBVIOUS
<1>4. a = [i \in DOMAIN ids |-> Store!NodeRow(g, ids[i])]
  BY <1>2, SameRow
<1>5. b = [i \in DOMAIN ids |->
              [j \in DOMAIN Store!GetEdges(g, ids[i]) |-> Store!EdgeRow(ids[i], Store!GetEdges(g, ids[i])[j])]]
  BY <1>3, SameRow
<1>6. Rows(g) = <<Header>> \o a \o <<Separator>> \o FlattenSeq(b)
  BY <1>1, <1>2, <1>3 DEF Rows
<1>7. Store!Rows(g) = <<Store!Header>> \o a \o <<Store!Separator>> \o Store!FlattenSeq(b)
  BY <1>1, <1>4, <1>5 DEF Store!Rows
<1> QED  BY <1>6, <1>7, SameFlattenSeq, SameRow

LEMMA SameReadBin == \A g, rows : Store!ReadBin(g, rows) = ReadBin(g, rows)
BY DEF Store!ReadBin, ReadBin, Store!SetNode, SetNode, Store!SetEdge, SetEdge, Store!PutEdge, PutEdge,
       Store!HasNode, HasNode, Store!EdgesTo, EdgesTo, Store!FirstEdgeTo, FirstEdgeTo

LEMMA SameLivingEdges == \A g, id : Store!LivingEdges(g, id) = LivingEdges(g, id)
BY DEF Store!LivingEdges, LivingEdges, Store!Living, Living, Store!GetEdges, GetEdges, Store!HasNode, HasNode

\* So what is proved of those graphs and files is known of these.
LEMMA EmptyGraphIsGraph == IsGraph(EmptyGraph)
BY SameGraph, SameEmptyGraph, Store!EmptyIsGraph

LEMMA SetNodeKeepsGraph ==
    ASSUME NEW g, IsGraph(g), NEW id \in Int \ {0}, NEW osm_id, NEW pos, pos = <<pos[1], pos[2]>>
    PROVE  IsGraph(SetNode(g, id, osm_id, pos))
<1>1. Store!IsGraph(g)
  BY SameGraph
<1>2. Store!IsGraph(Store!SetNode(g, id, osm_id, pos))
  BY <1>1, Store!SetNodeIsGraph
<1> QED  BY <1>2, SameGraph, SameSetNode

LEMMA DeleteNodeKeepsGraph ==
    ASSUME NEW g, IsGraph(g), NEW id
    PROVE  IsGraph(DeleteNode(g, id))
<1>1. Store!IsGraph(g)
  BY SameGraph
<1>2. Store!IsGraph(Store!DeleteNode(g, id))
  BY <1>1, Store!DeleteNodeIsGraph
<1> QED  BY <1>2, SameGraph, SameDeleteNode

LEMMA SetEdgeKeepsGraph ==
    ASSUME NEW g, IsGraph(g), NEW from, NEW to \in Int \ {0}, NEW cost
    PROVE  IsGraph(SetEdge(g, from, [to |-> to, cost |-> cost]))
<1>1. Store!IsGraph(g)
  BY SameGraph
<1>2. PICK e : e = [to |-> to, cost |-> cost]
  OBVIOUS
<1>3. e = [to |-> e.to, cost |-> e.cost] /\ e.to \in Int \ {0}
  BY <1>2
<1>4. Store!IsGraph(Store!SetEdge(g, from, e))
  BY <1>1, <1>3, Store!SetEdgeIsGraph
<1> QED  BY <1>2, <1>4, SameGraph, SameSetEdge

LEMMA DeleteEdgeKeepsGraph ==
    ASSUME NEW g, IsGraph(g), NEW from, NEW to
    PROVE  IsGraph(DeleteEdge(g, from, to))
<1>1. Store!IsGraph(g)
  BY SameGraph
<1>2. Store!IsGraph(Store!DeleteEdge(g, from, to))
  BY <1>1, Store!DeleteEdgeIsGraph
<1> QED  BY <1>2, SameGraph, SameDeleteEdge

LEMMA OrderIsOfIds ==
    ASSUME NEW g, IsGraph(g)
    PROVE  InOrder(g) \in Seq(Int \ {0})
<1>1. Store!IsGraph(g)
  BY SameGraph
<1>2. Store!InOrder(g) \in Seq(DOMAIN g)
  BY <1>1, Store!InOrderLists
<1>3. PICK ids : ids = InOrder(g) /\ ids \in Seq(DOMAIN g)
  BY <1>2, SameOrder
<1>4. DOMAIN g \subseteq Int \ {0}
  BY DEF IsGraph
<1> QED  BY <1>3, <1>4

LEMMA FileIsOfRows ==
    ASSUME NEW g, IsGraph(g)
    PROVE  Rows(g) \in Seq(ToSet(Rows(g))) /\ Len(Rows(g)) \in Nat /\ Len(Rows(g)) >= 2
<1>1. Store!IsGraph(g)
  BY SameGraph
<1>2. PICK rows : rows = Store!Rows(g)
  OBVIOUS
<1>3. rows \in Seq(Store!ToSet(rows)) /\ Len(rows) \in Nat /\ Len(rows) >= 2
  BY <1>1, <1>2, Store!RowsAreListed
<1>4. rows = Rows(g)
  BY <1>2, SameRows
<1> QED  BY <1>3, <1>4, SameSet

LEMMA ReadBinKeepsGraph ==
    ASSUME NEW g, IsGraph(g), NEW b, IsGraph(b), NEW m \in 0 .. Len(Rows(g))
    PROVE  IsGraph(ReadBin(b, SubSeq(Rows(g), 1, m)))
<1>1. Store!IsGraph(g) /\ Store!IsGraph(b)
  BY SameGraph
<1>2. PICK rows : rows = Rows(g) /\ rows = Store!Rows(g)
  BY SameRows
<1>3. Store!IsGraph(Store!ReadBin(b, SubSeq(rows, 1, m)))
  <2>1. m \in 0 .. Len(Store!Rows(g))
    BY <1>2
  <2>2. Store!IsGraph(Store!ReadBin(b, SubSeq(Store!Rows(g), 1, m)))
    BY <1>1, <2>1, Store!PartOfFileIsGraph
  <2> QED  BY <1>2, <2>2
<1> QED  BY <1>2, <1>3, SameGraph, SameReadBin

LEMMA FileReadsAsGraph ==
    ASSUME NEW g, IsGraph(g)
    PROVE  ReadBin(EmptyGraph, Rows(g)) = [id \in DOMAIN g |-> [g[id] EXCEPT !.edges = LivingEdges(g, id)]]
<1>1. Store!IsGraph(g)
  BY SameGraph
<1>2. Store!ReadBin(Store!EmptyGraph, Store!Rows(g))
          = [id \in DOMAIN g |-> [g[id] EXCEPT !.edges = Store!LivingEdges(g, id)]]
  BY <1>1, Store!WholeFileIsRead
<1>3. Store!ReadBin(Store!EmptyGraph, Store!Rows(g)) = ReadBin(EmptyGraph, Rows(g))
  BY SameEmptyGraph, SameRows, SameReadBin
<1> QED  BY <1>2, <1>3, SameLivingEdges

\* What a load makes of a graph.
LEMMA LoadKeepsGraph ==
    ASSUME NodesAssumption, NEW g, IsGraph(g), NEW ids \in SUBSET (DOMAIN Nodes \ DOMAIN g), NEW h,
           h = [id \in DOMAIN g \cup ids |->
                   IF id \in ids THEN [osm_id |-> Nodes[id].osm_id, pos |-> Nodes[id].pos, edges |-> << >>]
                   ELSE g[id]]
    PROVE  IsGraph(h)
<1> DEFINE IsNode(r, id) ==
        LET edges == GetEdges(r, id) IN
        /\ r[id] = [osm_id |-> OsmId(r, id), pos |-> Pos(r, id), edges |-> r[id].edges]
        /\ r[id].edges \in Seq(ToSet(r[id].edges))
        /\ Pos(r, id) = <<Pos(r, id)[1], Pos(r, id)[2]>>
        /\ \A i \in DOMAIN edges : /\ edges[i] = [to |-> edges[i].to, cost |-> edges[i].cost]
                                   /\ edges[i].to \in Int \ {0}
                                   /\ EdgesTo(edges, edges[i].to) = {i}
<1>1. /\ h = [id \in DOMAIN h |-> h[id]]
      /\ DOMAIN h = DOMAIN g \cup ids
      /\ \A id \in ids : h[id] = [osm_id |-> Nodes[id].osm_id, pos |-> Nodes[id].pos, edges |-> << >>]
      /\ \A id \in DOMAIN g : h[id] = g[id]
  OBVIOUS
<1>2. IsFiniteSet(DOMAIN h) /\ DOMAIN h \subseteq Int \ {0}
  <2>1. IsFiniteSet(ids)
    BY FS_Subset DEF NodesAssumption
  <2>2. IsFiniteSet(DOMAIN g \cup ids)
    BY <2>1, FS_Union DEF IsGraph
  <2> QED  BY <1>1, <2>2 DEF IsGraph, NodesAssumption
<1>3. ASSUME NEW id \in ids
      PROVE  IsNode(h, id)
  <2>1. PICK x, osm_id, pos : /\ x = h[id] /\ osm_id = Nodes[id].osm_id /\ pos = Nodes[id].pos
                              /\ x = [osm_id |-> osm_id, pos |-> pos, edges |-> << >>]
    BY <1>1, Zenon
  <2>1a. pos = <<pos[1], pos[2]>>
    BY <2>1 DEF NodesAssumption
  <2>2. x.osm_id = osm_id /\ x.pos = pos /\ x.edges = << >>
    BY <2>1
  <2>3. OsmId(h, id) = osm_id /\ Pos(h, id) = pos /\ h[id].edges = << >> /\ GetEdges(h, id) = << >>
    BY <1>1, <2>1, <2>2 DEF OsmId, Pos, GetEdges, HasNode
  <2>4. << >> \in Seq(ToSet(<< >>)) /\ DOMAIN << >> = {}
    OBVIOUS
  <2> QED  BY <2>1, <2>1a, <2>3, <2>4
<1>4. ASSUME NEW id \in DOMAIN g
      PROVE  IsNode(h, id)
  <2>1. IsNode(g, id)
    BY DEF IsGraph, HasLists
  <2>2. h[id] = g[id] /\ OsmId(h, id) = OsmId(g, id) /\ Pos(h, id) = Pos(g, id) /\ GetEdges(h, id) = GetEdges(g, id)
    BY <1>1 DEF OsmId, Pos, GetEdges, HasNode
  <2> QED  BY <2>1, <2>2
<1>5. \A id \in DOMAIN h : IsNode(h, id)
  <2> HIDE DEF IsNode
  <2> QED  BY <1>1, <1>3, <1>4
<1>6. HasLists(h)
  BY <1>1, <1>5 DEF HasLists
<1>7. ASSUME NEW id \in DOMAIN h
      PROVE  /\ Pos(h, id) = <<Pos(h, id)[1], Pos(h, id)[2]>>
             /\ \A i \in DOMAIN GetEdges(h, id) :
                   LET e == GetEdges(h, id)[i] IN
                   /\ e = [to |-> e.to, cost |-> e.cost] /\ e.to \in Int \ {0}
                   /\ EdgesTo(GetEdges(h, id), e.to) = {i}
  <2>1. IsNode(h, id)
    BY <1>5
  <2> QED  BY <2>1
<1> HIDE DEF IsNode
<1> QED  BY <1>2, <1>6, <1>7, Zenon DEF IsGraph

---------------------------------------------------------------------------
(* Profiles *)

\* all are the strings of n penalties.
AreStringsOf(penalties, n, all) ==
    /\ Len(all) = 2 * n
    /\ \A i \in 1 .. n : all[2 * (i - 1) + 1] = penalties[i].key /\ all[2 * (i - 1) + 2] = penalties[i].value

\* Each penalty has two strings.
LEMMA StringsOfPenalties ==
    ASSUME NEW S, NEW penalties, NEW n \in Nat, DOMAIN penalties = 1 .. n,
           \A i \in 1 .. n : penalties[i].key \in S /\ penalties[i].value \in S,
           NEW pairs, pairs = [i \in DOMAIN penalties |-> <<penalties[i].key, penalties[i].value>>]
    PROVE  FlattenSeq(pairs) \in Seq(S) /\ AreStringsOf(penalties, n, FlattenSeq(pairs))
<1>1. /\ pairs \in [1 .. n -> Seq(S)]
      /\ \A i \in 1 .. n : Len(pairs[i]) = 2 /\ pairs[i][1] = penalties[i].key /\ pairs[i][2] = penalties[i].value
  <2>1. \A x, y \in S : <<x, y>> \in Seq(S) /\ Len(<<x, y>>) = 2
    OBVIOUS
  <2>2. \A i \in 1 .. n : <<penalties[i].key, penalties[i].value>> \in Seq(S)
    BY <2>1
  <2> QED  BY <2>1, <2>2
<1>2. pairs \in Seq(Seq(S)) /\ Len(pairs) = n
  BY <1>1
<1>3. PICK all : all = FlattenSeq(pairs) /\ all = Store!FlattenSeq(pairs)
  BY SameFlattenSeq
<1>4. PICK o : Store!Flattens(S, pairs, o, all)
  BY <1>2, <1>3, Store!FlattenIs
<1>5. /\ all \in Seq(S) /\ Len(all) = o[n]
      /\ \A k \in 1 .. n : \A j \in 1 .. Len(pairs[k]) : all[o[k - 1] + j] = pairs[k][j]
      /\ o[0] = 0 /\ \A k \in 1 .. n : o[k] = o[k - 1] + Len(pairs[k])
  BY <1>2, <1>4 DEF Store!Flattens, Store!Ends
<1>6. \A k \in 0 .. n : o[k] = 2 * k
  <2> DEFINE P == {k \in 0 .. n : o[k] = 2 * k}
  <2>1. 0 \in P
    BY <1>5
  <2>2. ASSUME NEW k \in 1 .. n, k - 1 \in P
        PROVE  k \in P
    BY <1>1, <1>5, <2>2
  <2>3. \A k \in 0 .. n : k \in P
    <3> HIDE DEF P
    <3> QED  BY <2>1, <2>2, Store!UpTo
  <2> QED  BY <2>3
<1>7. ASSUME NEW i \in 1 .. n
      PROVE  all[2 * (i - 1) + 1] = penalties[i].key /\ all[2 * (i - 1) + 2] = penalties[i].value
  <2>1. PICK a \in Nat : a = 2 * (i - 1)
    OBVIOUS
  <2>2. o[i - 1] = a
    BY <1>6, <2>1
  <2>3. 1 \in 1 .. Len(pairs[i]) /\ 2 \in 1 .. Len(pairs[i])
    BY <1>1
  <2>4. all[o[i - 1] + 1] = pairs[i][1] /\ all[o[i - 1] + 2] = pairs[i][2]
    BY <1>5, <2>3
  <2> QED  BY <1>1, <2>1, <2>2, <2>4
<1>8. Len(all) = 2 * n
  BY <1>5, <1>6
<1> QED  BY <1>3, <1>5, <1>7, <1>8 DEF AreStringsOf

\* a, b and c, one after the other.
JoinsThree(a, b, c, all) ==
    /\ Len(all) = (Len(a) + Len(b)) + Len(c)
    /\ \A i \in 1 .. Len(a) : all[i] = a[i]
    /\ \A i \in 1 .. Len(b) : all[Len(a) + i] = b[i]
    /\ \A i \in 1 .. Len(c) : all[(Len(a) + Len(b)) + i] = c[i]

LEMMA ThreeInOne ==
    ASSUME NEW S, NEW a \in Seq(S), NEW b \in Seq(S), NEW c \in Seq(S)
    PROVE  a \o b \o c \in Seq(S) /\ JoinsThree(a, b, c, a \o b \o c)
<1>1. PICK ab : ab = a \o b /\ ab \in Seq(S) /\ Store!Joins(a, b, ab)
  BY Store!Concatenation
<1>2. PICK all : all = ab \o c /\ all \in Seq(S) /\ Store!Joins(ab, c, all)
  BY <1>1, Store!Concatenation
<1>3. /\ Len(ab) = Len(a) + Len(b)
      /\ \A x \in 1 .. Len(a) : x \in 1 .. Len(ab) /\ ab[x] = a[x]
      /\ \A j \in 1 .. Len(b) : Len(a) + j \in 1 .. Len(ab) /\ ab[Len(a) + j] = b[j]
  BY <1>1 DEF Store!Joins
<1>4. /\ Len(all) = Len(ab) + Len(c)
      /\ \A x \in 1 .. Len(ab) : x \in 1 .. Len(all) /\ all[x] = ab[x]
      /\ \A j \in 1 .. Len(c) : Len(ab) + j \in 1 .. Len(all) /\ all[Len(ab) + j] = c[j]
  BY <1>2 DEF Store!Joins
<1>5. Len(all) = (Len(a) + Len(b)) + Len(c)
  BY <1>3, <1>4
<1>6. \A i \in 1 .. Len(a) : all[i] = a[i]
  BY <1>3, <1>4
<1>7. \A i \in 1 .. Len(b) : all[Len(a) + i] = b[i]
  BY <1>3, <1>4
<1>8. \A i \in 1 .. Len(c) : all[(Len(a) + Len(b)) + i] = c[i]
  BY <1>3, <1>4
<1>9. JoinsThree(a, b, c, all)
  BY <1>5, <1>6, <1>7, <1>8 DEF JoinsThree
<1>10. all = a \o b \o c
  BY <1>1, <1>2
<1> QED  BY <1>2, <1>9, <1>10

\* The table of a profile: its name, its m access tags, and the strings of its n
\* penalties.
IsTableOf(c, m, n, table) ==
    /\ table \in Seq(ToSet(table))
    /\ Len(table) = (1 + m) + 2 * n
    /\ table[1] = c.name
    /\ \A i \in 1 .. m : table[1 + i] = c.access[i]
    /\ \A i \in 1 .. n : /\ table[(1 + m) + (2 * (i - 1) + 1)] = c.penalties[i].key
                         /\ table[(1 + m) + (2 * (i - 1) + 2)] = c.penalties[i].value

LEMMA TableIs ==
    ASSUME NEW c, NEW m \in Nat, m = Len(c.access), NEW n \in Nat, n = Len(c.penalties),
           c.access \in Seq(ToSet(c.access)), c.penalties \in Seq(ToSet(c.penalties))
    PROVE  IsTableOf(c, m, n, BuildStringTable(c))
<1>1. PICK access : access = c.access
  OBVIOUS
<1>2. PICK penalties : penalties = c.penalties
  OBVIOUS
<1>3. DOMAIN penalties = 1 .. n /\ DOMAIN access = 1 .. m
  BY <1>1, <1>2
<1>4. PICK S : S = {c.name} \cup ToSet(access) \cup {penalties[i].key : i \in 1 .. n} \cup {penalties[i].value : i \in 1 .. n}
  OBVIOUS
<1>5. PICK pairs : pairs = [i \in DOMAIN penalties |-> <<penalties[i].key, penalties[i].value>>]
  OBVIOUS
<1>6. \A i \in 1 .. n : penalties[i].key \in S /\ penalties[i].value \in S
  BY <1>4
<1>7. PICK strings : strings = FlattenSeq(pairs) /\ strings \in Seq(S) /\ AreStringsOf(penalties, n, strings)
  BY <1>3, <1>5, <1>6, StringsOfPenalties
<1>8. PICK name : name = <<c.name>> /\ name \in Seq(S) /\ Len(name) = 1 /\ name[1] = c.name
  <2>1. c.name \in S
    BY <1>4
  <2>2. \A x \in S : <<x>> \in Seq(S) /\ Len(<<x>>) = 1 /\ <<x>>[1] = x
    OBVIOUS
  <2> QED  BY <2>1, <2>2
<1>9. access \in Seq(S) /\ Len(access) = m
  <2>1. access \in Seq(ToSet(access)) /\ ToSet(access) \subseteq S
    BY <1>1, <1>4
  <2> QED  BY <1>1, <2>1
<1>10. PICK table : table = name \o access \o strings /\ table \in Seq(S) /\ JoinsThree(name, access, strings, table)
  BY <1>7, <1>8, <1>9, ThreeInOne
<1>11. table = BuildStringTable(c)
  BY <1>1, <1>2, <1>5, <1>7, <1>8, <1>10 DEF BuildStringTable
<1>12. /\ Len(strings) = 2 * n
       /\ \A i \in 1 .. n : /\ strings[2 * (i - 1) + 1] = penalties[i].key
                            /\ strings[2 * (i - 1) + 2] = penalties[i].value
  BY <1>7 DEF AreStringsOf
<1>13. /\ Len(table) = (1 + m) + 2 * n
       /\ \A i \in 1 .. 1 : table[i] = name[i]
       /\ \A i \in 1 .. m : table[1 + i] = access[i]
       /\ \A i \in 1 .. 2 * n : table[(1 + m) + i] = strings[i]
  BY <1>8, <1>9, <1>10, <1>12 DEF JoinsThree
<1>14. ASSUME NEW i \in 1 .. n
       PROVE  /\ table[(1 + m) + (2 * (i - 1) + 1)] = penalties[i].key
              /\ table[(1 + m) + (2 * (i - 1) + 2)] = penalties[i].value
  <2>1. PICK a \in Nat : a = 2 * (i - 1)
    OBVIOUS
  <2>2. a + 1 \in 1 .. 2 * n /\ a + 2 \in 1 .. 2 * n
    BY <2>1
  <2>4. table[(1 + m) + (a + 1)] = strings[a + 1] /\ table[(1 + m) + (a + 2)] = strings[a + 2]
    BY <1>13, <2>2
  <2>5. strings[a + 1] = penalties[i].key /\ strings[a + 2] = penalties[i].value
    BY <1>12, <2>1
  <2> QED  BY <2>1, <2>4, <2>5
<1>15. table \in Seq(ToSet(table))
  <2>1. table \in Seq(Store!ToSet(table))
    BY <1>10, Store!ListedByItsOwn
  <2> QED  BY <2>1, SameSet
<1>16. table[1] = c.name
  <2>1. 1 \in 1 .. 1
    OBVIOUS
  <2> QED  BY <1>8, <1>13, <2>1, Zenon
<1>17. IsTableOf(c, m, n, table)
  BY <1>1, <1>2, <1>13, <1>14, <1>15, <1>16 DEF IsTableOf
<1> QED  BY <1>11, <1>17


\* The places of the strings of a penalty, as the code and as the table has them.
LEMMA Reassociate ==
    \A x, y \in Nat : x + 2 * (y - 1) + 1 = x + (2 * (y - 1) + 1) /\ x + 2 * (y - 1) + 2 = x + (2 * (y - 1) + 2)
OBVIOUS

\* A profile comes back from the table of its strings as it went in.
LEMMA ProfileComesBack ==
    ASSUME CustomProfilesAssumption, NEW ptr \in DOMAIN CustomProfiles
    PROVE  AsRust(CustomProfiles[ptr]) = CustomProfiles[ptr]
<1>1. PICK c : c = CustomProfiles[ptr]
  OBVIOUS
<1>2. /\ c = [name |-> c.name, penalties |-> c.penalties, access |-> c.access,
              disallow_motorroad |-> c.disallow_motorroad, disable_restrictions |-> c.disable_restrictions]
      /\ c.access \in Seq(ToSet(c.access)) /\ c.penalties \in Seq(ToSet(c.penalties))
      /\ \A i \in DOMAIN c.penalties :
            c.penalties[i] = [key |-> c.penalties[i].key, value |-> c.penalties[i].value,
                              penalty |-> c.penalties[i].penalty]
  BY <1>1, Zenon DEF CustomProfilesAssumption
<1>3. PICK name, penalties, access : name = c.name /\ penalties = c.penalties /\ access = c.access
  OBVIOUS
<1>3a. access \in Seq(ToSet(access)) /\ penalties \in Seq(ToSet(penalties))
  BY <1>2, <1>3, Zenon
<1>4. PICK m \in Nat : m = Len(access) /\ DOMAIN access = 1 .. m
  BY <1>3a
<1>5. PICK n \in Nat : n = Len(penalties) /\ DOMAIN penalties = 1 .. n
  BY <1>3a
<1>6. PICK table : table = BuildStringTable(c)
  OBVIOUS
<1>7. IsTableOf(c, m, n, table)
  BY <1>2, <1>3, <1>4, <1>5, <1>6, TableIs
<1>8. /\ table \in Seq(ToSet(table))
      /\ Len(table) = (1 + m) + 2 * n
      /\ table[1] = name
      /\ \A i \in 1 .. m : table[1 + i] = access[i]
      /\ \A i \in 1 .. n : /\ table[(1 + m) + (2 * (i - 1) + 1)] = penalties[i].key
                           /\ table[(1 + m) + (2 * (i - 1) + 2)] = penalties[i].value
  BY <1>3, <1>7 DEF IsTableOf
<1>9. PICK as : as = AccessAsRust(c, table)
  OBVIOUS
<1>10. as = access
  <2>1. as = SubSeq(table, 2, 1 + m)
    BY <1>3, <1>4, <1>9 DEF AccessAsRust
  <2>2. as \in Seq(ToSet(table)) /\ Len(as) = m /\ \A i \in 1 .. m : as[i] = table[1 + i]
    BY <1>8, <2>1
  <2>3. \A i \in 1 .. m : as[i] = access[i]
    BY <1>8, <2>2, Zenon
  <2>4. \A s \in Seq(ToSet(table)) : s = [i \in 1 .. Len(s) |-> s[i]]
    OBVIOUS
  <2>5. as = [i \in 1 .. m |-> as[i]]
    BY <2>2, <2>4
  <2>6. access = [i \in 1 .. m |-> access[i]]
    BY <1>2, <1>3, <1>4
  <2> QED  BY <2>3, <2>5, <2>6
<1>11. PICK ps : ps = PenaltiesAsRust(c, table)
  OBVIOUS
<1>12. ps = penalties
  <2>1. ps = [i \in 1 .. n |-> [key |-> table[(1 + m) + 2 * (i - 1) + 1], value |-> table[(1 + m) + 2 * (i - 1) + 2],
                                penalty |-> penalties[i].penalty]]
    BY <1>3, <1>4, <1>5, <1>11 DEF PenaltiesAsRust
  <2>2. ASSUME NEW i \in 1 .. n
        PROVE  ps[i] = penalties[i]
    <3>1. 1 + m \in Nat /\ i \in Nat
      OBVIOUS
    <3>2. /\ (1 + m) + 2 * (i - 1) + 1 = (1 + m) + (2 * (i - 1) + 1)
          /\ (1 + m) + 2 * (i - 1) + 2 = (1 + m) + (2 * (i - 1) + 2)
      BY <3>1, Reassociate, Zenon
    <3>3. /\ table[(1 + m) + 2 * (i - 1) + 1] = penalties[i].key
          /\ table[(1 + m) + 2 * (i - 1) + 2] = penalties[i].value
      BY <1>8, <3>2, Zenon
    <3>4. ps[i] = [key |-> penalties[i].key, value |-> penalties[i].value, penalty |-> penalties[i].penalty]
      BY <2>1, <3>3, Zenon
    <3> QED  BY <1>2, <1>3, <1>5, <3>4, Zenon
  <2>3. ps = [i \in 1 .. n |-> ps[i]] /\ penalties = [i \in 1 .. n |-> penalties[i]]
    BY <1>2, <1>3, <1>5, <2>1
  <2> QED  BY <2>2, <2>3
<1>13. AsRust(c) = [name |-> table[1], penalties |-> ps, access |-> as,
                    disallow_motorroad |-> c.disallow_motorroad, disable_restrictions |-> c.disable_restrictions]
  BY <1>6, <1>9, <1>11 DEF AsRust
<1> QED  BY <1>1, <1>2, <1>3, <1>8, <1>10, <1>12, <1>13

\* The predefined profiles are in the order of their numbers.
LEMMA PredefinedNames ==
    /\ DOMAIN PredefinedProfiles = 1 .. 7
    /\ \A i \in 1 .. 7 : PredefinedProfiles[i].name =
           <<"motorcar", "bus", "bicycle", "foot", "train", "tram", "subway">>[i]
<1>1. CAR_PROFILE.name = "motorcar"
  BY DEF CAR_PROFILE
<1>2. BUS_PROFILE.name = "bus"
  BY DEF BUS_PROFILE
<1>3. BICYCLE_PROFILE.name = "bicycle"
  BY DEF BICYCLE_PROFILE
<1>4. FOOT_PROFILE.name = "foot"
  BY DEF FOOT_PROFILE
<1>5. RAILWAY_PROFILE.name = "train"
  BY DEF RAILWAY_PROFILE, Rails
<1>6. TRAM_PROFILE.name = "tram"
  BY DEF TRAM_PROFILE, Rails
<1>7. SUBWAY_PROFILE.name = "subway"
  BY DEF SUBWAY_PROFILE, Rails
<1> QED  BY <1>1, <1>2, <1>3, <1>4, <1>5, <1>6, <1>7 DEF PredefinedProfiles

---------------------------------------------------------------------------
(* What the client's memory and its file hold *)

GraphHeld == graph # NULL => IsGraph(TheGraph)

\* A buffer is the file of a graph, and a file is the beginning of one.
ContentHeld ==
    serialized # NoContent =>
        /\ serialized.capacity # 0
        /\ \E g : /\ IsGraph(g)
                  /\ heap[serialized.content].value = Rows(g) /\ serialized.len = Len(Rows(g))

FileHeld ==
    file # None =>
        \E g : IsGraph(g) /\ \E n \in 0 .. Len(Rows(g)) : file = <<SubSeq(Rows(g), 1, n)>>

SavedHeld ==
    saved # None => \E g : IsGraph(g) /\ saved = <<g>> /\ file = <<Rows(g)>>

\* What came out of an iterator and what is still in it.
IteratorHeld ==
    iterator # NULL =>
        /\ graph # NULL
        /\ seen \in Seq(Int)
        /\ heap[iterator].value \in Seq(Int \ {0})

Held ==
    /\ GraphHeld
    /\ ContentHeld
    /\ FileHeld
    /\ SavedHeld
    /\ IteratorHeld
    /\ IterationIsWhole

LEMMA GraphStays ==
    ASSUME GraphHeld, UNCHANGED graph, graph # NULL => heap'[graph] = heap[graph]
    PROVE  GraphHeld'
BY DEF GraphHeld, TheGraph

LEMMA ContentStays ==
    ASSUME ContentHeld, UNCHANGED serialized, serialized.capacity # 0 => heap'[serialized.content] = heap[serialized.content]
    PROVE  ContentHeld'
BY DEF ContentHeld

LEMMA FileStays ==
    ASSUME FileHeld, SavedHeld, UNCHANGED <<file, saved>>
    PROVE  FileHeld' /\ SavedHeld'
BY DEF FileHeld, SavedHeld

LEMMA IteratorStays ==
    ASSUME IteratorHeld, IterationIsWhole, UNCHANGED <<graph, iterator, seen>>,
           iterator # NULL => heap'[iterator] = heap[iterator] /\ heap'[graph] = heap[graph]
    PROVE  IteratorHeld' /\ IterationIsWhole'
<1>1. CASE iterator = NULL
  BY <1>1 DEF IteratorHeld, IterationIsWhole
<1>2. CASE iterator # NULL
  <2>1. TheGraph' = TheGraph /\ (heap[iterator].value)' = heap[iterator].value
    BY <1>2 DEF TheGraph
  <2>2. IteratorHeld'
    BY <1>2, <2>1 DEF IteratorHeld
  <2>3. IterationIsWhole'
    BY <1>2, <2>1 DEF IterationIsWhole
  <2> QED  BY <2>2, <2>3
<1> QED  BY <1>1, <1>2

\* Without an iterator there is nothing to say of one.
LEMMA NoIterator ==
    ASSUME iterator' = NULL
    PROVE  IteratorHeld' /\ IterationIsWhole'
BY DEF IteratorHeld, IterationIsWhole

\* A step that touches neither the graph nor the iterator nor the buffer.
LEMMA AllStays ==
    ASSUME Held, UNCHANGED <<graph, iterator, serialized, file, saved, seen>>,
           graph # NULL => heap'[graph] = heap[graph],
           iterator # NULL => heap'[iterator] = heap[iterator],
           serialized.capacity # 0 => heap'[serialized.content] = heap[serialized.content]
    PROVE  Held'
<1>1. GraphHeld' /\ ContentHeld' /\ FileHeld' /\ SavedHeld'
  BY GraphStays, ContentStays, FileStays DEF Held
<1>2. iterator # NULL => heap'[iterator] = heap[iterator] /\ heap'[graph] = heap[graph]
  BY DEF Held, IteratorHeld
<1>3. IteratorHeld' /\ IterationIsWhole'
  BY <1>2, IteratorStays DEF Held
<1> QED  BY <1>1, <1>3 DEF Held

\* Where the handles are.
LEMMA Places ==
    ASSUME IInv
    PROVE  /\ graph # NULL => graph \in DOMAIN heap /\ graph # iterator /\ graph # kd_tree /\ graph \notin RouteVec
           /\ iterator # NULL => iterator \in DOMAIN heap /\ iterator # kd_tree /\ iterator \notin RouteVec
           /\ serialized.capacity # 0 =>
                 /\ serialized.content \in DOMAIN heap
                 /\ serialized.content \notin Boxes /\ serialized.content \notin RouteVec
BY DEF IInv, MemoryIsOwned, OwnersDiffer, BoxesDiffer, Boxes, SerializedVec

LEMMA DroppedKeeps ==
    ASSUME NEW ptr, NEW type, NEW capacity, Dropped(ptr, type, capacity)
    PROVE  \A b \in DOMAIN heap \ {ptr} : heap'[b] = heap[b]
BY DEF Dropped

LEMMA DropBoxKeeps ==
    ASSUME NEW ptr, DropBox(ptr)
    PROVE  \A b \in DOMAIN heap : b # ptr => heap'[b] = heap[b]
<1>1. CASE ptr = NULL
  BY <1>1 DEF DropBox
<1>2. CASE ptr # NULL
  BY <1>2, DroppedKeeps DEF DropBox
<1> QED  BY <1>1, <1>2

LEMMA DropVecKeeps ==
    ASSUME NEW ptr, NEW capacity, DropVec(ptr, capacity)
    PROVE  \A b \in DOMAIN heap : b # ptr \/ capacity = 0 => heap'[b] = heap[b]
<1>1. CASE ptr = NULL \/ capacity = 0
  BY <1>1 DEF DropVec
<1>2. CASE ~ (ptr = NULL \/ capacity = 0)
  BY <1>2, DroppedKeeps DEF DropVec
<1> QED  BY <1>1, <1>2

LEMMA LeakedVecKeeps ==
    ASSUME NEW ptr, NEW values, NEW capacity, LeakedVec(ptr, values, capacity)
    PROVE  \A b \in DOMAIN heap : heap'[b] = heap[b]
<1>1. CASE capacity = 0
  BY <1>1 DEF LeakedVec
<1>2. CASE capacity # 0
  BY <1>2, AllocatedAdds DEF LeakedVec
<1> QED  BY <1>1, <1>2

---------------------------------------------------------------------------
(* Steps on what is held *)

\* Memory that only a route or a tree has.
LEMMA OthersHold ==
    ASSUME IInv, Held, FindRoute \/ RouteResultDelete \/ GraphSimplifyRoute \/ KdTreeNew \/ KdTreeDelete
    PROVE  Held'
<1>1. UNCHANGED <<graph, iterator, serialized, file, saved, seen>>
  BY DEF FindRoute, RouteResultDelete, GraphSimplifyRoute, KdTreeNew, KdTreeDelete
<1>2. \A b \in DOMAIN heap : b # kd_tree /\ b \notin RouteVec => heap'[b] = heap[b]
  <2>1. CASE FindRoute
    <3>1. ASSUME NEW ptr, NEW values, NEW capacity, LeakedVec(ptr, values, capacity)
          PROVE  \A b \in DOMAIN heap : heap'[b] = heap[b]
      BY <3>1, LeakedVecKeeps
    <3> QED  BY <2>1, <3>1 DEF FindRoute
  <2>2. CASE RouteResultDelete
    <3>1. CASE route.type_ = "Ok"
      <4>1. DropVec(route.words[1], route.words[3])
        BY <2>2, <3>1 DEF RouteResultDelete
      <4>2. \A b \in DOMAIN heap : b # route.words[1] \/ route.words[3] = 0 => heap'[b] = heap[b]
        BY <4>1, DropVecKeeps
      <4>3. route.words[3] # 0 => RouteVec = {route.words[1]}
        BY <3>1 DEF RouteVec
      <4> QED  BY <4>2, <4>3
    <3>2. CASE route.type_ # "Ok"
      BY <2>2, <3>2 DEF RouteResultDelete
    <3> QED  BY <3>1, <3>2
  <2>3. CASE GraphSimplifyRoute
    BY <2>3 DEF GraphSimplifyRoute
  <2>4. CASE KdTreeNew
    <3>1. ASSUME NEW a, NEW object, Allocated(a, object)
          PROVE  \A b \in DOMAIN heap : heap'[b] = heap[b]
      BY <3>1, AllocatedAdds
    <3> QED  BY <2>4, <3>1 DEF KdTreeNew
  <2>5. CASE KdTreeDelete
    BY <2>5, DropBoxKeeps DEF KdTreeDelete
  <2> QED  BY <2>1, <2>2, <2>3, <2>4, <2>5
<1>3. serialized.capacity # 0 => serialized.content # kd_tree
  <2>1. serialized.capacity # 0 => serialized.content \in Addresses
    BY DEF IInv, MemoryIsOwned, SerializedVec
  <2> QED  BY <2>1, Places, AddressesAssumption DEF Boxes
<1>4. /\ graph # NULL => heap'[graph] = heap[graph]
      /\ iterator # NULL => heap'[iterator] = heap[iterator]
      /\ serialized.capacity # 0 => heap'[serialized.content] = heap[serialized.content]
  BY <1>2, <1>3, Places
<1> QED  BY <1>1, <1>4, AllStays

\* A function that makes another graph of the client's.
LEMMA ChangeHolds ==
    ASSUME IInv, Held, MayChange, NEW g, IsGraph(g),
           heap' = [heap EXCEPT ![graph].value = g], UNCHANGED handles, UNCHANGED <<file, saved>>
    PROVE  Held'
<1>1. graph # NULL /\ iterator = NULL /\ UNCHANGED <<graph, iterator, serialized>>
  BY DEF MayChange, handles
<1>2. graph \in DOMAIN heap /\ IsBox(heap[graph])
  BY <1>1, Places DEF IInv, HandlesFit, Boxes
<1>3. heap'[graph].value = g
  BY <1>2 DEF IsBox, Box
<1>4. \A b \in DOMAIN heap : b # graph => heap'[b] = heap[b]
  OBVIOUS
<1>5. GraphHeld'
  BY <1>1, <1>3 DEF GraphHeld, TheGraph
<1>6. ContentHeld'
  <2>1. serialized.capacity # 0 => serialized.content \in DOMAIN heap /\ serialized.content # graph
    BY <1>1, Places DEF Boxes
  <2> QED  BY <1>1, <1>4, <2>1, ContentStays DEF Held
<1>7. IteratorHeld' /\ IterationIsWhole'
  BY <1>1, NoIterator
<1> QED  BY <1>5, <1>6, <1>7, FileStays DEF Held

LEMMA ChangesHold ==
    ASSUME IInv, Held, NodesAssumption, GraphSetNode \/ GraphDeleteNode \/ GraphSetEdge \/ GraphDeleteEdge
    PROVE  Held'
<1>1. MayChange
  BY DEF GraphSetNode, GraphDeleteNode, GraphSetEdge, GraphDeleteEdge
<1>2. PICK g : g = TheGraph /\ IsGraph(g)
  BY <1>1 DEF Held, GraphHeld, MayChange
<1>3. ASSUME NEW h, IsGraph(h), Changes(h)
      PROVE  Held'
  <2>1. heap' = [heap EXCEPT ![graph].value = h] /\ UNCHANGED handles /\ UNCHANGED <<file, saved>>
    BY <1>3 DEF Changes
  <2> QED  BY <1>1, <1>3, <2>1, ChangeHolds
<1>4. CASE GraphSetNode
  <2>1. PICK id \in DOMAIN Nodes : Changes(SetNode(g, id, Nodes[id].osm_id, Nodes[id].pos))
    BY <1>2, <1>4 DEF GraphSetNode
  <2>2. PICK osm_id, pos : osm_id = Nodes[id].osm_id /\ pos = Nodes[id].pos
    OBVIOUS
  <2>3. id \in Int \ {0} /\ pos = <<pos[1], pos[2]>>
    BY <2>2 DEF NodesAssumption
  <2>4. IsGraph(SetNode(g, id, osm_id, pos))
    BY <1>2, <2>3, SetNodeKeepsGraph
  <2> QED  BY <1>3, <2>1, <2>2, <2>4
<1>5. CASE GraphDeleteNode
  BY <1>2, <1>3, <1>5, DeleteNodeKeepsGraph DEF GraphDeleteNode
<1>6. CASE GraphSetEdge
  <2>1. PICK e \in Edges : Changes(SetEdge(g, e.from, [to |-> e.to, cost |-> e.cost]))
    BY <1>2, <1>6 DEF GraphSetEdge
  <2>2. PICK from, to, cost : from = e.from /\ to = e.to /\ cost = e.cost
    OBVIOUS
  <2>3. to \in Int \ {0}
    BY <2>2, EdgesAssumption DEF NodesAssumption
  <2> QED  BY <1>2, <1>3, <2>1, <2>2, <2>3, SetEdgeKeepsGraph
<1>7. CASE GraphDeleteEdge
  BY <1>2, <1>3, <1>7, DeleteEdgeKeepsGraph DEF GraphDeleteEdge
<1> QED  BY <1>4, <1>5, <1>6, <1>7

LEMMA GraphHolds ==
    ASSUME IInv, Held, AddressesAssumption, GraphNew \/ GraphDelete
    PROVE  Held'
<1>1. iterator = NULL /\ UNCHANGED <<iterator, serialized, file, saved>>
  BY DEF GraphNew, GraphDelete, Held, IteratorHeld
<1>2. CASE GraphNew
  <2>1. PICK a \in Addresses : Allocated(a, Box(EmptyGraph)) /\ graph' = a
    BY <1>2 DEF GraphNew
  <2>2. heap'[a] = Box(EmptyGraph) /\ \A b \in DOMAIN heap : heap'[b] = heap[b]
    BY <2>1, AllocatedAdds
  <2>3. heap'[a].value = EmptyGraph
    BY <2>2 DEF Box
  <2>4. GraphHeld'
    BY <2>1, <2>3, EmptyGraphIsGraph DEF GraphHeld, TheGraph
  <2>5. ContentHeld'
    BY <1>1, <2>2, Places, ContentStays DEF Held
  <2> QED  BY <1>1, <2>4, <2>5, FileStays, NoIterator DEF Held
<1>3. CASE GraphDelete
  <2>1. DropBox(graph) /\ graph' = NULL
    BY <1>3 DEF GraphDelete
  <2>2. \A b \in DOMAIN heap : b # graph => heap'[b] = heap[b]
    BY <2>1, DropBoxKeeps
  <2>3. GraphHeld'
    BY <2>1 DEF GraphHeld
  <2>4. ContentHeld'
    <3>1. serialized.capacity # 0 => serialized.content \in Addresses
      BY DEF IInv, MemoryIsOwned, SerializedVec
    <3>2. serialized.capacity # 0 => serialized.content \in DOMAIN heap /\ serialized.content # graph
      BY <3>1, Places, AddressesAssumption DEF Boxes
    <3> QED  BY <1>1, <2>2, <3>2, ContentStays DEF Held
  <2> QED  BY <1>1, <2>3, <2>4, FileStays, NoIterator DEF Held
<1> QED  BY <1>2, <1>3

---------------------------------------------------------------------------
(* Iteration *)

\* The first of rest has moved to the end of done.
HasMoved(done, rest, now, left) ==
    /\ now \o left = done \o rest
    /\ Len(now) = Len(done) + 1
    /\ now[Len(done) + 1] = Head(rest)

LEMMA Moving ==
    ASSUME NEW S, NEW done \in Seq(S), NEW rest \in Seq(S), rest # << >>
    PROVE  HasMoved(done, rest, Append(done, Head(rest)), Tail(rest))
BY DEF HasMoved

LEMMA Ended ==
    ASSUME NEW S, NEW done \in Seq(S), NEW x \in S
    PROVE  /\ Append(done, x) \in Seq(S)
           /\ Len(Append(done, x)) = Len(done) + 1 /\ Len(done) + 1 > 0
           /\ Append(done, x)[Len(done) + 1] = x
           /\ SubSeq(Append(done, x), 1, (Len(done) + 1) - 1) = done
           /\ done \o << >> = done
OBVIOUS

\* seen and rest are ids, of which rest are still to come.
IsWhole(ids, done, rest) ==
    IF Len(done) > 0 /\ done[Len(done)] = 0 THEN SubSeq(done, 1, Len(done) - 1) = ids
    ELSE done \o rest = ids

LEMMA OneMore ==
    ASSUME NEW ids, NEW done \in Seq(Int), NEW rest \in Seq(Int \ {0}), rest # << >>,
           IsWhole(ids, done, rest), Len(done) > 0 => done[Len(done)] # 0
    PROVE  IsWhole(ids, Append(done, Head(rest)), Tail(rest))
<1>1. rest \in Seq(Int) /\ Head(rest) \in Int \ {0}
  OBVIOUS
<1>2. PICK now : now = Append(done, Head(rest))
  OBVIOUS
<1>3. now \o Tail(rest) = done \o rest /\ Len(now) = Len(done) + 1 /\ now[Len(done) + 1] = Head(rest)
  <2>1. HasMoved(done, rest, Append(done, Head(rest)), Tail(rest))
    BY <1>1, Moving
  <2> QED  BY <1>2, <2>1, Zenon DEF HasMoved
<1>4. done \o rest = ids
  BY DEF IsWhole
<1>5. now[Len(now)] # 0
  BY <1>1, <1>3
<1>6. IsWhole(ids, now, Tail(rest))
  BY <1>3, <1>4, <1>5 DEF IsWhole
<1> QED  BY <1>2, <1>6

LEMMA NoMore ==
    ASSUME NEW ids, NEW done \in Seq(Int),
           IsWhole(ids, done, << >>), Len(done) > 0 => done[Len(done)] # 0
    PROVE  IsWhole(ids, Append(done, 0), << >>)
<1>1. PICK now : now = Append(done, 0)
  OBVIOUS
<1>2. /\ Len(now) = Len(done) + 1 /\ Len(done) + 1 > 0 /\ now[Len(done) + 1] = 0
      /\ SubSeq(now, 1, (Len(done) + 1) - 1) = done
      /\ done \o << >> = done
  BY <1>1, Ended
<1>3. done = ids
  BY <1>2 DEF IsWhole
<1>4. IsWhole(ids, now, << >>)
  BY <1>2, <1>3 DEF IsWhole
<1> QED  BY <1>1, <1>4

LEMMA WholeIteration ==
    IterationIsWhole <=> (iterator # NULL => IsWhole(InOrder(TheGraph), seen, heap[iterator].value))
BY DEF IterationIsWhole, IsWhole

LEMMA WholeIterationNext ==
    ASSUME iterator' # NULL => IsWhole(InOrder(TheGraph'), seen', heap'[iterator'].value)
    PROVE  IterationIsWhole'
BY DEF IterationIsWhole, IsWhole, TheGraph

LEMMA IterationHolds ==
    ASSUME IInv, Held, AddressesAssumption, GraphGetNodes \/ IteratorNext \/ IteratorDelete
    PROVE  Held'
<1>1. UNCHANGED <<graph, serialized, file, saved>>
  BY DEF GraphGetNodes, IteratorNext, IteratorDelete, handles
<1>2. ASSUME graph # NULL => heap'[graph] = heap[graph],
             serialized.capacity # 0 => heap'[serialized.content] = heap[serialized.content]
      PROVE  GraphHeld' /\ ContentHeld' /\ FileHeld' /\ SavedHeld'
  BY <1>1, <1>2, GraphStays, ContentStays, FileStays DEF Held
<1>3. serialized.capacity # 0 => serialized.content \in DOMAIN heap /\ serialized.content # iterator
  <2>1. serialized.capacity # 0 => serialized.content \in Addresses
    BY DEF IInv, MemoryIsOwned, SerializedVec
  <2> QED  BY <2>1, Places, AddressesAssumption DEF Boxes
<1>4. CASE GraphGetNodes
  <2>1. PICK a \in Addresses : Allocated(a, Box(InOrder(TheGraph))) /\ iterator' = a
    BY <1>4 DEF GraphGetNodes
  <2>2. heap'[a] = Box(InOrder(TheGraph)) /\ \A b \in DOMAIN heap : heap'[b] = heap[b]
    BY <2>1, AllocatedAdds
  <2>3. heap'[a].value = InOrder(TheGraph)
    BY <2>2 DEF Box
  <2>4. graph # NULL /\ graph \in DOMAIN heap /\ IsGraph(TheGraph) /\ seen' = << >>
    BY <1>4, Places DEF GraphGetNodes, Held, GraphHeld
  <2>5. TheGraph' = TheGraph
    BY <1>1, <2>2, <2>4 DEF TheGraph
  <2>6. PICK ids : ids = InOrder(TheGraph) /\ ids \in Seq(Int \ {0})
    BY <2>4, OrderIsOfIds
  <2>7. IsWhole(ids, << >>, ids)
    <3>1. << >> \o ids = ids /\ ~ (Len(<< >>) > 0)
      BY <2>6
    <3> QED  BY <3>1 DEF IsWhole
  <2>8. IterationIsWhole'
    BY <2>1, <2>3, <2>4, <2>5, <2>6, <2>7, WholeIterationNext
  <2>9. IteratorHeld'
    BY <1>1, <2>1, <2>3, <2>4, <2>6 DEF IteratorHeld
  <2> QED  BY <1>2, <1>3, <2>2, <2>4, <2>8, <2>9 DEF Held
<1>5. CASE IteratorNext
  <2>1. iterator # NULL /\ UNCHANGED iterator
    BY <1>5 DEF IteratorNext, handles
  <2>2. PICK v : v = heap[iterator].value
    OBVIOUS
  <2>3. /\ graph # NULL /\ graph \in DOMAIN heap /\ graph # iterator
        /\ iterator \in DOMAIN heap /\ IsBox(heap[iterator])
        /\ seen \in Seq(Int) /\ v \in Seq(Int \ {0})
    BY <2>1, <2>2, Places DEF Held, IteratorHeld, IInv, HandlesFit, Boxes
  <2>4. IsWhole(InOrder(TheGraph), seen, v)
    BY <2>1, <2>2, WholeIteration DEF Held
  <2>5. Len(seen) > 0 => seen[Len(seen)] # 0
    BY <1>5 DEF IteratorNext
  <2>6. CASE v # << >>
    <3>1. seen' = Append(seen, Head(v)) /\ heap' = [heap EXCEPT ![iterator].value = Tail(v)]
      BY <1>5, <2>2, <2>6 DEF IteratorNext
    <3>2. heap'[iterator].value = Tail(v) /\ \A b \in DOMAIN heap : b # iterator => heap'[b] = heap[b]
      BY <2>3, <3>1 DEF IsBox, Box
    <3>3. TheGraph' = TheGraph
      BY <1>1, <2>3, <3>2 DEF TheGraph
    <3>4. IsWhole(InOrder(TheGraph), seen', Tail(v))
      BY <2>3, <2>4, <2>5, <2>6, <3>1, OneMore
    <3>5. IterationIsWhole'
      BY <2>1, <3>2, <3>3, <3>4, WholeIterationNext
    <3>6. seen' \in Seq(Int) /\ Tail(v) \in Seq(Int \ {0})
      BY <2>3, <2>6, <3>1
    <3>7. IteratorHeld'
      BY <1>1, <2>1, <2>3, <3>2, <3>6 DEF IteratorHeld
    <3> QED  BY <1>2, <1>3, <2>3, <3>2, <3>5, <3>7 DEF Held
  <2>7. CASE v = << >>
    <3>1. seen' = Append(seen, 0) /\ UNCHANGED heap
      BY <1>5, <2>2, <2>7 DEF IteratorNext
    <3>2. IsWhole(InOrder(TheGraph), seen', v)
      BY <2>3, <2>4, <2>5, <2>7, <3>1, NoMore
    <3>3. TheGraph' = TheGraph
      BY <1>1, <3>1 DEF TheGraph
    <3>4. IterationIsWhole'
      BY <2>1, <2>2, <3>1, <3>2, <3>3, WholeIterationNext
    <3>5. IteratorHeld'
      <4>1. seen' \in Seq(Int)
        BY <2>3, <3>1
      <4> QED  BY <1>1, <2>1, <2>2, <2>3, <3>1, <4>1 DEF IteratorHeld
    <3> QED  BY <1>2, <3>1, <3>4, <3>5 DEF Held
  <2> QED  BY <2>6, <2>7
<1>6. CASE IteratorDelete
  <2>1. DropBox(iterator) /\ iterator' = NULL
    BY <1>6 DEF IteratorDelete
  <2>2. \A b \in DOMAIN heap : b # iterator => heap'[b] = heap[b]
    BY <2>1, DropBoxKeeps
  <2> QED  BY <1>2, <1>3, <2>1, <2>2, Places, NoIterator DEF Held
<1> QED  BY <1>4, <1>5, <1>6

---------------------------------------------------------------------------
(* Buffers and files *)

LEMMA WholeAndParts ==
    ASSUME NEW S, NEW rows \in Seq(S), NEW n \in 0 .. Len(rows)
    PROVE  /\ SubSeq(rows, 1, Len(rows)) = rows
           /\ Len(SubSeq(rows, 1, n)) = n
           /\ \A k \in 0 .. n : SubSeq(SubSeq(rows, 1, n), 1, k) = SubSeq(rows, 1, k)
<1>1. SubSeq(rows, 1, Len(rows)) = rows /\ Len(SubSeq(rows, 1, n)) = n
  OBVIOUS
<1>2. ASSUME NEW k \in 0 .. n
      PROVE  SubSeq(SubSeq(rows, 1, n), 1, k) = SubSeq(rows, 1, k)
  OBVIOUS
<1> QED  BY <1>1, <1>2

\* rows are the first n of those of the graph g.
IsPartOf(rows, g, n) == IsGraph(g) /\ n \in 0 .. Len(Rows(g)) /\ rows = SubSeq(Rows(g), 1, n)

\* A part of a part is a part, and a whole is one.
LEMMA PartOfPart ==
    ASSUME NEW rows, NEW g, NEW n, IsPartOf(rows, g, n)
    PROVE  Len(rows) = n /\ \A k \in 0 .. n : IsPartOf(SubSeq(rows, 1, k), g, k)
<1>1. PICK all : all = Rows(g) /\ all \in Seq(ToSet(all))
  BY FileIsOfRows DEF IsPartOf
<1>2. n \in 0 .. Len(all) /\ rows = SubSeq(all, 1, n) /\ IsGraph(g)
  BY <1>1 DEF IsPartOf
<1>3. Len(rows) = n
  BY <1>1, <1>2, WholeAndParts
<1>4. ASSUME NEW k \in 0 .. n
      PROVE  IsPartOf(SubSeq(rows, 1, k), g, k)
  <2>1. SubSeq(SubSeq(all, 1, n), 1, k) = SubSeq(all, 1, k)
    BY <1>1, <1>2, WholeAndParts
  <2>2. k \in 0 .. Len(all)
    BY <1>1, <1>2
  <2> QED  BY <1>1, <1>2, <2>1, <2>2, Zenon DEF IsPartOf
<1> QED  BY <1>3, <1>4

LEMMA WholeIsPart ==
    ASSUME NEW g, IsGraph(g)
    PROVE  IsPartOf(Rows(g), g, Len(Rows(g)))
<1>1. PICK all : all = Rows(g) /\ all \in Seq(ToSet(all)) /\ Len(all) \in Nat
  BY FileIsOfRows
<1>2. Len(all) \in 0 .. Len(all)
  BY <1>1
<1>3. SubSeq(all, 1, Len(all)) = all
  BY <1>1, <1>2, WholeAndParts
<1> QED  BY <1>1, <1>2, <1>3, Zenon DEF IsPartOf

\* So is whatever is read from one.
LEMMA PartReads ==
    ASSUME NEW rows, NEW g, NEW n, IsPartOf(rows, g, n), NEW b, IsGraph(b)
    PROVE  IsGraph(ReadBin(b, rows))
<1>1. IsGraph(g) /\ n \in 0 .. Len(Rows(g)) /\ rows = SubSeq(Rows(g), 1, n)
  BY DEF IsPartOf
<1>2. IsGraph(ReadBin(b, SubSeq(Rows(g), 1, n)))
  BY <1>1, ReadBinKeepsGraph
<1> QED  BY <1>1, <1>2

LEMMA FileIsPart ==
    FileHeld <=> (file # None => \E g, n : IsPartOf(file[1], g, n) /\ file = <<file[1]>>)
<1>1. ASSUME FileHeld, file # None
      PROVE  \E g, n : IsPartOf(file[1], g, n) /\ file = <<file[1]>>
  <2>1. PICK g : IsGraph(g) /\ \E n \in 0 .. Len(Rows(g)) : file = <<SubSeq(Rows(g), 1, n)>>
    BY <1>1 DEF FileHeld
  <2>2. PICK n \in 0 .. Len(Rows(g)) : file = <<SubSeq(Rows(g), 1, n)>>
    BY <2>1
  <2>3. PICK rows : rows = SubSeq(Rows(g), 1, n) /\ file = <<rows>>
    BY <2>2
  <2>4. file[1] = rows
    BY <2>3
  <2> QED  BY <2>1, <2>3, <2>4 DEF IsPartOf
<1>2. ASSUME file # None, NEW g, NEW n, IsPartOf(file[1], g, n), file = <<file[1]>>
      PROVE  FileHeld
  <2>1. PICK rows : rows = SubSeq(Rows(g), 1, n) /\ file[1] = rows
    BY <1>2 DEF IsPartOf
  <2>2. IsGraph(g) /\ n \in 0 .. Len(Rows(g)) /\ file = <<SubSeq(Rows(g), 1, n)>>
    BY <1>2, <2>1 DEF IsPartOf
  <2> QED  BY <2>2 DEF FileHeld
<1>3. file = None => FileHeld
  BY DEF FileHeld
<1> QED  BY <1>1, <1>2, <1>3

LEMMA FileWritten ==
    ASSUME NEW rows, NEW g, NEW n, IsPartOf(rows, g, n), file' = <<rows>>
    PROVE  FileHeld'
<1>1. IsGraph(g) /\ n \in 0 .. Len(Rows(g)) /\ file' = <<SubSeq(Rows(g), 1, n)>>
  BY DEF IsPartOf
<1> QED  BY <1>1 DEF FileHeld

\* What write_bin leaves is a part of the file, and all of it if it says so.
LEMMA WrittenIsPart ==
    ASSUME NEW g, IsGraph(g), NEW w \in WriteBin(g)
    PROVE  \E n : IsPartOf(w.rows, g, n) /\ (w.returned => w.rows = Rows(g))
<1>1. CASE w = [rows |-> Rows(g), returned |-> TRUE]
  <2>1. w.rows = Rows(g)
    BY <1>1
  <2> QED  BY <2>1, WholeIsPart
<1>2. CASE \E n \in 0 .. Len(Rows(g)) - 1 : w = [rows |-> SubSeq(Rows(g), 1, n), returned |-> FALSE]
  <2>1. PICK n \in 0 .. Len(Rows(g)) - 1 : w = [rows |-> SubSeq(Rows(g), 1, n), returned |-> FALSE]
    BY <1>2
  <2>2. w.rows = SubSeq(Rows(g), 1, n) /\ ~ w.returned
    BY <2>1
  <2>3. n \in 0 .. Len(Rows(g))
    BY FileIsOfRows
  <2> QED  BY <2>2, <2>3 DEF IsPartOf
<1> QED  BY <1>1, <1>2 DEF WriteBin

LEMMA FilesHold ==
    ASSUME IInv, Held, WriteToFile \/ ReadFromFile
    PROVE  Held'
<1>1. CASE WriteToFile
  <2>1. PICK g : g = TheGraph /\ IsGraph(g)
    BY <1>1 DEF WriteToFile, Held, GraphHeld
  <2>2. UNCHANGED <<heap, graph, iterator, serialized, seen>>
    BY <1>1 DEF WriteToFile, handles
  <2>3. GraphHeld' /\ ContentHeld' /\ IteratorHeld' /\ IterationIsWhole'
    BY <2>2, GraphStays, ContentStays, IteratorStays DEF Held
  <2>4. CASE file' = file /\ saved' = saved
    BY <2>3, <2>4, FileStays DEF Held
  <2>5. ASSUME NEW w \in WriteBin(g), file' = <<w.rows>>, saved' = (IF w.returned THEN <<g>> ELSE None)
        PROVE  Held'
    <3>1. PICK n : IsPartOf(w.rows, g, n) /\ (w.returned => w.rows = Rows(g))
      BY <2>1, <2>5, WrittenIsPart
    <3>2. FileHeld'
      BY <2>5, <3>1, FileWritten
    <3>3. SavedHeld'
      BY <2>1, <2>5, <3>1 DEF SavedHeld
    <3> QED  BY <2>3, <3>2, <3>3 DEF Held
  <2> QED  BY <1>1, <2>1, <2>4, <2>5 DEF WriteToFile
<1>2. CASE ReadFromFile
  <2>1. MayChange /\ file # None
    BY <1>2 DEF ReadFromFile
  <2>2. PICK b : b = TheGraph /\ IsGraph(b)
    BY <2>1 DEF Held, GraphHeld, MayChange
  <2>3. PICK k \in 0 .. Len(file[1]) : Changes(ReadBin(b, SubSeq(file[1], 1, k)))
    BY <1>2, <2>2 DEF ReadFromFile
  <2>4. PICK rows : rows = file[1]
    OBVIOUS
  <2>5. PICK g, n : IsPartOf(rows, g, n)
    BY <2>1, <2>4, FileIsPart DEF Held
  <2>6. IsPartOf(SubSeq(rows, 1, k), g, k)
    <3>1. Len(rows) = n
      BY <2>5, PartOfPart
    <3>2. k \in 0 .. n
      BY <2>4, <3>1
    <3> QED  BY <2>5, <3>2, PartOfPart
  <2>7. PICK h : h = ReadBin(b, SubSeq(rows, 1, k)) /\ IsGraph(h)
    BY <2>2, <2>6, PartReads
  <2>8. heap' = [heap EXCEPT ![graph].value = h] /\ UNCHANGED handles /\ UNCHANGED <<file, saved>>
    BY <2>3, <2>4, <2>7 DEF Changes
  <2> QED  BY <2>1, <2>7, <2>8, ChangeHolds
<1> QED  BY <1>1, <1>2

LEMMA BuffersHold ==
    ASSUME IInv, Held, AddressesAssumption, WriteToMemory \/ SerializedGraphDelete \/ ReadFromMemory
    PROVE  Held'
<1>1. CASE WriteToMemory
  <2>1. UNCHANGED <<graph, iterator, file, saved, seen>> /\ serialized = NoContent
    BY <1>1 DEF WriteToMemory
  <2>2. PICK g : g = TheGraph /\ IsGraph(g)
    BY <1>1 DEF WriteToMemory, Held, GraphHeld
  <2>3. CASE UNCHANGED <<heap, serialized>>
    BY <2>1, <2>3, AllStays
  <2>4. ASSUME NEW ptr, NEW capacity \in Capacities(Rows(g)), LeakedVec(ptr, Rows(g), capacity),
               serialized' = [content |-> ptr, len |-> Len(Rows(g)), capacity |-> capacity]
        PROVE  Held'
    <3>1. PICK rows : rows = Rows(g)
      OBVIOUS
    <3>2. capacity # 0
      <4>1. Len(rows) \in Nat /\ Len(rows) >= 2
        BY <2>2, <3>1, FileIsOfRows
      <4>2. capacity = Len(rows) \/ capacity = Len(rows) + 1
        BY <2>4, <3>1 DEF Capacities
      <4> QED  BY <4>1, <4>2
    <3>3. Allocated(ptr, Vec(rows, capacity))
      BY <2>4, <3>1, <3>2 DEF LeakedVec
    <3>4. heap'[ptr] = Vec(rows, capacity) /\ \A b \in DOMAIN heap : heap'[b] = heap[b]
      BY <3>3, AllocatedAdds
    <3>5. heap'[ptr].value = rows
      BY <3>4 DEF Vec
    <3>6. serialized'.content = ptr /\ serialized'.len = Len(rows) /\ serialized'.capacity = capacity
      BY <2>4, <3>1
    <3>7. ContentHeld'
      BY <2>2, <3>1, <3>2, <3>5, <3>6 DEF ContentHeld
    <3>8. /\ graph # NULL => heap'[graph] = heap[graph]
          /\ iterator # NULL => heap'[iterator] = heap[iterator] /\ heap'[graph] = heap[graph]
      BY <3>4, Places DEF Held, IteratorHeld
    <3> QED  BY <2>1, <3>7, <3>8, GraphStays, FileStays, IteratorStays DEF Held
  <2> QED  BY <1>1, <2>2, <2>3, <2>4 DEF WriteToMemory
<1>2. CASE SerializedGraphDelete
  <2>1. UNCHANGED <<graph, iterator, file, saved, seen>> /\ serialized' = NoContent
    BY <1>2 DEF SerializedGraphDelete
  <2>2. ContentHeld'
    BY <2>1 DEF ContentHeld
  <2>3. \A b \in DOMAIN heap : b # serialized.content \/ serialized.capacity = 0 => heap'[b] = heap[b]
    BY <1>2, DropVecKeeps DEF SerializedGraphDelete
  <2>4. /\ graph # NULL => heap'[graph] = heap[graph]
        /\ iterator # NULL => heap'[iterator] = heap[iterator] /\ heap'[graph] = heap[graph]
    BY <2>3, Places DEF Held, IteratorHeld, Boxes
  <2> QED  BY <2>1, <2>2, <2>4, GraphStays, FileStays, IteratorStays DEF Held
<1>3. CASE ReadFromMemory
  <2>1. MayChange /\ serialized # NoContent
    BY <1>3 DEF ReadFromMemory
  <2>2. PICK b : b = TheGraph /\ IsGraph(b)
    BY <2>1 DEF Held, GraphHeld, MayChange
  <2>3. PICK g : IsGraph(g) /\ heap[serialized.content].value = Rows(g) /\ serialized.len = Len(Rows(g))
    BY <2>1 DEF Held, ContentHeld
  <2>4. PICK rows : rows = Rows(g)
    OBVIOUS
  <2>5. IsPartOf(rows, g, Len(rows)) /\ Len(rows) \in 0 .. Len(rows)
    BY <2>3, <2>4, WholeIsPart, FileIsOfRows
  <2>6. IsPartOf(SubSeq(rows, 1, Len(rows)), g, Len(rows))
    BY <2>5, PartOfPart
  <2>7. PICK h : h = ReadBin(b, SubSeq(rows, 1, Len(rows))) /\ IsGraph(h)
    BY <2>2, <2>6, PartReads
  <2>8. Changes(h)
    BY <1>3, <2>2, <2>3, <2>4, <2>7 DEF ReadFromMemory
  <2>9. heap' = [heap EXCEPT ![graph].value = h] /\ UNCHANGED handles /\ UNCHANGED <<file, saved>>
    BY <2>8 DEF Changes
  <2> QED  BY <2>1, <2>7, <2>9, ChangeHolds
<1> QED  BY <1>1, <1>2, <1>3

LEMMA LoadHolds ==
    ASSUME IInv, Held, NodesAssumption, AddFromOsm
    PROVE  Held'
<1>1. MayChange /\ UNCHANGED handles /\ UNCHANGED <<file, saved>>
  BY DEF AddFromOsm
<1>2. PICK g : g = TheGraph /\ IsGraph(g)
  BY <1>1 DEF Held, GraphHeld, MayChange
<1>3. PICK ids \in SUBSET (DOMAIN Nodes \ DOMAIN g) :
          heap' = [heap EXCEPT ![graph].value =
                      [id \in DOMAIN @ \cup ids |->
                          IF id \in ids THEN [osm_id |-> Nodes[id].osm_id, pos |-> Nodes[id].pos, edges |-> << >>]
                          ELSE @[id]]]
  BY <1>2 DEF AddFromOsm
<1>4. PICK h : h = [id \in DOMAIN g \cup ids |->
                       IF id \in ids THEN [osm_id |-> Nodes[id].osm_id, pos |-> Nodes[id].pos, edges |-> << >>]
                       ELSE g[id]]
  OBVIOUS
<1>5. heap' = [heap EXCEPT ![graph].value = h]
  BY <1>2, <1>3, <1>4 DEF TheGraph
<1>6. IsGraph(h)
  BY <1>2, <1>4, LoadKeepsGraph
<1> QED  BY <1>1, <1>5, <1>6, ChangeHolds

\* The file outlives the process, which may die while it writes it.
LEMMA RestartHolds ==
    ASSUME Held, Restart
    PROVE  Held'
<1>1. graph' = NULL /\ iterator' = NULL /\ serialized' = NoContent
  BY DEF Restart
<1>2. GraphHeld' /\ ContentHeld' /\ IteratorHeld' /\ IterationIsWhole'
  BY <1>1, NoIterator DEF GraphHeld, ContentHeld
<1>3. CASE UNCHANGED <<file, saved>>
  BY <1>2, <1>3, FileStays DEF Held
<1>4. ASSUME graph # NULL, NEW w \in WriteBin(TheGraph), file' = <<w.rows>>, saved' = None
      PROVE  Held'
  <2>1. IsGraph(TheGraph)
    BY <1>4 DEF Held, GraphHeld
  <2>2. FileHeld'
    BY <1>4, <2>1, WrittenIsPart, FileWritten
  <2>3. SavedHeld'
    BY <1>4 DEF SavedHeld
  <2> QED  BY <1>2, <2>2, <2>3 DEF Held
<1> QED  BY <1>3, <1>4 DEF Restart

LEMMA InitHolds ==
    ASSUME Init
    PROVE  Held
<1>1. graph = NULL /\ iterator = NULL /\ serialized = NoContent /\ file = None /\ saved = None
  BY DEF Init
<1> QED  BY <1>1 DEF Held, GraphHeld, ContentHeld, FileHeld, SavedHeld, IteratorHeld, IterationIsWhole

LEMMA HeldIsKept ==
    ASSUME AddressesAssumption, NodesAssumption, IInv, Held, [Next]_vars
    PROVE  Held'
<1>1. CASE Call
  BY <1>1, GraphHolds, ChangesHold, IterationHolds, OthersHold, BuffersHold, FilesHold, LoadHolds DEF Call
<1>2. CASE Restart
  BY <1>2, RestartHolds
<1>3. CASE UNCHANGED vars
  BY <1>3, AllStays DEF vars, handles
<1> QED  BY <1>1, <1>2, <1>3 DEF Next

\* What was saved reads as it was, without edges that lead nowhere.
LEMMA SavedReads == Held => TrueMeansWritten
<1> SUFFICES ASSUME Held, saved # None
             PROVE  LET g == saved[1] IN
                    ReadBin(EmptyGraph, file[1]) = [id \in DOMAIN g |-> [g[id] EXCEPT !.edges = LivingEdges(g, id)]]
  BY DEF TrueMeansWritten
<1>1. PICK g : IsGraph(g) /\ saved = <<g>> /\ file = <<Rows(g)>>
  BY DEF Held, SavedHeld
<1>2. PICK rows : rows = Rows(g) /\ file = <<rows>>
  BY <1>1
<1>3. saved[1] = g /\ file[1] = rows
  BY <1>1, <1>2
<1> QED  BY <1>1, <1>2, <1>3, FileReadsAsGraph

---------------------------------------------------------------------------
(* What arrives at the loader *)

LEMMA ProfileArrives ==
    ASSUME CustomProfilesAssumption, AddFromOsm
    PROVE  ProfilesArriveAsGiven'
<1>1. PICK ptr \in DOMAIN PredefinedProfiles \cup DOMAIN CustomProfiles, format \in DOMAIN FormatOf :
          options' = <<[ptr |-> ptr, profile |-> ProfileAt(ptr), file_format |-> FormatOf[format]]>>
  BY DEF AddFromOsm
<1>2. PICK o : o = [ptr |-> ptr, profile |-> ProfileAt(ptr), file_format |-> FormatOf[format]] /\ options' = <<o>>
  BY <1>1
<1>3. options'[1] = o /\ o.ptr = ptr /\ o.profile = ProfileAt(ptr)
  BY <1>2
<1>4. CASE ptr \in DOMAIN CustomProfiles
  <2>1. ptr \notin DOMAIN PredefinedProfiles
    BY <1>4 DEF CustomProfilesAssumption
  <2>2. ProfileAt(ptr) = CustomProfiles[ptr]
    BY <1>4, <2>1, ProfileComesBack DEF ProfileAt
  <2> QED  BY <1>3, <1>4, <2>2 DEF ProfilesArriveAsGiven
<1>5. CASE ptr \notin DOMAIN CustomProfiles
  <2>1. ptr \in 1 .. 7 /\ ptr \in DOMAIN PredefinedProfiles
    BY <1>1, <1>5, PredefinedNames
  <2>2. ProfileAt(ptr).name = <<"motorcar", "bus", "bicycle", "foot", "train", "tram", "subway">>[ptr]
    BY <2>1, PredefinedNames, Zenon DEF ProfileAt
  <2> QED  BY <1>3, <1>5, <2>2, Zenon DEF ProfilesArriveAsGiven
<1> QED  BY <1>4, <1>5

LEMMA OptionsArrive ==
    ASSUME CustomProfilesAssumption, ProfilesArriveAsGiven, [Next]_vars
    PROVE  ProfilesArriveAsGiven'
<1>1. CASE options' = None
  BY <1>1 DEF ProfilesArriveAsGiven
<1>2. CASE AddFromOsm
  BY <1>2, ProfileArrives
<1>3. CASE options' = options
  BY <1>3 DEF ProfilesArriveAsGiven
<1>4. Call => AddFromOsm \/ options' = None
  BY DEF Call, GraphNew, GraphDelete, GraphSetNode, GraphDeleteNode, GraphSetEdge, GraphDeleteEdge, Changes,
         GraphGetNodes, IteratorNext, IteratorDelete, FindRoute, RouteResultDelete, GraphSimplifyRoute,
         KdTreeNew, KdTreeDelete, WriteToMemory, SerializedGraphDelete, ReadFromMemory, WriteToFile, ReadFromFile
<1>5. Restart => options' = None
  BY DEF Restart
<1> QED  BY <1>1, <1>2, <1>3, <1>4, <1>5 DEF Next, vars

---------------------------------------------------------------------------
(* Theorems *)

\* Whatever a client that keeps to the documentation calls, and in whatever
\* order: routx_*_delete frees what routx_* allocated, and as what it was
\* allocated.
THEOREM ClientCallsAreDefined == Spec => []CallsAreDefined
<1>1. IInv => CallsAreDefined
  BY DEF IInv
<1> QED  BY <1>1, InitIsOwned, OwnershipIsKept, AddressesAssumption, PTL DEF Spec

\* Each piece of memory that the library gave away belongs to exactly one of
\* the handles that the client has, so that no call loses memory or gives it
\* to two.
THEOREM ClientLeaksNothing == Spec => []NothingLeaks
<1>1. IInv => NothingLeaks
  BY OwnedMemory DEF IInv
<1> QED  BY <1>1, InitIsOwned, OwnershipIsKept, AddressesAssumption, PTL DEF Spec

\* The client's memory and its file always hold what they should.
LEMMA ClientHolds == Spec => [](IInv /\ Held)
<1>1. Init => IInv /\ Held
  BY InitIsOwned, InitHolds
<1>2. IInv /\ Held /\ [Next]_vars => (IInv /\ Held)'
  BY OwnershipIsKept, HeldIsKept, AddressesAssumption, NodesAssumption
<1> QED  BY <1>1, <1>2, PTL DEF Spec

\* Once routx_graph_write_to_file has returned true, and however often the
\* process dies before the file is written again, it reads as that graph.
THEOREM SavedGraphsAreRead == Spec => []TrueMeansWritten
BY ClientHolds, SavedReads, PTL

\* An iterator of routx_graph_get_nodes is never invalidated by what the client
\* may call meanwhile: it returns all nodes in order, each once, and then zero.
THEOREM IterationsAreWhole == Spec => []IterationIsWhole
<1>1. IInv /\ Held => IterationIsWhole
  BY DEF Held
<1> QED  BY <1>1, ClientHolds, PTL

\* COsmProfile's conversion hands every string of a profile to the place that it
\* came from, however long the arrays are, and a predefined number means the
\* profile that the header gives it.
THEOREM ProfilesArrive == Spec => []ProfilesArriveAsGiven
<1>1. Init => ProfilesArriveAsGiven
  BY DEF Init, ProfilesArriveAsGiven
<1>2. ProfilesArriveAsGiven /\ [Next]_vars => ProfilesArriveAsGiven'
  BY OptionsArrive, CustomProfilesAssumption
<1> QED  BY <1>1, <1>2, PTL DEF Spec

=============================================================================
