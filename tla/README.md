# A specification of routx

[routx](../src/README.md) reads OpenStreetMap data into a routing graph and
finds cheapest routes in it. It is a Rust library with a command line and a
C/C++ interface. This directory specifies in TLA+ what its core does, checks
the specification with TLC on small instances, and proves the properties that
matter most with TLAPS for all instances.

The code is the reference: each action stands for one function, loop iteration
or critical section of it, and the comments before the definitions use the
source's names. `PROJECT.json` maps each definition to its lines.

## 1. The system

Everything but the logger is sequential: a `Graph` has one owner, the operations
that change it take `&mut self`, and searches take `&self`. What is hard here is
not concurrency but *long sequences of legal steps whose effects meet in one
data structure*: restriction after restriction, load after load, item after item
of a priority queue.

| Component (source) | State | Operations | Where it gets hard | What makes it correct |
|---|---|---|---|---|
| **Graph** (`graph.rs`, `lib.rs`) | `BTreeMap` id → (node, list of edges) | `set_node`, `delete_node`, `set_edge`, `delete_edge`, `clone_edges`, lookups | `delete_node` leaves edges that dangle; a list of edges is searched for the *first* match while `push` and `swap_remove` reorder it | one edge per pair of nodes; the lists are a map to their users |
| **A\* search** (`astar.rs`) | heap, `came_from`, `known_costs`, step count | `find_route`, `find_route_without_turn_around` | superseded items stay in the heap; ties; links overwritten while older items are queued; the destination may be reached through clones | returns; the answer is a real route, a cheapest one; an empty answer is justified |
| **Graph builder** (`graph_builder.rs`) | next clone id, unused nodes, nodes of ways; the graph | `add_node`, `add_way`, `add_relation`, cleanup | turn restrictions clone nodes and relink edges, each on what earlier ones left; several loads into one graph; a reader that fails half way | walks through the graph are exactly the lawful ones; edges never undercut the distance; clones stay consistent |
| **Profiles** (`profile.rs`, `osm/mod.rs`) | none | penalty, directions, kind of restriction, from tags | several tags say something about one mode; several rows match | the most specific tag decides, the first row counts; what the builder asserts of ways |
| **OSM loading** (`osm/reader/mod.rs`, `model.rs`) | none | format detection, decompression, `add_features` | the format is guessed from what one read returns; errors end the load half way | a file's features arrive in order however they are encoded; a guess is never wrong |
| **PBF reader** (`osm/reader/pbf/mod.rs`) | what is read next, whether a header was seen, the rest of a block | `next` feature | sizes that lie, blobs that are missing, cut or unknown, deltas summed by column and group | whole blobs or nothing; a checked header first; an end |
| **PBF messages** (`pbf/osmformat.rs`, `fileformat.rs`, generated) | a message | `merge_from`, `is_initialized` | fields in any order, repeated, missing or unknown | as protocol buffers are read |
| **XML reader** (`osm/reader/xml.rs`) | the feature that is open | `next` feature | elements that are out of place, not valid, or open at the end of the file | each feature has its own elements |
| **Binary serialization** (`serialize/`) | header and nodes seen so far | write, read | a file that is cut is not noticed; reading merges into a graph; dangling edges | reading is a union; a cut loses the end only |
| **k-d tree** (`kd.rs`) | tree of copies of nodes | build, nearest node | skipping a half; ties; clones | the nearest node |
| **Line simplification** (`rdp.rs`) | stack of segments, the output written over the input | `simplify` | writes must not overtake reads; rings | the recursive algorithm |
| **C interface: logging** (`c.rs`) | the global logger | `routx_set_logging_callback` | **threads**: three filters read at three times, a mutex held while foreign code runs | the callback that runs is the one that is set; calls return |
| **C interface: the rest** (`c.rs`, `bindings/`) | what is allocated; files | constructors, destructors, iterators, results, files, profiles as C structures | memory handed over in parts, a union, lengths that are cast, a client that dies | calls of a client that keeps to the header are defined and leak nothing; `true` means written |
| **Command line** (`main.rs`) | none | load, search, print | – | – |

They interact by calls. The readers return features to the builder, one by one,
until the end or an error. The builder changes the owner's graph. Searches read a
graph and rely on what the builder and `Graph` keep: the estimate of A\* is
admissible only because `GraphBuilder` makes costs of at least the distance and
because every clone lies where its canonical node does. All parts log through
the global logger.

## 2. Modules

```
Graph
 |-- GraphStore (owner's calls) ---- implements GraphMap (two maps)
 |        \-- GraphStoreProofs, MCGraphStore
 |-- Routing (routes, cheapest costs)
 |    |-- RouteQuery (contract of a call)
 |    \-- AStar -------------------- implements RouteQuery
 |             \-- AStarProofs, MCAStar, MCAStarDocs
 |-- TurnRestrictions
 |    \-- GraphBuilder (+ Profile)
 |             \-- RestrictedRoads (+ TurnRules)
 |                      \-- BuilderProofs, MCRoads
 |-- TurnRules (what restrictions mean)
 |-- BinaryFormat
 |    |-- BinaryStore (written, cut, read)
 |    |        \-- BinaryStoreProofs, MCBinaryStore
 |    \-- CClient (+ Profile)
 |             \-- CClientProofs (+ BinaryStoreProofs), MCCClient
 \-- KdTree -- NearestNode -- MCNearestNode

Profile -- Tagging (a map is edited) -- TaggingProofs, MCTagging
Rdp -- RdpProofs, MCRdp (+ Graph)
OsmFeatures
 |-- XmlReader
 \-- PbfReader (+ PbfMessages)
          \-- OsmLoading (+ XmlReader) -- MCOsmLoading
CLogger (threads) -- CLoggerProofs, MCCLogger
```

A line goes from a module to one that extends it; `+` names the other modules it
extends.

**Graph** has the operations of `graph.rs` as operators on a graph value, a
function from ids to `[osm_id, pos, edges]`. `edges` is a sequence because the
code's order matters: `PutEdge` updates the first match or appends, `SwapRemove`
moves the last edge into the gap.

**GraphStore** makes these operations steps, with what they return. **GraphMap**
is what their documentation promises: a map from ids to nodes and a map from pairs
of ids to costs, with no order. `GraphStore` implements `GraphMap` under a mapping
that reads the costs off the first matches.

**Routing** says what a route is, with and without A-B-A turns, and computes the
cheapest cost to the destination by repeated relaxation (`CostToGo`).
**RouteQuery** is the contract of a call in terms of these: it is answered once,
by the right error, a cheapest route, an empty route if there is none, or by giving
up. **AStar** is `find_route_inner` and `reconstruct_path`, for both kinds of
`SearchNode`. A step is one iteration: taking an item from the heap (`Arrive`,
`Skip`, `GiveUp`, `Expand`), one edge (`Relax`, `PassOver`), one link
(`StepBack`). Items are ordered by score only, so which of several least items
`pop` returns is left open.

**TurnRestrictions** takes a relation to a sequence of nodes
(`get_restriction_nodes`) and that to a `GraphChange`. **GraphBuilder** is the
builder over whole *sessions*: loads into one graph, complete or failing,
and deletions by its owner. A feature is one step, as the builder has the graph
for itself. The order in which a change's hash tables are applied is open.

**TurnRules** says what restrictions mean, about walks and without clones.
**RestrictedRoads** runs the builder next to the *roads*, the same nodes and ways
without restrictions, and compares walks through the one with lawful walks on the
other.

**Profile** has the seven predefined profiles, row by row, and what `profile.rs`
makes of tags with them. The builder goes through it for every way and relation.
**Tagging** edits the tags of one feature, one tag a step, so that action
properties can say which edits may change what.

**BinaryFormat** has the rows that `write_bin` writes and what `read_bin` makes of
them as a whole; **BinaryStore** writes them one by one, stops anywhere, and reads
them one by one, into a graph that has nodes, with the code's flags.

**OsmFeatures** are the features of `model.rs`. **XmlReader** is the event loop of
`xml.rs`, one event a step. **PbfMessages** makes messages out of fields by one
table for each type. **PbfReader** is `FileBlocks`, which reads a size, a header or
a content a step, and `Block` and `Group`, which make features of a content.
**OsmLoading** puts a format, a decompressor and a reader together; any read may
be the last or fail. Its output, the sequence `delivered`, is what the session
of a `GraphBuilder` has as input.

**KdTree** builds and searches the tree; **NearestNode** builds one from a graph that
goes on growing. **Rdp** is the loop of `rdp.rs`, one segment a step.

**CClient** is `c.rs` under a client that keeps to `routx.h`, with a heap: an
address has a `Box`, or a `Vec` and its capacity, and a call that takes back
something else is undefined. The client may die at any point, even while it writes.

**CLogger** is the logger and `routx_set_logging_callback`, with one `pc` per
thread and a step for each critical section or access to a shared variable.

### Abstractions

- Costs and distances are natural numbers; `f32` rounding, infinities and NaN
  are not represented. `earth_distance` is a constant function `Distance`.
- Tags are functions from keys to values. The value of `except` is the set of modes
  it lists, that of a restriction the two parts at its first underscore. Penalties
  are in hundredths, and infinity is a number beyond all of them.
- The tree and its search are right in a plane only, which the source says too:
  there the distance is the squared one, with the same order. `Rdp` computes with
  exact fractions, and treats a line as a ring if its length is 0, where the code
  asks for 1e-8. NaN, on which both `kd.rs` and `graph.rs` panic, is not represented.
- A row of 24 bytes is a tuple of four numbers and is cut as a whole or not at all:
  a partial row reads as no row. The order of bytes is left out.
- A PBF message is the sequence of its `<<tag, value>>`, with the tags and wire
  types of the generated code. Its sizes, in bytes, are small numbers against small
  limits. `Info`, `ChangeSet` and boxes, which the reader does not look at, are
  unknown fields.
- XML comes as the events of `quick_xml`, with attributes that are missing,
  malformed, or parsed.
- A position is a point of a small grid. A box that is empty or all zero is
  ignored as in the code, one that is not finite is not represented.
- The heap is a bag, hash tables are sets and functions.
- A callback and its `arg` are one value; relaxed atomics of the `log` crate
  are modelled as sequentially consistent. `flush` is left out, nothing calls it.
  A poisoned mutex is left out: a callback must not unwind, and nothing else
  between lock and unlock panics. A callback that itself logs, or sets the
  handler, waits for the mutex it is called with; callbacks are taken to return.

## 3. What is checked

| Run | Question | Result |
|---|---|---|
| `astar` | Do both searches do what they promise? | holds |
| `astar_free_edges` | Does the step limit bound memory if edges may cost 0? | **no** |
| `graph_store` | Is a graph two maps to its users? | holds |
| `builder` | Given in order: does no walk break a restriction, and do two or three cost only the walks they should? Do several loads, failures and deletions keep the graph sound? | holds |
| `restrictions_out_of_order` | Do restrictions hold in any order? | **no** |
| `profiles` | Does the most specific tag decide, and can the builder rely on ways? | holds |
| `binary` | What does a copy have of a graph, if writing or reading stops anywhere? | holds |
| `loading` | Does the builder get what a file says, and no more of a bad one? | holds |
| `nearest` | Does the tree find what the search of all nodes finds? | holds |
| `simplify` | Is the loop over one buffer the recursive algorithm? | holds |
| `c_client` | Does a careful client never make the library free what it must not, and can it free everything? | holds |
| `logger` | Does the callback that is set run, alone, and do calls return? | holds |

A module's type invariant is checked where it says more than a type (`GraphStore`)
and proved for `AStar`, `CLogger`, `Rdp` and the builder.

### A\* (`MCAStar`)

Calls are: all graphs on a line of three nodes where an edge is absent, costs
its length or one more (729); graphs with a clone and a detour, the shapes that
restrictions leave; two ways of equal cost with a dangling edge, for every step
limit from 0 to 6 and every kind of bad reference; a graph in which an item is
superseded while it waits; and a ring. They are small, but between them every
branch of the loop is taken, each property has a variant of the code that
breaks it on them, and the properties that matter most are proved for all graphs.

- `LinksDescend`: links go downhill in cost, so rebuilding a path ends.
- `FrontierIsComplete`: no relaxation is ever lost to a superseded item.
- `ArrivesCheapest`: the first item of the destination to be popped has the least
  cost, clones of the destination included.
- `RouteIsReal`: the path exists, and turns round nowhere if that was asked.
- `MeetsContract`: AStar implements RouteQuery, that every call is answered
  included, and an empty answer only if there is no route.

*Fairness*: weak fairness of `Running`, one thread that runs until the function
returns.

### Graph (`MCGraphStore`)

Every sequence of calls on three ids, one position and two costs. Graphs with
more than three edges are reached and checked but not explored further
(`FewEdges`): three edges are enough for a first, a middle and a last one in a
list, which is what `swap_remove` can get wrong. Ids and costs are symmetric; the
last call is not part of the view because nothing that follows depends on it.

### Builder (`MCRoads`)

*Pairs of restrictions*: one network, all pairs of a restriction or broken relation and
a restriction, of either kind, over twelve turns with via nodes or via ways,
U-turns included, in every order of the hash tables. Walks of up to four edges
are compared; the longest restriction has three, so that a walk may enter one
from outside and leave another.

*Triples*: all that prohibit, and those of either kind among four turns that share
their via nodes, one after the other.

- `RestrictionsInOrderHold`: no walk breaks a restriction, through whatever clones.
- `OnlyRestrictionsBite`: one or two restrictions take no lawful walk away. Three may
  (section 5), and then the walk lost makes a turn that one of them is about, which
  is what the property says of any number: nothing else bites.

*Several loads*: overlapping files, a bounding box, invalid and duplicate nodes,
ways with missing, repeated and too few nodes, one-way and unroutable ways, a reader that
fails after 4, 7 or 8 features, followed by a second and a third load, another
penalty for a street before it has clones, and the deletion of a clone at the end. No
load follows a deletion, so that the id of a deleted clone is not used again
(section 5).

`restrictions_out_of_order` gives "no 1-2-5" before "no 2-3-4" (section 5).

No fairness is assumed; all properties are safety properties.

### Profiles (`MCTagging`)

All seven profiles and three odd ones (a car named "foot", a bicycle without access
tags or restrictions, and a hiker whose penalties may be too low), under four schemes of tags: kinds of
roads, access, directions, restrictions. At most three tags at once (`MaxTags`): a
general one, a specific one and a circumstance.

- `SpecificTagsShield`: as long as a tag of a mode stays, no edit of a less specific
  one opens or closes a way, turns it round or changes a restriction.
- `EarlierRowsShield`: the same for rows of penalties.
- `BuilderMayRelyOnWays`: what `create_edges` asserts in debug builds only.

### Binary files (`MCBinaryStore`)

Graphs with any of four nodes, one a clone, so that edges dangle in many ways; four
graphs to read into, with nodes and edges in common, and edges that wait for a
node; four files from elsewhere. Files are cut after any row, reading fails
at any row, and a file is read at most twice (`MaxReads`).

- `MergeIsUnion`: after a complete file a graph has what either had. An edge whose
  end is missing in the file comes to life if the graph has that end.
- `CutsLoseOnlyTheEnd`: an own file is never refused, cut or not, and of one that was
  cut the copy has a prefix.
- `ReadingNeverForgets`: no row takes anything away, whatever file it is in.

### Loading (`MCOsmLoading`)

The same four features as XML, plain and compressed, and as PBF, with plain and dense
nodes, one group or several blobs; all XML documents of up to four of twelve
elements, valid or not, that nest, and three longer odd ones; and PBF files of
up to two blobs after a header or none, of seven good blobs and twelve with one fault each
(sizes, types, missing fields, unknown compression, damaged content, members of no
type, required features). Sizes are at most 7 (`MAX_BLOB_HEADER_SIZE` 3,
`MAX_BLOB_SIZE` 7, `U32` 16), so that each limit is met, exceeded, and wrapped
by a negative size. Any read may be the last or fail, the first one included, which
returns one to eight bytes when the format has to be guessed. Each mark needs its own
bytes: five or four for XML, two for gzip, three for bzip2, eight for PBF.

- `FilesSayTheirFeatures`: a file that is read whole is delivered whole, in order.
- `GoodFilesLoad`: it fails only if it was cut or is not what it was said to be; a
  guess is never wrong, and is made whenever eight bytes can be seen, as the comment of
  `detect` asks for. With fewer, a good file may be refused as unknown, which
  `add_features_from_io` does nothing about: `fill_buf` may return any number of bytes.
- `XmlElementsStayApart`: what is delivered is, feature by feature, what the events
  that were read mean. This defines what a cut or odd file means.
- `PbfCutsLoseOnlyBlobs`, `HeadersComeFirst`: whole blobs, after a checked header.
- `Terminates`. *Fairness*: weak fairness of `Next`, one thread from call to return.

### Nearest nodes (`MCNearestNode`)

A clone and up to five nodes on five places that share coordinates, added in any
order, and searches from all points of a grid of 4 × 4, among them points on an
axis, at a node and between two. Five nodes make a tree of three levels, where a half
that must not be skipped is two levels up. `TreeFindsNearest` compares distances,
as either of two nodes may be the nearest.

### Line simplification (`MCRdp`)

All lines of up to five of four elements, one of which stands for a missing node,
the line of the repository's test, and two rings, with three tolerances.
`IsRamerDouglasPeucker` compares with the recursion and with the result the test
expects; `ReadsPrecedeWrites` and `DroppedAreNear` are proved as well. *Fairness*:
weak fairness of `Next`, one thread from call to return.

### C client (`MCCClient`)

One client with a graph of a node and a clone, whose ids are also addresses, so that
a union read in the wrong way is a pointer that could be freed. Four addresses,
at most three in use at once (`MaxAllocated`), two edges, one of them from a node to
itself, a `u32` of six values, and
capacities that may exceed lengths by one. A route that is not empty has two nodes;
longer ones would be owned and freed in the same way. Where a length or capacity does not
fit its field, the code panics and the process ends, which is a `Restart`. Five clients use two or three groups
of functions each, besides those of graphs; any of them may die and start again,
with its file as it was.

- `CallsAreDefined`, `NothingLeaks`: together, what is allocated is what the
  client's handles say, and each piece belongs to one handle. "Defined" is about
  deallocation: nothing is freed twice, as another type or with another capacity.
  What strings and arrays of the client point to is not looked into (a `NULL` with
  a length, bytes that are not UTF-8).
- `IterationIsWhole`: an iterator returns each node once, whatever else is called.
- `TrueMeansWritten`: once `routx_graph_write_to_file` has returned true, and until it
  is called again, the file has the graph, through crashes too. A crash in the middle
  leaves the old file lost and the new one cut.
- `ProfilesArriveAsGiven`: strings in C structures and in Rust are the same ones.

All five are proved as well.

### Logger (`MCCLogger`)

Three threads log errors and warnings, two of them also set handlers (errors,
warnings, or none). These make at most two calls, the third makes one (`MaxCalls`):
enough for two handlers to be set at once, and set right again, while another thread is
anywhere between the filters. The history variable `mixed` says whether the last
call that set a handler began while another was between its two steps: then
`max_level` may be left with the other's handler, and `LevelsAgree` says that
this is the only way for them to disagree. Threads may stop, so deadlock is not checked; that every call returns
is (`CallsReturn`).

*Fairness*: weak fairness of each thread's steps once it has begun a call: threads
are scheduled, callbacks return. A mutex need not be fair for this, as each thread
makes finitely many calls here.

## 4. What is proved

All with `tlapm`, for every value of the constants.

**AStarProofs.** The assumptions are named and stated in `AStar`:
`CallsAssumption` (what `Graph` guarantees: numbers, no parallel edges; the part
about graphs is what `StoreTypeCorrect` proves of `GraphStore`), `PositiveCosts`
(no free edges) and `Admissible` (the estimate never exceeds the cost to go, and
`CostToGo` satisfies the equations of cheapest costs, which TLC checks on every
call). Induction over `CostToGo` is out of the prover's reach, so its
characterisation is assumed and not derived.

1. `TypeCorrect` from `CallsAssumption`. The invariant says more than types: an item
   is made of its search node and cost, so score and position need no
   further argument.
2. `LinksDescendAlways`, adding `PositiveCosts`. The inductive invariant also relates
   the known costs of both ends of a link by an edge. It is where positive costs
   enter.
3. `RoutesAreReal`: the path rebuilt so far is a route from where it starts to the
   destination; what it grows by is a link, and links are edges and no turn-arounds.
4. `EmptyRoutesAreRight`: `FrontierIsComplete` is inductive. Every seen search node
   is queued at its known cost or has all its edges settled. When the queue is
   empty the seen nodes are closed, so that an empty answer is right
   (`EmptyRouteIsRight`).
5. `ArrivalsAreCheapest`: as long as the search runs, some queued item lies on a
   cheapest route with its right cost, and its score is no more than the cheapest
   cost by `Admissible`; the item that is popped is not dearer. Consistency is
   not needed, because nodes may be expanded again.
6. `SearchMeetsContract`: every step of `AStar` is a step of `RouteQuery` or none. The
   one that matters is the answer: `LinksAreTight` and `PathIsCheapest` enclose the
   cost of the path that is rebuilt, from below by the cost to go from where it
   starts and from above by the cost of the item that was popped, and at
   `StartIsGoal` both are the cheapest cost. That a call *is* answered is the part of
   the contract that TLC alone checks.
7. `StepLimitBoundsThePath`: a path has no more links than the step limit allows,
   as each link starts at a search node that was expanded, and costs go strictly
   down along it, so that no search node is met twice. Section 5, item 1, is the
   same with free edges, and false.

**GraphStoreProofs.** `StoreTypeCorrect` and `StoreImplementsMap`. Two lemmas about
lists carry it, on `PutEdge` and `SwapRemove`: they keep one edge per target, and what
the first match says afterwards. The cost map is then characterised by what it
*reflects* (a pair is in it with a cost if and only if the list has that edge),
each operation's effect on the lists is stated in these terms, and the map that
reflects given lists is unique.

**BuilderProofs.** About the builder over any session: any files, loads that fail
anywhere, deletions by the owner, any profile. The assumptions are
`SessionsAssumption` (features have the types of `model.rs`), `DistanceAssumption`
(distances are numbers, the same there and back), `MaxNodeIdAssumption`, and of
`RestrictedRoads` `WalkLengthAssumption` and `TurnsAssumption` (the turn that a
relation describes takes at least three nodes). What
`create_edges` and `GraphChange::apply` do to a graph is stated for one edge or node
(`SetEdgeResult`, `DeleteEdgeResult`) and carried through a whole feature by
induction over how far a loop has come (`SetEdgesKeeps` and its like).

1. `BuilderTypes`, in which the graph is one with lists of edges and the clone
   counter lies above every id (`TypeInv`), and restrictions are flattened without
   reading beyond the end of a list.
2. `ClonesTakeNoIdInUse`: a new clone never gets an id that a node has. The `expect` in
   `apply_clone_nodes` never fires.
3. `NoShortcuts` (`EdgesCoverDistance`): no edge costs less than the distance of its
   ends, clones included, which is what A\* relies on.
4. `ClonesAreNeverAlone` (`ClonesHaveCanonicals`): each clone has its canonical node,
   where it lies.
5. `LoadsLeaveNoDanglingEdge` (`OnlyDeletionsLeaveDanglingEdges`): only deletions
   leave edges that lead nowhere.
6. `OnlyFailedLoadsLeaveOrphans` (`OnlyFailuresLeaveOrphans`): between loads each node
   is on a way, except those that failed loads left.
7. `ClonesCostWhatRoadsCost` (`CostsAreThoseOfRoads`): each edge stands for a road, from
   and to the nodes that its ends are clones of, and costs the same.
8. `RestrictionsHoldInOrder` (`RestrictionsInOrderHold`): after a first load, no walk
   through the graph, of any length and through any clones, breaks a restriction, if
   none starts at a node that an earlier one clones.

`NoShortcuts` has the hypothesis that no load begins while edges dangle, and
`ClonesAreNeverAlone` adds that clones are deleted before their canonical node. Neither
is a convenience: `graph.rs:82-94` forbids deleting a node and using its id again, and a
load that does so revives the old edges with the new node's position. `LoadsAlone`
shows that both hypotheses hold by themselves as long as nothing is deleted.

Items 6 and 7 compare the graph with the roads, which are the same loads without the
restrictions. `RoadsInv` says that the roads have exactly the nodes that are no clones,
and `WayOfRoads` that a way links the same nodes in both, step by step of the two folds.
`OrphansInv` adds that unused nodes are on no road and that each of the others is, or
was abandoned; `StandForRoads` that what an edge joins, its clones taken for their nodes,
a road joins at that cost. Their hypotheses, which the run `builder` meets throughout:

- `WaysNameOsmNodes`: the nodes that ways name are below `MAX_NODE_ID`. Nothing checks
  this (only the ids of nodes are, `graph_builder.rs:55`), and a way that names a number
  above it may link a clone.
- `RoadsAreKept`: only clones are deleted. The owner who deletes one end of a one-way
  road leaves the other without a way.
- `RoadsKeepCosts`, for item 7 alone: a road with a clone at one of its ends that is
  there before and after a step costs the same. A second way along it, with another
  penalty, sets the cost of the edges between the nodes that are no clones, and never
  of the edges of clones: these keep the cost they were made with.

Item 8 is what the builder exists for. `WalksArePaths` shows that the walks which
`TurnRules` collects, one step at a time, are what a traveller sees of the paths through
the graph. The invariant `RulesInv` says that through the first load every path, *wherever
it starts*, abides by the rules so far; that no node has two edges that lead to the same
OSM node, by way of different clones (`OneEdgePerOsm`); and that only inner nodes of rules
have clones (`ClonesAreInner`). A restriction preserves it for two reasons:

- The *earlier* rules survive because the new graph is an image of the old one: what a
  node or an edge is a clone of was there before (`ChangedIsImage`), so that every new path
  is seen as an old one (`ImageAbides`). This does not depend on the order of edges.
- The *new* rule holds because the walk that `TurnRestrictions` cloned follows its edges
  (`WalkedFollows`), so that a path along the rule is on its clones
  (`PathIsOnWalk`, by induction on the steps): there the last edge has gone, of a prohibitory
  one (`LastEdgeIsGone`), and no edge leads elsewhere, of a mandatory one (`NoEdgeLeaves`).
  Where the walk gets nowhere, no path does (`NoPathAlong`).

`InOrder` is used at one place: the node that the restriction starts at has no clone then
(`OrderedBefore`), and a path along the rule must start where the builder does. Section 5
shows what becomes of a restriction whose start has one. Besides the hypotheses
`WaysNameOsmNodes` and `RoadsAreKept`, and the same for turns (`TurnsNameOsmNodes`), the
theorem has three. The run `builder` meets them all in every session:

- `WaysComeFirst`: ways are read before restrictions, as in OpenStreetMap's own files. A
  way that is read later links the nodes that are no clones, and opens the way round.
- `MembersMean`: what is read off the members of a relation is the turn that it
  describes, and it is nothing only where the roads do not have that turn. This is what
  flattening must achieve. It is not proved but checked, by the mutant of `Oriented` in
  which it fails.
- `TurnsAreThere`: a mandatory restriction whose turn breaks no earlier one finds it in the
  graph, and not closed as a side effect of the earlier ones, which is a case of
  `OnlyRestrictionsBite`. The builder drops what it cannot follow. (A mandatory one whose
  turn breaks an earlier one contradicts it, and is no rule.)

**CLoggerProofs.** `LoggerTypeCorrect`; `CallbacksAreCurrent`, inductive because the
mutex is held from reading the handler until the callback has returned, so that no
handler is set and no second callback begins in between; and
`UnmixedCallsKeepLevels`, for any number of setters: the invariant (`HalfSet`) says
that while `mixed` is false, at most one thread is between its two steps and
`max_level` is what it asked for, or none is and the levels agree.
`OneSetterNeverMixes` says that `mixed` stays false where only one thread sets handlers.
With two, the levels may disagree: the lower `max_level` of one goes with the handler of
the other, whose messages are then held back (section 5).

**RdpProofs.** From `LinesAssumption` alone (lines are sequences), for lines of any
length and any tolerance; the geometry is not looked into, so the results do not rest
on exact arithmetic. The invariant is about the *frontier*, where the segment on top
of the stack starts. Segments lie end to end, from the frontier to the end of the line
(`StackIsChain`); fewer points were written than lie before the frontier, and what
comes after the last one written is as it was (`WritesLagBehind`); the written ones
come from before the frontier, in order (`WrittenInOrder`); and nothing protrudes
from the gaps between them (`GapsAreFlat`). `ReadsPrecedeWritesAlways`,
`ResultsAreSublines`, `DroppedPointsAreNear` and `RdpTypeCorrect` follow. That a
write never passes the frontier is what makes it right to use one buffer; it needs
both that segments are not empty and that the left one is pushed last.

**CClientProofs.** `ClientCallsAreDefined` and `ClientLeaksNothing`, from
`AddressesAssumption` (memory is never at `NULL`), for any memory, graphs, lengths
and clients that keep to `routx.h`. The invariant makes the heap the disjoint union of
what five handles own: three boxes, the buffer of a result that is `Ok`, and that of
a serialized graph (`MemoryIsOwned`, `OwnersDiffer`), and says that behind each is what
its destructor takes it for, capacity included (`HandlesFit`). A buffer of capacity 0
owns nothing, wherever it points; an error owns nothing, whatever its words say.
`CallsAreDefined` is not inductive without all of this, since an address is used again.

`SavedGraphsAreRead` and `IterationsAreWhole` need, besides, what memory and the file
hold (`Held`, inductive together with the first invariant): the client's graph
is one that `set_node` and `set_edge` can make, which every call keeps; a serialized
buffer is all rows of such a graph, and a file the first rows of one, since a process
may die while it writes; a saved file is all rows of the saved graph; what an iterator
has given and what is still in it are together the nodes of the graph, and none of
them is 0, which is why a 0 can mean the end. That no id is 0 (`binary.rs:26`,
`lib.rs:56`) and ids are numbers is `NodesAssumption`. That a complete file
reads as its graph is not proved again: the section `Store` instantiates
**BinaryStoreProofs** and shows its operators to be those of the client (`SameGraph`,
`SameRows`, `SameReadBin`). `ProfilesArrive` is about the table of strings that
the conversion of a `COsmProfile` cuts up again, for arrays of any length, from
`CustomProfilesAssumption` (a `COsmProfile` has a name, two arrays and two flags, and
is not at the address of a predefined number). TLC evaluates the three assumptions on
the run `c_client`.

**BinaryStoreProofs.** `ReadingForgetsNothing`, `MergesAreUnions` and
`CutsAlwaysLoseOnlyTheEnd`, from `GraphsAssumption`: the graph that is written is one
that `set_node` and `set_edge` can make (numbers for ids, none 0, no parallel edges),
the one that is read into has lists of edges, in which parallel ones are allowed, and
foreign files are any rows. The argument has three parts.

1. *Where each row is.* A finite set of ids can be listed in order (`SetsCanBeListed`,
   by induction on its size through `LeastNatural`, from the well-foundedness of the
   naturals), so that `InOrder` has its value; flattening lists puts each where the
   lengths of those before it say (`FlattenIs`). `RowsHaveLayout` combines them: the
   k-th node is row `1 + k`, the j-th edge of the k-th node is j rows after the last
   edge of the node before. Induction is over sets of naturals that have a least
   element, as in `UpTo`; that recursions have solutions is `Recursion`.
2. *What one call does.* `PutEdgeLeads`, `SetNodeResult` and `SetEdgeResult` say where
   a list and a graph lead after `set_edge` and `set_node`.
3. *The invariant* `CopyInv`. After `row` rows of an own file, `i` nodes and `m` edges
   are read, and the target is `Copied(before, source, i, m)`: nodes and attributes are those of
   the file up to the i-th, then those of before; each list leads where the first edges
   of its node in the file do that are among the m, then where it led before (`Leads`);
   and if there was nothing before, it is, edge by edge, the beginning of what the
   node's edges are without those that lead to no node (`Living`). Both properties
   speak about single moments only, the end of a file and any cut, and are not inductive:
   a step needs to know which edge of which node comes next. `EdgesDone` counts that.
   That each row takes the branch it was written for (no id is 0, the
   separator comes once) is part of the step (`RowIsRead`), so `read_bin` neither
   refuses an own file nor panics on it.

`ReadingForgetsNothing` holds for any rows, of any origin and in any order.

`ReadBin`, which reads a file in one step, is given its value along the same invariant
by induction on the rows: `WholeFileIsRead` says that a complete file reads as its
graph without the edges that lead to no node, `PartOfFileIsGraph` that a file
that is cut reads as some graph. The C client rests on both.

**TaggingProofs.** `SpecificTagsAlwaysShield` and `EarlierRowsAlwaysShield`, from
`ProfilesAssumption` (keys and rows come in lists), for any profile, modes and tags, and
for steps that edit any number of tags at once. `LastMatchDecides` carries the
first: where two sets of tags agree from a key on that both have, the last match is
the same one; `FirstRowDecides` carries the second. `BuilderMayAlwaysRelyOnWays`, for
any tags: each profile leaves a way some direction, and the predefined tables, row by
row (`PredefinedPenalties`), have no penalty that the `debug_assert` of `create_edges`
would not let pass. (A penalty of less than 1 in a row of the caller's own is taken for a
way that is not routable, `graph_builder.rs:128`, so that only the directions are at stake.)

**Only model-checked:** liveness (that a search is answered, that the readers and the
simplification end, that calls return), which rests on fairness; of the builder
`OnlyRestrictionsBite`, on pairs and triples of one network (two restrictions that
share clones are kept apart; that three are not is an example in section 5);
`IsRamerDouglasPeucker`, which compares with a recursion; the k-d tree, a
recursive structure; loading, as messages are merged by a `RECURSIVE` operator.

## 5. Where the code departs from what it says

1. *Free edges* (`astar.rs:149`, `astar_free_edges`). Two nodes at one position and
   a penalty of 1 give edges of cost 0. The links may then form a cycle, and
   `reconstruct_path` never ends. The step limit does not help.
2. *Order of restrictions* (`graph_builder.rs:480`, `restrictions_out_of_order`).
   A restriction that starts at a via node of an earlier one is not applied to the
   clones that one has made. "No 1-2-5" makes a clone 2' of 2, which keeps its edge to 3;
   "no 2-3-4" relinks the edge of 2 only, and 1-2'-3-4 stays possible. In the other
   order both hold.

The following were seen while modelling; no run is about them.

- *Loading twice* (`graph_builder.rs:179`). The second load puts back the edges that
  restrictions had relinked, and takes the restrictions to be satisfied already.
- *Shared clones* (`graph_builder.rs:513`). A restriction that follows another's clones
  may change one that other walks use as well. On the network of `MCRoads`, after
  "no 2-3-2" and "no 1-2-5", "no 1-2-3-4" follows 2' and 3' and removes the edge from 3' to
  4. That clone of 3 is also where 5-2-3-4 goes, which is lost although no restriction
  prohibits it. With two restrictions this does not happen (`OnlyRestrictionsBite`).
- *Closed ways* (`graph_builder.rs:316-327`). A `from` way that begins and ends at
  the via node is turned round, although it already ends there: if it is a one-way loop,
  the restriction is about a turn that nobody can make, and is dropped; if it is not, it
  is applied to the other arm of the loop.
- *Reuse of a deleted clone's id* (`graph_builder.rs:31`). The library does what the
  documentation of `delete_node` (`graph.rs:89-93`) forbids to its users.
- *Replacing the log handler* (`c.rs:107`). The new handler may get a message that was
  tested against the level of the old one, against `routx.h:54`; and two threads
  that set handlers at once may leave the level of one with the handler of the other
  and lose messages, until a call that begins alone sets it right (`mixed`).
- *Step limit* (`astar.rs:238`). A neighbor reached again at an equal cost is queued,
  expanded and counted again, so a limit of the number of accessible nodes may be
  exceeded.
- *Restrictions without via members* are applied, although the comment at
  `graph_builder.rs:225` says one is required.
- *PBF*: the `expect` at `pbf/mod.rs:246` assumes that an initialized blob has data,
  which no field of a blob is required for; a type of member that is none is a panic
  (`pbf/mod.rs:498`).
- *XML*: the buffer of events is never cleared when reading from a stream
  (`xml.rs:43-45`); entities in attributes are not unescaped (`xml.rs:376`).
- *A file cut short* reads as a complete graph (`binary.rs:80`), and a graph whose
  serialization exceeds a `u32` ends the process.
- *Writing to or reading into a `NULL` graph* returns true, where `routx.h:556-557` and
  `568-569` say false; loading reads the other arguments before it looks at the graph.
- *Comments*: a penalty is "not less than one" at `profile.rs:71` and "not less than
  zero" at line 31; `reader/mod.rs:107` says that XML is the only format.

## 6. What is not modelled, and the plan

Not modelled, and not planned:

- the command line, which keeps nothing and calls modelled operations in a row;
- the haversine formula, which is floating-point arithmetic, and with it rounding,
  infinities and NaN. The search needs an admissible estimate, which is an assumption;
- the generated PBF code that writes, measures, compares or reflects messages: the
  program never calls it. This is most of the code that is left;
- `flush` of the logger, which nothing calls; build files; `routx.hpp`, which
  wraps `routx.h`.

Functions of `c.rs` that only read (nodes, edges, distances) are not steps of
`CClient`, as they leave nothing behind.

What is left to do, in this order:

| Module | Of | To do |
|---|---|---|
| Loader | `reader/mod.rs` with the builder | `delivered` as the session of a `GraphBuilder`, so that a file that was cut is a load that failed, or a smaller one |
