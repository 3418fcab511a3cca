# A formal model of peerdrive

peerdrive is a peer-to-peer file store in Go: files are cut into
content-addressed blocks, the blocks are kept in a local block store with pins
and a garbage collector, and peers find each other's blocks through a
Kademlia-like DHT, directly or through a relay. This directory holds TLA+
modules that model the program, TLC configurations that check them on small
instances, and TLAPS proofs that hold for every instance.

`PROJECT.json` lists the components, the runs, the theorems, the hazards the
properties are aimed at, and, for every definition that models code, the lines
it models.

    tlc -workers 2 -config MCMemStoreLoop.cfg MCMemStoreLoop   # a run
    tlapm MemStoreProofs.tla                                   # proofs


## 1. The system

### Components

| component | state | operations | what makes it correct |
|---|---|---|---|
| blocks (`internal/block`) | none; a CID is the hash of an immutable block | encode, decode, links | a CID determines its block and its links |
| in-memory block store (`storage/memory.go`) | `store`, `hardPins` (recursive or direct), `softPins` with an expiry, one RWMutex | PutBlock, GetBlock, GetBlockLocal, Pin, PinDirect, PinSoft, Unpin, GC | a pinned DAG survives collections; garbage is collected; a CID has one kind of pin |
| on-disk block store (`storage/disk.go`) | a file per block, a LevelDB database with the index and the pins, **no lock** | the same, plus opening after a crash | the same, and a file under its own name is whole |
| provider records (`node/providers.go`, `block-fetcher`) | a DHT record per block the node has | Announce, Unannounce, FetchBlock, the passes of the reprovider | what is pinned and present is announced again and again; a sweep withdraws the record with the block |
| DHT records (`node/client.go`, `server.go`, `node.go`) | `store`: key to value, expiry and Origin; `storeMu` | Store, Get, GetClosest, the Store and FindValue handlers, gcLoop, republishLoop | published records stay, withdrawn ones disappear, copies are not kept alive by strangers |
| routing table (`internal/routing`) | 256 buckets of at most K contacts | Update, Closest, RemoveByID, RemoveByAddr | no node twice, every contact in the bucket of its prefix, bounded buckets |
| iterative lookup (`client.go:96-281`) | `visited`, `shortlist` or `cands`, per batch a mutex | IterativeFindNode, Get, GetClosest, uniqAndSortByDist | ends, follows what is nearer, says "not found" only when all are asked |
| failure accounting (`node.go:207-252`) | `FailCount`, a mutex | onRpcFailure, onRpcSuccess, revalidateLoop | one lost call costs no peer its place; a stopped peer leaves the table |
| relay (`internal/relay`, `relay_client.go`) | `attached`, `pending`, one connection per node | attach, client request, response | an answer reaches the client that asked, once |
| DAG (`internal/dag`) | none | build, verify, Fetch, FetchParallel | what is fetched is what was built |
| distributed add (`service/dist_store.go`) | none of its own | PutBlock to peers, KeepLocalSelector | every block is kept by someone |
| service, HTTP API, CLI, UI | wiring, timers | start, attach to a relay, reprovide, hourly GC, handlers | loops run and come round; `POST /gc` collects under the request's context |

### How they interact

The service owns one block store and one node. A `PutBlock` stores a block and
then *announces* it: the node stores a provider record in its own map and sends
copies to the peers its lookup returns. A `GetBlock` of a missing block asks
the DHT for providers, fetches the block from one of them and stores it; a
manifest it announces. The map of records has other writers as well: a Store RPC
of a peer, the node's own lookups, republication, the reprovider and expiry. Handlers of incoming RPCs run in goroutines of their own and use the same
store and the same maps. Five loops run beside them: the collector of the block
store (hourly), expiry and republication of DHT records, refresh and
revalidation of the routing table, and reproviding. `POST /gc` runs a
collection of its own, in the goroutine of the request.

### Where it is hard

* A collection is a snapshot, a mark loop that takes the lock anew for every
  block it reads, and a sweep. Everything else goes on in between, a second
  collection included.
* `DiskStore` has a mutex that nothing uses: every operation is a sequence of
  system calls and database operations, and a crash can come between any two.
* Contexts are cancelled at any moment; a failing read in the mark loop looks
  like a block without children.
* A record is read under a lock, decided upon without it, and written or
  deleted under another one (`FindValue`, `republishLoop`, soft-pin refresh).
* Time: records and soft pins expire; republication must be early enough.
* Lost calls, restarts of peers, caching of answers, overwritten records.
* Lookups ask several peers at once and merge what they learn under a mutex,
  while the loop that started them reads and writes the same variables.
* Counting a failure, removing the contact and clearing the counter are three
  sections, and calls to one peer overlap.
* A fetch starts a goroutine per large subtree, all writing to one buffer, and
  returns on the first error while the others still run.
* A block is offered to one peer after the other; a peer stores it and pins it
  in two steps while it collects, and may do so after the caller has given up.

The list in `PROJECT.json` under `hazards` gives each of these at its line,
with the properties aimed at it; a hazard without one has a note.


## 2. The modules

    Blocks ---- Marking ---- GcContract            constant data, mark sets, contract
                   |              ^
                   |              | implements (proved)
                   +--------- MemStore
                   |              |`------- MCMemStore, MCMemStoreLoop
                   |           Provide ---- MemStoreProofs
                   |              `-------- MCProvide
                   +--------- DiskStore --- DiskStoreProofs
                   |              `-------- MCDiskStore
                   `--------- DistAdd ----- DistAddProofs
                                  `-------- MCDistAdd
    FileContract
       ^
       | implements (proved)
    DagFetch --- DagBuild                          add and fetch a file
       |  |`---- DagReader
       |  `----- DagFetchProofs
       `-------- MCDagFetch
    Routing ---- Peers ------ PeersProofs          table, failures
                   ^
                   | implements (proved)
                 Lookup ----- LookupProofs         lookups
                   `--------- MCLookup
    Records ---- RecordsProofs
       `-------- MCRecords, MCRecordsAge
    Relay ------ RelayProofs
       `-------- MCRelay

**Blocks** gives the graph of blocks as constants: `Kind` and `Links` of each
CID. A CID is a hash of its block, so neither can change; whether the block is
*present* is the state of the stores. `ChildCIDs` is `ChildCIDsFromBlock`,
`DagOf` the blocks reachable from a CID.

**Marking** declares what a collection remembers between its steps (`Jobs`:
the snapshot of objects, recursive, direct and soft roots, the stack, the mark
set), and the two kinds of pins. Both stores use it.

**GcContract** is the abstract specification of a collection: it takes a
snapshot of pins and keys when it begins, and when it finishes it removes, in
one step, a set of blocks that contains nothing a pin of the snapshot protects
(`MustKeep`) and everything that no pin reaches (`MayKeep`). Puts, pins and
other collections may happen in between. A cancelled collection promises less.
There is no stack, no mark set and no traversal in it.

**MemStore** models `storage/memory.go`. `Clients` are the goroutines that call
the store, `Collectors` those that run GC. One action per critical section:
`PutBlockLocally` and the announcement after it are two steps, as are the hit
or fetch of `GetBlock` and its soft-pin refresh. GC is `GcSnapshot` (first
lock), `GcPop` and `GcExpand` (one `GetBlockLocal` per turn of the loop) and
`GcSweep` (second write lock). `GcCancel` cancels the context of a collection.
`PutBlock` failing to announce, a fetch that fails and a fetched block that is
not stored (cancelled context) are branches.

**Provide** puts beside MemStore the records the node keeps under the CIDs of
its blocks (`record`: none, its own with Origin set, or another one), with
every writer of that map: `AnnouncePut` and `AnnounceGet` of the block store, the
`Unannounce` inside the `Sweep` of a collection, `RepublishSnapshot` and
`Republish`, which stores what it read without looking again, the passes of the
reprovider, and what puts another record in its place or deletes it, at any
moment: `HandleStore`, `CacheFound`, `PutValue` and `Expire`. A pass
(`StartPass` to `EndPass`) lists the hard pins, reads each block under the
store's lock (`ReadBlock`, `RefreshRead`: the two sections of GetBlockLocal) and
announces it without a lock (`Reprovide`). Every step is one of MemStore or
leaves the store alone (`ProvideIsMem`), so MemStore itself only has the places
where a goroutine announces. Lifetimes and the copies on other nodes are those
of Records; an own record that names this node may also arrive as somebody's
copy, which counts as another one here.

**DiskStore** models `storage/disk.go` one system call or database transaction
at a time: open the temporary file (truncating it), write, rename, put the key;
in the sweep remove the file, delete the key, withdraw the record. `file`
says what is under a block's own name, `tmp` what is in the temporary file that
all writers of a block share, `index` the keys. `Crash` ends every goroutine
and keeps the disk. `MaxFaults` bounds crashes and cancellations.

**Records** models the DHT records of one key on all nodes. `SetRecord` is the
write to a node's map, with `Origin` TRUE only in `Node.Store`. `Writers` are
the goroutines inside `Node.Store`: a `put` (announcement or reprovider) and
the republishing loop of each node. Peers are an arbitrary set of at most
`Replicas` nodes, the node itself possibly among them, since the contacts that
peers return include the caller. `SendStore` is a call and its handler,
`SendFails` a lost one. `FindValue` only *reads*; the deletion of an expired
record is a later step (`DropStale`), as in the handler. `Cache` stores the
first answer. `RepublishTick` takes its snapshot, `Republish` acts on it without
looking again. `Restart` loses the map, which is not saved.

A unit of time is hours and calls last seconds, so `Tick` waits until no call is
in progress and no republishing timer is due. `ttl` is what is left of a
lifetime; this keeps the state finite and is the same as comparing `Expires`
with a clock. `replicas` is bookkeeping: the peers that took the last
publication and whose record has not been overwritten or lost since.

**Relay** models `relay/server.go` and the two functions of `relay_client.go`.
`Conns` are the connections over which nodes attach, each opened once; `link`,
`inbox` and `outbox` are the connection and what is in transit on it, `loop` and
`handling` the node's end, `serving` the relay's goroutine. `attached` and
`pending` are the relay's maps. Each request has a goroutine of the relay
(`place`, `via`) and a caller (`call`, `reply`). `Sub` gives the call that the
handler of a request makes itself: a PutBlock is announced, which stores records
on other nodes. A node handles one request at a time, so such calls can form a
circle. `NodeStops` ends a process; the relay learns of it when it reads or
writes, or not. A node attaches over a new connection only when its process has
been started again: the service makes no second attempt.

**FileContract** is what adding a file and fetching it back promise, without
blocks: an add succeeds or fails, and a fetch returns exactly the bytes of the
file or an error, and an error has a cause: the caller gave up, a block is
missing, or what was asked for is not a file.

**DagBuild** models `BuildFromReader`: one action per block put (`ReadChunk`,
`EndOfFile`, `PutNode`, `PutManifest`), `BuildFails` for every error return, and
`LoseBlock` for a collection, since an add pins nothing. A block is a record
and is its own CID, so equal chunks are one block, as in the store.

**DagFetch** adds `FetchParallel`. Each call of `fetchRange` is identified by
its path in the DAG and goes through the places of the code: wait for the
semaphore, GetBlock, the loop over the children, inline call or goroutine, and
the collection of results from the channel. A goroutine that has its result
*sends* it (`Send`) and is blocked until the channel has room or the call that
made it receives; `Capacity` is that of the code, the number of children. A
goroutine blocked for ever does not count as the end of a fetch (`Over`). `Cancel` is the context of the
request, which also ends when the request has been answered.

**DagReader** holds the sequential `Verify` and `Fetch` as recursive functions of
the blocks that can be read; what is built and what is fetched in parallel is
compared with them.

**Routing** is the table as a value: `Touch`, `Updated`, `Removed`, `Closest`.
An identifier is the sequence of its bits and `Nearer` the order of the XOR
distances. `Closest` stops gathering buckets where the code stops.

**Peers** puts the table among the goroutines that call peers. A call is
`Call`, then `Answered` (with `rt.Update`) and `Succeed`, or `Fails`, `Remove`
and `ClearCount`: the sections of `onRpcFailure` one by one. `failCount` is
keyed by identifier and address, and a peer answers with the contact it claims,
which need not be the one that was called. `Heard` is an incoming request,
whose sender's address `handleConn` has rewritten. `RevalTick` and `RevalPing`
are revalidateLoop, which pings by address only.

**Lookup** refines who calls whom: `BeginRound`, `Spawn` and `Skip` are the loop
over a batch, `MergeNodes` and `MergeValue` the sections under `mu`,
`FindNodeTurns` and `ValueTurns` what comes after `wg.Wait`. A sorted list is a
set; where two contacts of one peer are equally near, either order is possible
(`FirstOf`, `Stripped` return the possible results). `MapRace` is the unlocked
write to `visited` meeting a read: the Go runtime may end the program.
`refreshLoop` is a lookup of a random identifier.

**DistAdd** models `distStore.PutBlock` for the blocks of a file one after the
other: `Lookup` (any set of nodes), `Offer`, the handler of the peer
(`HandlerStores`, `HandlerPins`), `Answered` or `TimesOut`, and the block kept
locally (`KeepStores`, `KeepPins`). The store of each node is that of MemStore
with a mark that takes one step: `Snapshot` fixes what `Sweep` deletes. A read
is a GetBlock split at its locks: `StartRead` finds the block at some node,
`ReadServed` renews the soft pin there, `ReadStores` keeps the block at the
reader (or not, under a cancelled context) and `ReadRefreshes` renews the
reader's own soft pin, an expired one too. Provider records are not part of it:
they are overwritten, expire and come back as Provide and Records have it, so
where a read finds a node that has the block is left open.


## 3. The runs

| run | instance | question | answer |
|---|---|---|---|
| `MCMemStoreLoop` | manifest and data block, 1 client, the hourly loop and `POST /gc` | is what is pinned kept and garbage collected while the store changes? | yes |
| `MCProvide` | manifest and data block, 1 client, the hourly loop, republication, the reprovider | which announcements leave a record without a block, and are pinned blocks announced again? | late ones only; yes |
| `MCMemStoreOverlap` | manifest, node, data | does a recursive pin protect the DAG? | **no**, finding 1 |
| `MCMemStoreOnCancel` | the same | ... from a cancelled collection? | **no**, finding 2 |
| `MCDiskStore` | manifest and data block, the hourly loop; 1 client and 1 fault, or 2 writers of one block | are files whole or about to be, pinned DAGs kept and keys without pins deleted? | yes |
| `MCDiskStoreTorn` | 2 clients, 1 crash | does a crash affect temporary files only? | **no**, finding 3 |
| `MCRecords` | 2 providers, one of them a seeker, lifetime 3, interval 2 | do published records stay fresh, are they the node's own, and do withdrawn copies disappear? | yes |
| `MCRecordsAge` | 1 provider, 1 other node that looks up, a history variable | ... within a lifetime of the withdrawal? | **no**, finding 4 |
| `MCRelay` | 2 nodes, 3 connections, 3 nested calls (A, B, A again) | are attachments and waiters consistent, and do waiting handlers get on? | yes |
| `MCDagFetch` | files of 0 to 7 bytes, 2 per chunk, 2 children per node, 2 slots | is what is fetched what was added, and does no goroutine stay behind? | yes |
| `MCLookup` | 3 peers in one bucket of 2, one under two addresses, one over a relay | do lookups end and miss nothing they should not, does the table stay right? | yes |
| `MCDistAdd` | a file of one chunk, 2 peers, collections, one lost answer | is every block of an added file placed and held? | yes |

### Properties

*Block stores.* `TypeOK`. `MarkInv`: the tri-colour invariant of the mark loop: a marked CID that has
been in the store since the snapshot and is neither a direct nor a soft root has
its children marked or on the stack, and nothing but descendants of the roots is
marked. `PinnedDagSurvives`: if the DAG of a recursive
root was complete throughout a collection that was not cancelled while it
marked, and contains no direct or soft root, the sweep deletes none of it.
`KeepsContract`: MemStore implements GcContract. `UnpinSticks`: nothing but `PinSoft` creates a soft pin,
so a refresh does not undo an unpin. `TornWhileWritten`: a
truncated file is about to be written. With one client this says that no crash
leaves a truncated file under a block's own name (`CommittedWhole`), since no
client then ever opens the file itself; with several it holds while nothing crashes. `GarbageReclaimed`: a
block is deleted in the end or protected at some time by a direct or unexpired
soft pin of its own or a recursive pin above it; an expired soft pin, which the
code never removes, does not keep it.
`GcTerminates`: a collection comes to an end although blocks are put meanwhile.

*Provider records of a node.* `OnlyLateAnnouncesDangle`: a record of the node's
own for a block that is not there comes only from an announcement that acts on
something older: the put or get whose block has been swept (or was not stored),
an item of `republishLoop`'s snapshot, or a block the reprovider has read; a
sweep never leaves one behind, however the other writers interleave. It does not
say that there are none: the code makes them, and republishes them until
the block comes back and is swept again. `PinnedBlocksAreReprovided`: below a
hard pin, a block of a complete DAG has the node's own record again and again,
although that is overwritten, expires, or is deleted while fresh by `FindValue`.

*Records.* `OriginsAreOwn`: a node republishes only the record that names
itself, although other nodes overwrite its record at any moment and the
republishing loop acts on an old snapshot. `PublishedStaysFresh`: as long as a
node holds the record as its own, the record and the copies that its peers took
do not expire. `CopiesDisappear`: a withdrawn record that nobody looks up
disappears everywhere.

*Relay.* `AttachedIsServed`: the attached connection of a node is the one that is
open and served, whichever order old and new connections are registered and
cleaned up in. `WaitersAreOwed`: a caller that has got no frame is registered and
its request or the response is on its way, unless the connection broke; a caller
that has got one is not registered any more. `RequestsServed`: a circle of
handlers that wait for each other does not last.

*Files.* `QuietWhenReturned`: when data is returned, no goroutine can still write
to it. `ReadersAgree`: a finished
DAG passes Verify and reads back, and the parallel reader returns what the
sequential one does. `ImplementsFileContract`: adding and fetching implement
FileContract. `SendsHaveRoom`: a goroutine that sends its result to a call that
has returned, on an error of a sibling, finds room in the channel. `FetchEnds`: a fetch returns, and none of
its goroutines waits for ever on a channel or the semaphore, first error or not.

*Peers.* `TableWellFormed`: no node twice, none in another prefix's bucket, no
bucket too long. `OneLostCallForgiven`: a peer that is up is removed only when
two calls to that contact were lost. `StoppedPeersLeaveNodes`: a stopped peer
leaves the table although a success of another goroutine may clear its count.

*Lookups.* `ResultMissesOnlyAsked`: IterativeFindNode loses no contact but those
it asked and those that a full list has no room for. `NewsIsFollowed`: without
progress there is nothing nearer to ask than there was. `NotFoundIsExhaustive`:
"not found" means that nobody who answered has the value and that every contact
not cut off was asked. `LookupEnds`. `ImplementsPeers`: a looking-up node is one
of Peers.

*Distributed add.* `PlacedIsHeld`: a block that was confirmed or kept is in the
store there while its pin lasts, unless the pin was set, or renewed by a read,
too late for a collection that had begun. It does not say that it can be found:
soft pins are not reprovided (`service.go:340`). `AddedIsPlaced`: a successful add has placed every block, and the
manifest is pinned by the node. `AddEnds`.

### Why the bounds are enough

Two blocks give a root with a child, which is all the mark loop compares: a
block is treated by its own kind and by whether it is a root; deeper DAGs
repeat the step (the violation runs use three so that the middle one can have a
pin of its own). One client at a time suffices between the steps of a
collection because its calls are arbitrary and repeated; two clients are used
where they share something, the temporary file. `MCMemStoreLoop` has two kinds
of behaviours: without `POST /gc` the data block may get every pin and
collections may be cancelled; with it two collections overlap, and the client
only puts blocks and pins the manifest. What is proved of MemStore (section 5)
has no such bound: it holds for any number of collectors and clients. The fair
runs bound pins in the next-state relation and not by a CONSTRAINT, which would
cut off the behaviours liveness is about. `MCDiskStore` has two kinds of behaviours as well: one client
without PinDirect and without storing what it fetched, with one crash or
cancellation; and two writers of one block, which fetch it too and set and remove
a direct pin, without faults. One fault can fall between any two steps; the proofs cover the rest.
For records, two nodes include every pairing of provider, replica and seeker,
the node as its own replica included; lifetime 3 and interval 2 make a record
that is due, one that is not, and one that expires just before the next tick.
For the relay, A handles a request whose handler calls B, whose handler calls A:
the shortest circle; A has two connections so that one can replace the other.

The files of `MCDagFetch` are the empty one, a short chunk, full and short last
chunks, repeated chunks (one block under two parents) and one of three levels
whose last group has a single member. One byte is fetched inline, two by a
goroutine, as 64 KiB lies between a short last chunk and a full one.

In `MCLookup` three peers compete for a bucket of two, so one evicts another.
`Visitors`, `Mortal` and `MaxLost` bound which contacts are heard of, which nodes
stop and how often a call to a contact is lost; two losses of one contact are what
it takes to remove it. The run has two kinds of nodes: one makes a lookup while
its own loop does not tick, and one makes no lookup while its loop runs and
another goroutine calls a peer.

In `MCDistAdd` one peer takes blocks and one refuses them; two blocks are a
manifest and a chunk, which `KeepLocal` treats differently. The node that adds
and the peer that takes blocks read them, one read at a time and only while no
answer has been lost: the peer reads what it holds, and what the node has, so
both the pin of the server and that of the reader are renewed. The proofs have
none of these bounds.

In `MCProvide` the manifest is pinned recursively or not, its data block is not
pinned, no collection is cancelled, and only the record of the manifest is ever
due: what the block store does under other pins is `MCMemStoreLoop`'s matter, and
republication treats every record alike.

### Fairness

`MemFairness`, `DiskFairness`: weak fairness of the steps of each collection
(its goroutine keeps running) and of its start, since `startBlockstoreGC` starts
one every interval. Clients are under no obligation. Soft pins expire.
`ProvideFairness`: the reprovider's ticker fires every six hours and a pass goes
on, since the RPCs of `Node.Store` have a deadline; the other writers of the
records are under no obligation.
`FairSpec` of Records: every goroutine that can run does, the loops
(`gcLoop`, `republishLoop`) come round, and time passes; the latter is strong
fairness because calls are always about to end but new ones may always begin.

`FairSpec` of Relay: goroutines run and deadlines pass (`SetDeadline`); nodes need
not attach, and may stop.

`FairSpec` of DagFetch: the builder, the caller and the goroutines go on;
GetBlock returns, because calls have a timeout. Nobody has to cancel or lose
blocks.

`Fairness` of Lookup: goroutines go on, and a call ends because DialRpc has a
timeout. For the node whose loop runs, `RevalFairness` adds strong fairness of a
tick for each target: the loop draws a random identifier at each tick, so every
one comes up again and again.

`DistFairness`: the add and the handlers go on, and calls have a timeout; nodes
need not collect, read or stop.

Deadlock is not checked in `MCRelay`, `MCLookup` and `MCDistAdd`: they stop when
the connections, the lookup or the adds of the bound are used up, and a lookup
that the runtime has ended stops there.


## 4. Findings

1. `MCMemStoreOverlap`. *"Pin adds a hard pin which protects the CID (and its
   DAG) from GC"* (`store.go:14`). Direct and soft roots are put into the mark
   set first, and the loop skips what is marked, so a recursive root or a node
   below it that also has a direct or soft pin is never expanded.
2. `MCMemStoreOnCancel`. The same sentence. A context cancelled while the loop
   marks makes every read fail, each block counts as childless, and the sweep
   still runs.
3. `MCDiskStoreTorn`. *"if the process crashes mid-write, only the temp file is
   affected"* (`disk.go:156`). Two writers of one block share the temporary
   file; the rename of the first makes the second's truncated file the block.
4. `MCRecordsAge`. *"Remote replicas stored via DHT will naturally expire based
   on TTL"* (`providers.go:66`). A lookup caches the answer with a full
   lifetime, so a copy that is looked up never expires.

Behaviour the models show and no sentence of the repository denies: a DAG pinned
after the snapshot of a running collection is not protected from it; in
DiskStore an unpin can be undone by a read that is refreshing the soft pin, Pin
and PinSoft can leave both pins, and a crash between rename and index leaves a
file that no collection finds; a node whose own record is overwritten by another
provider's copy, or by its own lookup, or by the copy it sends to itself, stops
republishing until the next reprovide, and for good if the block has a soft pin
only; an announcement, a republication or a reprovide that comes after a sweep
leaves a record of a block that is gone. In the relay, a waiter whose caller has
given up or whose node has gone stays in `pending` for ever; and when the
`Register` frame of a process that has ended is handled after that of its
successor, the successor's connection is closed and the node stays unattached.

A lookup drops every asked contact of the sorted prefix, so the nearest peers, which
were asked first, are not among its results and Store sends its copies to others
(`client.go:81` speaks of the closest peers, as what is looked for). The map `visited` is
read and written without a common lock, which the Go runtime may answer by ending
the program. Pings of revalidateLoop do not use the relay of a contact, so a peer that
is reached only over a relay is removed. `KeepLocalSelector` computes its
threshold from `max = 0` and keeps the manifest only. A distributed add of a file
that is already pinned turns the recursive pin of its manifest into a direct one.
An add pins nothing, so a collection may take blocks of a file being added.


## 5. Proofs

Proved by TLAPS for every value of the constants:

* **MemStoreProofs** (any blocks, clients and collectors): `TypeCorrect`,
  `PinsStayExclusive`, `MarkingSound`, `PinnedDagsSurvive`,
  `ImplementsContract`, `UnpinIsFinal`; and of Provide `ProvideIsMem`,
  `ProvideTypeCorrect` and `OnlyLateAnnouncesDo`. `MarkInv` is
  inductive together with `TypeOK`; when the stack is empty it says that the
  mark set is closed under the children of what is present and traversed, so it contains `DagOf`
  of every root whose DAG is complete (`ReachLeast`), which is what the sweep
  spares. The refinement maps each step of a collection to a step of
  GcContract or to a stutter. `ProvideIsMem` carries all of this over to a node
  whose reprovider is one of the clients.
* **DiskStoreProofs** (any blocks, clients and collectors, crashes included):
  `TypeCorrect`; `WholeUnlessShared`, for behaviours in which no two clients
  write one block at a time (`OneAtATime`; its corollary `CommittedFilesAreWhole`
  is for a single client); `HealsUnlessCrash`, for behaviours without a crash
  (the corollary `TornFilesHeal` of both is about every behaviour, without faults
  or with one client). The run
  `MCDiskStoreTorn` shows that neither assumption can be dropped.
  `MarkingSound` is the tri-colour invariant for a mark loop without a lock. It
  needs `HeldIsStored`, that what a collection counts as readable since its
  snapshot is readable, which every rename of a truncated file and every
  deletion of the other collections must respect: then a lookup or a read that
  fails under the mark loop is one of a block that does not count (`MarkReads`).
  From it `PinnedDagsSurvive` and `SweepsHonourContract`, which says of each
  deletion what GcContract says of a collection's end. DiskStore does not
  implement GcContract itself: its snapshot is taken in three steps, its sweep
  goes block by block, a rename can make a block unreadable, and a CID can get
  both pins.
* **RecordsProofs** (any nodes, providers, seekers, lifetimes): `TypeCorrect`
  and `OriginsStayOwn`, which need each other (what is due has a value because
  it is the node's own); `PublishedStays`. Its invariant is `FreshInv`: an own
  record that the loop is not about to store outlives the next tick
  (`OutlivesTick`), and its copies outlive it (`CopiesOutlive`). The proof needs
  `RepublishInterval < RecordTTL`, as in the default configuration (12 h, 24 h);
  `Restart` resets the timer to a full interval, which is harmless because the
  map is empty then.
* **RelayProofs** (any nodes, connections and requests): `TypeCorrect`,
  `AttachmentsAreServed`, `NoAnswerIsLost`. The invariant `RelayInv` adds that a
  connection is run and served only once it is open (`Opened`), that a waiter is
  registered before its request is sent and until a frame is (`Registered`), and
  that a request is forwarded, taken and answered once (`TakenOnce`).

* **PeersProofs** (identifiers and buckets of any length, any number of
  goroutines): `TypeCorrect`; `TableStaysWellFormed`, from lemmas about `Without`
  and `Touch` on lists (`WithoutList`, `TouchList`) and about replacing one
  bucket (`BucketReplaced`); `OneLostCallIsForgiven`, which needs a threshold of
  at least 3. Its invariant is `Counted`: a reachable contact has a count of at
  most two per lost call, and two have been lost when it is about to be removed.
* **LookupProofs** (any contacts, answers and batches): `LookupImplementsPeers`,
  from which `LookupKeepsTable` and `LookupForgives` follow; `LookupTypeCorrect`;
  `FindNodeLosesOnlyAsked` and `NotFoundMeansAsked`. The invariant `ResultInv`
  says that goroutines work only during a round (`Quiet`), that what was learned
  is in the list, asked or cut, and that a value seen in a round is not
  forgotten between rounds (`Searching`). `NoNewsIsLost` needs that a set of
  contacts has a nearest one (`NothingNearerThanNearest`, from `LeastNumber`)
  and that nearness is a weak order. `NewsIsFollowed` is not inductive, since
  the next answer is compared with the nearest contact of the list, asked or
  not; `NoNews` says the same of every contact of the list.
* **DagFetchProofs** (any files, chunk size, fanout of at least 2, inline span
  and number of slots). What a block holds is stated without recursion: `Holds`
  is membership in a set of facts "this block holds this slice" that bear each
  other out, and `Tiles` says that a row of pairs holds adjoining slices.
  `LevelsAreSound`: the blocks of the current level that have no parent and the
  nodes of the next level tile, in order, what has been read (`BuildInv`), so
  that `AddedFileIsHeld`: the root in the manifest holds the file.
  The invariant `Inv` of the fetch adds, of the calls of `fetchRange`:
  they are a tree, each placed at the slice that its block holds (`CallTypes`,
  `CallTree`); `tasks` is the number of children still running plus the results
  in the channel, and a failed child has left an error there (`CallsWait`), so
  a call that has taken `tasks` results without an error has only children that
  returned one; a call that returned a success has none below it that has not
  (`Nested`); every error goes back to a lost block or a cancellation (`Cause`);
  what a successful call returned is in the buffer (`OutRight`); the caller has
  one call at most, for the root (`CallerInv`); the slots taken are the
  blocks being read (`Slots`); and the results in a channel and the goroutines
  about to send are children of the call, so that they fit (`InvRoom`, whence
  `SendsNeverBlock`). From it `Typing`, `QuietFetch` (the root call
  returned a success, hence, by `OKBelowRoot`, so did every other: no goroutine
  is left that could write to the buffer) and `FetchImplementsContract`, the
  refinement of FileContract by every step. `Inv` is carried through the steps
  by one lemma for each way a call can change: it moves on, it returns, or it
  opens another.
  `LevelsAreRead` and `FetchesAgree` are about the sequential readers, whose
  recursion goes through the blocks. That a solution of their equations exists,
  and that every solution finds in a block what the block holds, is an invariant
  (`ReadersInv`): the builder puts a block after its children (`PutsInOrder`),
  so a reader of what is there extends to the new block (`ReadableGrows`) and
  one of the larger store is one of the smaller (`ReaderRestricts`); a node is
  read as its slice because the slices of its children adjoin (`PartsJoin`).
* **DistAddProofs** (any files, peers, replicas and collections):
  `DistTypeCorrect`; `PlacedBlocksAreHeld`, whose invariant `HeldInv` also covers
  answers that are still on their way and says that no running collection has
  such a block on its list (a read renews two pins, and each renewal either
  keeps that or comes too late: `RefreshKeepsHeld`); `AddedFilesArePlaced`, whose invariant `PlacedInv`
  says how much of which file is done (`Behind`), that a copy counted is a copy
  of the current block, and that one answer at most is waited for (`OneWanted`).

The assumptions on constants are the named `ASSUME`s of the modules; TLC
evaluates them in the runs.

Only model-checked: liveness (`GarbageReclaimed`, `GcTerminates`,
`PinnedBlocksAreReprovided`, `CopiesDisappear`, `RequestsServed`, `FetchEnds`, `LookupEnds`,
`StoppedPeersLeaveNodes`, `AddEnds`: the prover does not do fairness), and the
violations, which are counterexamples. Every invariant, and every action
property without fairness, that a passing run checks is a theorem. Induction
over a finite set or an interval is proved where it is needed in the form of a
set that is closed under a step (`IntervalInduction`), since the induction
theorems that take a predicate as a parameter are out of the prover's reach; a
recursion over blocks is an invariant of the builder, as said above.


## 6. What is abstracted, and what is not modelled

Hashing, CBOR, base32 and wire formats; the contents of blocks other than links;
wording and logging. Which peers a lookup finds is left open in Records and DistAdd. A write
or a delete that the operating system refuses is left out of DiskStore. Soft-pin
expiry is a step that may happen at any time (the encoding rounds to whole
seconds), so no property depends on when. Several keys of the DHT do not
interact, so one is modelled.

The mark of a collection is one step in DistAdd, because MemStore shows
what its steps do. Compression and file names do not reach the DAG's structure.

Not modelled: the relay's whoami request; `RemoveByAddr` of the routing table,
which nothing calls; the start-up of the service (order of WhoAmI, AttachRelay,
Bootstrap and the loops) and the pace of the reprovider (10 ms between blocks,
six hours between passes); the command line, the demos, the benchmark,
the desktop client and the HTTP handlers that only wrap the service;
configuration and logging.


## 7. Plan

What the runs check and the prover can take is proved. What is left is in the
model: the hazards of PROJECT.json that no property covers (waiters that stay in
the relay's map, soft against hard pins, the choice of `Closest`), the start-up
of the service, and the races of DiskStore that lose a key.
