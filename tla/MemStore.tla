------------------------------ MODULE MemStore ------------------------------
(***************************************************************************)
(* The in-memory block store (internal/storage/memory.go).  MemStore.mu    *)
(* makes each critical section one atomic step; an operation with several  *)
(* critical sections is several actions, and the goroutine that runs it    *)
(* keeps its place in pc.  Pin, PinDirect, PinSoft and Unpin are one       *)
(* critical section each and need no place.  A put or a get is run by a    *)
(* Client (an HTTP or RPC handler), a collection by a Collector (the       *)
(* hourly loop of service.startBlockstoreGC or a POST /gc handler: nothing *)
(* keeps two of them apart).                                               *)
(*                                                                         *)
(* Time is abstracted: a soft pin is live until its expiry passes, which   *)
(* may happen at any moment (SoftPinExpires).                              *)
(*                                                                         *)
(* The provider records, which other parts of the node write as well, are  *)
(* left to Provide; here a goroutine that announces a block only passes    *)
(* through the place where it does.                                        *)
(***************************************************************************)
EXTENDS GcContract

CONSTANTS
  Clients,      \* goroutines that put and get blocks
  Loops         \* the collectors of service.startBlockstoreGC, which start over

ASSUME MemStoreAssumption ==
  /\ Clients \cap Collectors = {}
  /\ Loops \subseteq Collectors

VARIABLES
  pc,         \* where each goroutine is
  cid,        \* the block each goroutine is working on
  live,       \* GC: the mark set of each collector
  stack       \* GC: the CIDs still on the mark stack of each collector

Procs == Clients \cup Collectors

mvars == <<store, hardPins, softPins, running, job, cancelled,
           pc, cid, live, stack>>

pinVars == <<hardPins, softPins>>
gcVars  == <<running, job, cancelled, live, stack>>

ClientPlaces    == {"idle", "putAnnounce", "fetch", "getAnnounce", "refresh"}
CollectorPlaces == {"idle", "mark", "expand"}

MemInit ==
  /\ Init
  /\ pc = [p \in Procs |-> "idle"]
  /\ cid \in [Procs -> CID]
  /\ \A p, q \in Procs : cid[p] = cid[q]
  /\ live = [g \in Collectors |-> {}]
  /\ stack = [g \in Collectors |-> {}]

Goto(p, place) == pc' = [pc EXCEPT ![p] = place]

At(p, place) == pc[p] = place

-----------------------------------------------------------------------------
\* Puts and gets

\* PutBlock up to the end of PutBlockLocally; the provider record follows,
\* in a step of its own.  The record itself is a variable of Provide.
PutBlockLocally(p, c) ==
  /\ At(p, "idle")
  /\ store' = store \cup {c}
  /\ cid' = [cid EXCEPT ![p] = c]
  /\ Goto(p, "putAnnounce")
  /\ UNCHANGED <<pinVars, gcVars>>

PutAnnounce(p) ==
  /\ At(p, "putAnnounce")
  /\ Goto(p, "idle")
  /\ UNCHANGED <<store, pinVars, cid, gcVars>>

\* GetBlock: the block is here (GetBlockLocal), or it must be fetched.
GetBlock(p, c) ==
  /\ At(p, "idle")
  /\ cid' = [cid EXCEPT ![p] = c]
  /\ Goto(p, IF c \in store THEN "refresh" ELSE "fetch")
  /\ UNCHANGED <<store, pinVars, gcVars>>

\* No provider answers, or what it sends is not the block asked for.
FetchFails(p) ==
  /\ At(p, "fetch")
  /\ Goto(p, "idle")
  /\ UNCHANGED <<store, pinVars, cid, gcVars>>

FetchStores(p) ==
  /\ At(p, "fetch")
  /\ store' = store \cup {cid[p]}
  /\ Goto(p, IF Kind[cid[p]] = "manifest" THEN "getAnnounce" ELSE "refresh")
  /\ UNCHANGED <<pinVars, cid, gcVars>>

\* The same when the context has been cancelled: PutBlockLocally refuses,
\* its error is ignored, and a manifest is announced all the same.
FetchNotStored(p) ==
  /\ At(p, "fetch")
  /\ Goto(p, IF Kind[cid[p]] = "manifest" THEN "getAnnounce" ELSE "refresh")
  /\ UNCHANGED <<store, pinVars, cid, gcVars>>

GetAnnounce(p) ==
  /\ At(p, "getAnnounce")
  /\ Goto(p, "refresh")
  /\ UNCHANGED <<store, pinVars, cid, gcVars>>

RefreshedPinsUnchecked(c) == [softPins EXCEPT ![c] = "live"]  \* bug: "if present" forgotten

\* A soft pin that exists gets a new expiry, even when it had expired.
RefreshedPins(c) ==
  IF softPins[c] = "none" THEN softPins ELSE [softPins EXCEPT ![c] = "live"]

RefreshSoftPin(p) ==
  /\ At(p, "refresh")
  /\ softPins' = RefreshedPins(cid[p])
  /\ Goto(p, "idle")
  /\ UNCHANGED <<store, hardPins, cid, gcVars>>

-----------------------------------------------------------------------------
\* Pins

HardPin(c, mode) ==
  /\ hardPins' = [hardPins EXCEPT ![c] = mode]
  /\ softPins' = [softPins EXCEPT ![c] = "none"]
  /\ UNCHANGED <<store, pc, cid, gcVars>>

Pin(c) == HardPin(c, "r")

PinDirect(c) == HardPin(c, "d")

PinSoft(c) ==
  /\ hardPins[c] = "none"
  /\ softPins' = [softPins EXCEPT ![c] = "live"]
  /\ UNCHANGED <<store, hardPins, pc, cid, gcVars>>

Unpin(c) ==
  /\ hardPins' = [hardPins EXCEPT ![c] = "none"]
  /\ softPins' = [softPins EXCEPT ![c] = "none"]
  /\ UNCHANGED <<store, pc, cid, gcVars>>

SoftPinExpires(c) ==
  /\ softPins[c] = "live"
  /\ softPins' = [softPins EXCEPT ![c] = "expired"]
  /\ UNCHANGED <<store, hardPins, pc, cid, gcVars>>

-----------------------------------------------------------------------------
\* Garbage collection

\* Under RLock: the pins, the keys, and the first contents of live and stack.
GcSnapshot(g) ==
  /\ At(g, "idle")
  /\ Begin(g)
  /\ live' = [live EXCEPT ![g] = job'[g].dir]
  /\ stack' = [stack EXCEPT ![g] = job'[g].rec]
  /\ Goto(g, "mark")
  /\ UNCHANGED <<cid>>

NotPopped(g, c) == stack[g]    \* bug: the stack is not truncated after the read

Popped(g, c) == stack[g] \ {c}

\* One turn of the mark loop: pop a CID, skip it if it has been seen, mark
\* it, and read the block.  A read under a cancelled context fails like that
\* of a missing block.  The order of the stack is not kept: it starts in the
\* order of a map iteration, which Go leaves open.
GcPop(g) ==
  /\ At(g, "mark")
  /\ \E c \in stack[g] :
       /\ stack' = [stack EXCEPT ![g] = Popped(g, c)]
       /\ live' = [live EXCEPT ![g] = @ \cup {c}]
       /\ IF c \notin live[g] /\ c \in store /\ g \notin cancelled
          THEN cid' = [cid EXCEPT ![g] = c] /\ Goto(g, "expand")
          ELSE UNCHANGED <<cid, pc>>
  /\ UNCHANGED <<store, pinVars, running, job, cancelled>>

PushedOfNodes(g) ==            \* bug: the root of a manifest is not pushed
  IF Kind[cid[g]] = "node" THEN Links[cid[g]] \ live[g] ELSE {}

Pushed(g) == ChildCIDs(cid[g]) \ live[g]

\* The rest of the turn: GetBlockLocal refreshes the block's soft pin, then
\* the children that have not been seen are pushed.
GcExpand(g) ==
  /\ At(g, "expand")
  /\ softPins' = RefreshedPins(cid[g])
  /\ stack' = [stack EXCEPT ![g] = @ \cup Pushed(g)]
  /\ Goto(g, "mark")
  /\ UNCHANGED <<store, hardPins, cid, running, job, cancelled, live>>

MarkedSome(g) == At(g, "mark")    \* bug: one turn of the loop only

MarkDone(g) == At(g, "mark") /\ stack[g] = {}

Marked(g) == job[g].keys \cap live[g]   \* bug: the test of live is inverted

Unmarked(g) == job[g].keys \ live[g]

\* Under Lock: delete the unmarked keys of the snapshot that are still there
\* (and their provider records, see Provide).  held is bookkeeping of the
\* contract: another collection in progress notes which blocks it lost.
GcSweep(g) ==
  LET dead == Unmarked(g) IN
  /\ MarkDone(g)
  /\ store' = store \ dead
  /\ running' = running \ {g}
  /\ job' = [h \in Collectors |->
               IF h = g THEN NoJob ELSE [job[h] EXCEPT !.held = @ \ dead]]
  /\ cancelled' = cancelled \ {g}
  /\ live' = [live EXCEPT ![g] = {}]
  /\ Goto(g, "idle")
  /\ UNCHANGED <<pinVars, cid, stack>>

GcCancel(g) ==
  /\ Cancel(g)
  /\ UNCHANGED <<pc, cid, live, stack>>

-----------------------------------------------------------------------------

ClientNext(p) ==
  \/ \E c \in CID : PutBlockLocally(p, c) \/ GetBlock(p, c)
  \/ PutAnnounce(p) \/ GetAnnounce(p)
  \/ FetchFails(p) \/ FetchStores(p) \/ FetchNotStored(p)
  \/ RefreshSoftPin(p)

PinNext(c) ==
  Pin(c) \/ PinDirect(c) \/ PinSoft(c) \/ Unpin(c) \/ SoftPinExpires(c)

GcStep(g) == GcPop(g) \/ GcExpand(g) \/ GcSweep(g)

MemNext ==
  \/ \E p \in Clients : ClientNext(p)
  \/ \E c \in CID : PinNext(c)
  \/ \E g \in Collectors : GcSnapshot(g) \/ GcCancel(g) \/ GcStep(g)

MemSpec == MemInit /\ [][MemNext]_mvars

\* The Go scheduler runs a goroutine that can run: a collection goes on, and
\* the hourly loop starts another one.
MemFairness ==
  /\ \A g \in Collectors : WF_mvars(GcStep(g))
  /\ \A g \in Loops : WF_mvars(GcSnapshot(g))
-----------------------------------------------------------------------------
\* Properties

\* Every variable has its type, running says which collectors are not idle,
\* and a collection leaves the mark loop with an empty stack.
TypeOK ==
  /\ store \subseteq CID
  /\ hardPins \in [CID -> HardModes]
  /\ softPins \in [CID -> SoftModes]
  /\ running \subseteq Collectors
  /\ job \in [Collectors -> Jobs]
  /\ pc \in [Procs -> ClientPlaces \cup CollectorPlaces]
  /\ \A p \in Clients : pc[p] \in ClientPlaces
  /\ \A g \in Collectors : pc[g] \in CollectorPlaces
  /\ cid \in [Procs -> CID]
  /\ live \in [Collectors -> SUBSET CID]
  /\ stack \in [Collectors -> SUBSET CID]
  /\ running = {g \in Collectors : pc[g] # "idle"}
  /\ cancelled \subseteq running
  /\ \A g \in Collectors : At(g, "idle") => stack[g] = {}

\* A CID never has both a hard and a soft pin (Pin promotes, PinSoft yields),
\* so a recursive root is never hidden among the roots GC does not traverse.
PinsExclusive == \A c \in CID : hardPins[c] = "none" \/ softPins[c] = "none"

\* The tri-colour invariant of the mark loop while puts, gets, pins and other
\* collections run: whatever stayed in the store since the snapshot and is
\* marked has its children marked or stacked, unless it is being expanded or
\* is a direct root, and nothing else than descendants of the roots is marked.
Expanding(g, c) == pc[g] = "expand" /\ cid[g] = c

MarkSound(g) ==
  /\ job[g].held \subseteq store \cap job[g].keys
  /\ job[g].dir \subseteq live[g]
  /\ job[g].rec \subseteq live[g] \cup stack[g]
  /\ live[g] \subseteq MayKeep(job[g])
  /\ stack[g] \subseteq Reach(job[g].rec, CID)
  /\ At(g, "expand") => cid[g] \in Reach(job[g].rec, CID)
  /\ g \notin cancelled =>
       \A c \in (live[g] \cap job[g].held) \ job[g].dir :
         Expanding(g, c) \/ ChildCIDs(c) \subseteq live[g] \cup stack[g]

MarkInv == \A g \in running : MarkSound(g)

\* A recursively pinned DAG that was complete when a collection took its
\* snapshot, stayed complete and holds no direct root survives the sweep of
\* a collection that was not cancelled, whatever was put, fetched, pinned,
\* unpinned or expired in between.
PinnedDagKept(g) ==
  \A r \in job[g].rec :
    DagOf(r) \subseteq job[g].held \ job[g].dir => DagOf(r) \subseteq store'

PinnedDagSurvives ==
  [][\A g \in Collectors : GcSweep(g) /\ g \notin cancelled => PinnedDagKept(g)]_mvars

\* A soft pin comes into being by PinSoft alone: no refresh (by a get, or by
\* the traversal of GC) brings back one that Unpin or Pin removed.
UnpinSticks ==
  [][\A c \in CID : softPins[c] = "none" /\ softPins'[c] # "none" => PinSoft(c)]_mvars

\* The store keeps the promise of GcContract.
KeepsContract == Spec

\* A block that no pin protects is deleted in the end.
Pinned(c) ==
  \/ hardPins[c] = "d" \/ softPins[c] = "live"
  \/ \E r \in CID : hardPins[r] = "r" /\ c \in DagOf(r)

GarbageReclaimed == \A c \in CID : c \in store ~> c \notin store \/ Pinned(c)

\* A collection that has begun finishes, although puts go on meanwhile.
GcTerminates == \A g \in Collectors : g \in running ~> g \notin running

-----------------------------------------------------------------------------
\* Store.Pin: "adds a hard pin which protects the CID (and its DAG) from GC".
\* Neither of the next two holds.

\* ... although a part of the DAG is pinned directly or softly as well.
PinProtectsOverlap ==
  [][\A g \in Collectors : GcSweep(g) /\ g \notin cancelled =>
       \A r \in job[g].rec : DagOf(r) \subseteq job[g].held => DagOf(r) \subseteq store']_mvars

\* ... when the context of the collection is cancelled during the mark loop.
PinProtectsOnCancel == [][\A g \in Collectors : GcSweep(g) => PinnedDagKept(g)]_mvars
=============================================================================
