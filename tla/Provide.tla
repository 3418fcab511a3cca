------------------------------ MODULE Provide ------------------------------
(***************************************************************************)
(* The provider records a node keeps of its own blocks, beside the         *)
(* in-memory block store: every writer of the entries of Node.store under  *)
(* the keys of CIDs.  PutBlock and GetBlock announce a block after they    *)
(* have stored it (memory.go), GC takes back the records of the blocks it  *)
(* deletes (providers.go), the republishing loop stores again what it read *)
(* earlier (node.go), the reprovider announces the blocks below the hard   *)
(* pins (service.go), and handlers and lookups put other records over them *)
(* (server.go, client.go).                                                 *)
(*                                                                         *)
(* Each access to the map is one step, under storeMu.  What Node.Store     *)
(* sends to peers, lifetimes and the other nodes are those of Records: an  *)
(* entry may expire, and a copy may arrive, at any moment.                 *)
(*                                                                         *)
(* Every step is one of MemStore, or leaves the block store alone: what    *)
(* holds of MemStore holds here.                                           *)
(***************************************************************************)
EXTENDS MemStore

CONSTANT Reprovider    \* the goroutine of service.startReprovider

ASSUME ProvideAssumption == Reprovider \in Clients

VARIABLES
  record,   \* the node's entry for each CID: its own, with Origin, or another
  snap,     \* republishLoop: the items that it has still to store
  turn,     \* where the reprovider is
  todo,     \* the reprovider's stack
  visited   \* reprovideOnce: visited

provVars == <<turn, todo, visited>>
pvars    == <<mvars, record, snap, provVars>>

RecordKinds == {"none", "own", "other"}

Handlers == Clients \ {Reprovider}

ProvideInit ==
  /\ MemInit
  /\ record = [c \in CID |-> "none"]
  /\ snap = {}
  /\ turn = "none"
  /\ todo = {}
  /\ visited = {}

SetRecord(c, kind) == record' = [record EXCEPT ![c] = kind]

\* PutProviderRecord: the first step of Node.Store, which stores locally.
Publish(c) == SetRecord(c, "own")

-----------------------------------------------------------------------------
\* The block store

AnnouncePut(p) ==
  /\ PutAnnounce(p)
  /\ Publish(cid[p])
  /\ UNCHANGED <<snap, provVars>>

AnnounceGet(p) ==
  /\ GetAnnounce(p)
  /\ Publish(cid[p])
  /\ UNCHANGED <<snap, provVars>>

\* The steps that do not touch the records.
StoreStep ==
  /\ \/ \E p \in Handlers, c \in CID : PutBlockLocally(p, c) \/ GetBlock(p, c)
     \/ \E p \in Handlers : FetchFails(p) \/ FetchStores(p) \/ FetchNotStored(p)
     \/ \E p \in Handlers : RefreshSoftPin(p)
     \/ \E c \in CID : PinNext(c)
     \/ \E g \in Collectors : GcSnapshot(g) \/ GcCancel(g) \/ GcPop(g) \/ GcExpand(g)
  /\ UNCHANGED <<record, snap, provVars>>

SweptRecords(dead) == record      \* bug: Unannounce forgotten

\* GC calls Unannounce, under the store's lock, for each block it deletes.
Unannounced(dead) ==
  [c \in CID |-> IF c \in dead \cap store THEN "none" ELSE record[c]]

Sweep(g) ==
  /\ record' = Unannounced(Unmarked(g))
  /\ GcSweep(g)
  /\ UNCHANGED <<snap, provVars>>

-----------------------------------------------------------------------------
\* The node's other writers

\* The handler of the Store RPC: a peer publishes, or republishes, its record.
HandleStore(c) ==
  /\ SetRecord(c, "other")
  /\ UNCHANGED <<mvars, snap, provVars>>

\* Get and GetClosest keep the first answer of a round, of any provider.
CacheFound(c) ==
  /\ SetRecord(c, "other")
  /\ UNCHANGED <<mvars, snap, provVars>>

\* A value that the HTTP API puts under the text of a CID.  It has Origin set
\* as well; to republish it is to overwrite the entry once more.
PutValue(c) ==
  /\ SetRecord(c, "other")
  /\ UNCHANGED <<mvars, snap, provVars>>

\* gcLoop, or a FindValue, deletes an entry that has expired.
Expire(c) ==
  /\ record[c] # "none"
  /\ SetRecord(c, "none")
  /\ UNCHANGED <<mvars, snap, provVars>>

\* republishLoop reads the entries with Origin that are due ...
RepublishSnapshot ==
  /\ snap = {}
  /\ snap' \in SUBSET {c \in CID : record[c] = "own"}
  /\ UNCHANGED <<mvars, record, provVars>>

\* ... and stores each of them, without looking whether it is still there.
Republish(c) ==
  /\ c \in snap
  /\ Publish(c)
  /\ snap' = snap \ {c}
  /\ UNCHANGED <<mvars, provVars>>

-----------------------------------------------------------------------------
\* The reprovider: a traversal from the hard pins, of either kind.  The order
\* of its stack is not kept: the pins are listed in the order of a map.

StartPass ==
  /\ turn = "none"
  /\ turn' = "pass"
  /\ todo' = {c \in CID : hardPins[c] # "none"}
  /\ visited' = {}
  /\ UNCHANGED <<mvars, record, snap>>

EndPass ==
  /\ turn = "pass" /\ At(Reprovider, "idle") /\ todo = {}
  /\ turn' = "none"
  /\ UNCHANGED <<mvars, record, snap, todo, visited>>

\* Pop a CID that has been seen, or whose block is not here.
SkipBlock(c) ==
  /\ turn = "pass" /\ At(Reprovider, "idle") /\ c \in todo
  /\ c \in visited \/ c \notin store
  /\ todo' = todo \ {c}
  /\ visited' = visited \cup {c}
  /\ UNCHANGED <<mvars, record, snap, turn>>

\* Pop a CID and read its block under the store's lock (GetBlockLocal) ...
ReadBlock(c) ==
  /\ turn = "pass" /\ c \in todo \ visited /\ c \in store
  /\ GetBlock(Reprovider, c)
  /\ todo' = todo \ {c}
  /\ visited' = visited \cup {c}
  /\ UNCHANGED <<record, snap, turn>>

\* ... refresh its soft pin under the lock taken anew ...
RefreshRead ==
  /\ RefreshSoftPin(Reprovider)
  /\ turn' = "announce"
  /\ UNCHANGED <<record, snap, todo, visited>>

ChildrenOfNodes(c) ==           \* bug: the root of a manifest is not pushed
  IF Kind[c] = "node" THEN Links[c] ELSE {}

Children(c) == ChildCIDs(c)

\* ... and announce it without a lock; then push its children.
Reprovide ==
  /\ turn = "announce"
  /\ Publish(cid[Reprovider])
  /\ todo' = todo \cup Children(cid[Reprovider])
  /\ turn' = "pass"
  /\ UNCHANGED <<mvars, snap, visited>>

PassStep ==
  \/ StartPass \/ EndPass \/ RefreshRead \/ Reprovide
  \/ \E c \in CID : SkipBlock(c) \/ ReadBlock(c)

-----------------------------------------------------------------------------

ProvideNext ==
  \/ StoreStep
  \/ \E p \in Handlers : AnnouncePut(p) \/ AnnounceGet(p)
  \/ \E g \in Collectors : Sweep(g)
  \/ \E c \in CID : HandleStore(c) \/ CacheFound(c) \/ PutValue(c) \/ Expire(c)
  \/ RepublishSnapshot
  \/ \E c \in CID : Republish(c)
  \/ PassStep

ProvideSpec == ProvideInit /\ [][ProvideNext]_pvars

\* The reprovider's ticker fires every six hours, and a pass goes on: the
\* calls of Node.Store have a deadline.
ProvideFairness == WF_pvars(PassStep)
-----------------------------------------------------------------------------
\* Properties

\* Every variable has its type; the reprovider reads a block only during a
\* pass, and holds what it announces for visited.
ProvideTypeOK ==
  /\ TypeOK
  /\ record \in [CID -> RecordKinds]
  /\ snap \subseteq CID
  /\ turn \in {"none", "pass", "announce"}
  /\ todo \subseteq CID
  /\ visited \subseteq CID
  /\ pc[Reprovider] \in {"idle", "refresh"}
  /\ pc[Reprovider] = "refresh" => turn = "pass"
  /\ pc[Reprovider] = "refresh" \/ turn = "announce" => cid[Reprovider] \in visited
  /\ turn = "none" => todo = {}

\* The node's own record of a block that is not here comes into being only
\* by an announcement of something found earlier: of a put or a get whose
\* block was swept, or not stored, since; of an item republishLoop read before
\* the record was withdrawn; of a block the reprovider read before the sweep.
\* A sweep itself never leaves one behind, whatever the other writers do.
Dangling == {c \in CID : record[c] = "own"} \ store

LateAnnouncements ==
  {cid[p] : p \in {q \in Handlers : pc[q] \in {"putAnnounce", "getAnnounce"}}}
  \cup snap
  \cup (IF turn = "announce" THEN {cid[Reprovider]} ELSE {})

OnlyLateAnnouncesDangle ==
  [][Dangling' \ Dangling \subseteq LateAnnouncements]_pvars

\* Records are overwritten and expire, but the blocks of a complete DAG below
\* a hard pin are announced again and again for as long as it stays so.
PinnedBlocksAreReprovided ==
  \A r \in CID : \A c \in DagOf(r) :
    []<>(record[c] = "own" \/ hardPins[r] = "none" \/ ~(DagOf(r) \subseteq store))
=============================================================================
