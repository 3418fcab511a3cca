------------------------------ MODULE DistAdd -------------------------------
(***************************************************************************)
(* A file that is added to the peers of a node (service/dist_store.go):    *)
(* every block is offered to the peers a lookup returns until Replicas of  *)
(* them have taken it; the manifest, and a block that no peer took, is     *)
(* kept by the node itself with a direct pin.  A peer stores the block and *)
(* then pins it softly (node/server.go, PutBlock); its collector, the      *)
(* expiry of its soft pins, reads, lost answers and nodes that stop        *)
(* interleave.                                                             *)
(*                                                                         *)
(* The block stores are those of GcContract with an atomic mark: what a    *)
(* sweep removes is fixed when the collection takes its snapshot.  Where a *)
(* node finds a provider is left open: the records expire, are overwritten *)
(* and published anew, as Records and Provide model them.                  *)
(***************************************************************************)
EXTENDS Marking, Naturals, Sequences, FiniteSets

CONSTANTS
  Me,           \* the node that adds
  Peers,        \* the other nodes
  Accepting,    \* those that take foreign blocks
  Replicas,     \* copies wanted
  Files,        \* the files: their CIDs in the order the builder puts them
  MaxAdds,      \* bound: adds
  MaxLost,      \* bound: requests to live peers that time out
  Collecting,   \* bound: the nodes whose collector runs
  Caching,      \* bound: the nodes that read blocks for their own use
  MaxReads,     \* bound: reads in progress
  Mortal        \* bound: the peers that may stop

Nodes == Peers \cup {Me}

ASSUME DistAddAssumption ==
  /\ Me \notin Peers /\ Accepting \subseteq Peers
  /\ Replicas \in Nat \ {0}
  /\ Files \subseteq Seq(CID) \ {<<>>}
  /\ MaxAdds \in Nat /\ MaxLost \in Nat /\ MaxReads \in Nat
  /\ Collecting \cup Caching \subseteq Nodes /\ Mortal \subseteq Peers

VARIABLES
  store, hard, soft,  \* the blocks and the pins of each node
  gc,                 \* the collection of each node, and what it will sweep
  up,                 \* the nodes that run
  place,              \* where the add is
  rest,               \* the blocks still to be put, the current one first
  cands,              \* the peers still to be tried for it
  successes,          \* the peers that took it
  handlers,           \* the requests being handled; wanted: the adder waits
  reads,              \* the reads in progress: of a block of node of, by node by
  adds, lost,         \* adds begun, requests timed out
  placed,             \* history: <<n, c>>: n has confirmed the block, or pinned it
  late                \* history: <<n, c>>: when n pinned c, or renewed the pin, a
                      \* collection that began before had removed it or will

stores == <<store, hard, soft, gc>>
adder  == <<place, rest, cands, successes, adds, lost>>
dvars  == <<store, hard, soft, gc, up, place, rest, cands, successes,
            handlers, reads, adds, lost, placed, late>>

Requests == [to : Peers, cid : CID, wanted : BOOLEAN,
             at : {"store", "pin", "taken", "refused"}]

Reads == [by : Nodes, of : Nodes, cid : CID, at : {"serve", "put", "refresh"}]

\* Nothing is stored, or the node holds a whole file under a recursive pin.
DistInit ==
  /\ \E f \in Files, whole \in BOOLEAN :
       /\ store = [n \in Nodes |-> IF n = Me /\ whole THEN {f[i] : i \in DOMAIN f} ELSE {}]
       /\ hard = [n \in Nodes |-> [c \in CID |->
                    IF n = Me /\ whole /\ c = f[Len(f)] THEN "r" ELSE "none"]]
  /\ soft = [n \in Nodes |-> [c \in CID |-> "none"]]
  /\ gc = [n \in Nodes |-> [on |-> FALSE, dead |-> {}]]
  /\ up = Nodes
  /\ place = "idle" /\ rest = <<>> /\ cands = {} /\ successes = 0
  /\ handlers = {} /\ reads = {} /\ adds = 0 /\ lost = 0
  /\ placed = {} /\ late = {}
-----------------------------------------------------------------------------
\* The block store of one node

PutLocally(n, c) == store' = [store EXCEPT ![n] = @ \cup {c}]

\* What a collection that begins now will delete.
Direct(n)    == {c \in CID : hard[n][c] = "d" \/ soft[n][c] = "live"}
Recursive(n) == {c \in CID : hard[n][c] = "r"}

\* bug: soft pins are forgotten
LiveHardOnly(n) == Reach(Recursive(n), store[n]) \cup {c \in CID : hard[n][c] = "d"}

Live(n) == Direct(n) \cup Reach(Recursive(n), store[n] \ Direct(n))

\* n sets a pin on c: is a collection of n about to remove c, or has it
\* removed c since it was put or read?
NoteLate(n, c) ==
  late' = IF c \in gc[n].dead \/ c \notin store[n]
          THEN late \cup {<<n, c>>}
          ELSE late \ {<<n, c>>}

Snapshot(n) ==
  /\ n \in Collecting \cap up /\ ~gc[n].on
  /\ gc' = [gc EXCEPT ![n] = [on |-> TRUE, dead |-> store[n] \ Live(n)]]
  /\ UNCHANGED <<store, hard, soft, up, adder, handlers, reads, placed, late>>

Sweep(n) ==
  /\ n \in up /\ gc[n].on
  /\ store' = [store EXCEPT ![n] = @ \ gc[n].dead]
  /\ gc' = [gc EXCEPT ![n] = [on |-> FALSE, dead |-> {}]]
  /\ UNCHANGED <<hard, soft, up, adder, handlers, reads, placed, late>>

SoftPinExpires(n, c) ==
  /\ soft[n][c] = "live"
  /\ soft' = [soft EXCEPT ![n][c] = "expired"]
  /\ UNCHANGED <<store, hard, gc, up, adder, handlers, reads, placed, late>>

\* A soft pin that exists gets a new expiry, even when it had expired.
RefreshSoftPin(n, c) ==
  /\ soft' = [soft EXCEPT ![n][c] = IF @ = "none" THEN "none" ELSE "live"]
  /\ IF soft[n][c] = "none" THEN UNCHANGED late ELSE NoteLate(n, c)

\* GetBlock of node n finds the block at p, another node or n itself ...
StartRead(n, p, c) ==
  /\ n \in Caching \cap up /\ Cardinality(reads) < MaxReads
  /\ p \in up /\ c \in store[p]
  /\ p = n \/ c \notin store[n]
  /\ reads' = reads \cup {[by |-> n, of |-> p, cid |-> c,
                         at |-> IF p = n THEN "refresh" ELSE "serve"]}
  /\ UNCHANGED <<stores, up, adder, handlers, placed, late>>

Continues(d, at) == reads' = (reads \ {d}) \cup {[d EXCEPT !.at = at]}

\* ... the handler of FetchBlock there renews the soft pin, in a critical
\* section of its own (GetBlockLocal), and answers ...
ReadServed(d) ==
  /\ d.at = "serve" /\ d.of \in up
  /\ RefreshSoftPin(d.of, d.cid)
  /\ Continues(d, "put")
  /\ UNCHANGED <<store, hard, gc, up, adder, handlers, placed>>

\* ... the reader keeps what it got, unless its context has been cancelled ...
ReadStores(d) ==
  /\ d.at = "put"
  /\ PutLocally(d.by, d.cid) \/ UNCHANGED store
  /\ Continues(d, "refresh")
  /\ UNCHANGED <<hard, soft, gc, up, adder, handlers, placed, late>>

\* ... and renews its own soft pin, if it has one.
ReadRefreshes(d) ==
  /\ d.at = "refresh"
  /\ RefreshSoftPin(d.by, d.cid)
  /\ reads' = reads \ {d}
  /\ UNCHANGED <<store, hard, gc, up, adder, handlers, placed>>

\* No answer, or not the block.
ReadFails(d) ==
  /\ d.at \in {"serve", "put"}
  /\ reads' = reads \ {d}
  /\ UNCHANGED <<stores, up, adder, handlers, placed, late>>

Read(d) == ReadServed(d) \/ ReadStores(d) \/ ReadRefreshes(d) \/ ReadFails(d)

\* A node stops for good, with the requests it was handling.
Stops(n) ==
  /\ n \in up \cap Mortal
  /\ up' = up \ {n}
  /\ handlers' = {r \in handlers : r.to # n}
  /\ reads' = {d \in reads : d.by # n}
  /\ UNCHANGED <<stores, adder, placed, late>>

-----------------------------------------------------------------------------
\* The handler of a PutBlock request

Moves(r, at) == handlers' = (handlers \ {r}) \cup {[r EXCEPT !.at = at]}

HandlerStores(r) ==
  /\ r.at = "store"
  /\ IF r.to \in Accepting THEN PutLocally(r.to, r.cid) /\ Moves(r, "pin")
     ELSE UNCHANGED store /\ Moves(r, "refused")
  /\ UNCHANGED <<hard, soft, gc, up, reads, adder, placed, late>>

HandlerPins(r) ==
  /\ r.at = "pin"
  /\ soft' = [soft EXCEPT ![r.to][r.cid] = "live"]
  /\ NoteLate(r.to, r.cid)
  /\ Moves(r, "taken")
  /\ UNCHANGED <<store, hard, gc, up, reads, adder, placed>>

\* The peer's store returns an error, for the block or for its pin.
HandlerFails(r) ==
  /\ r.at \in {"store", "pin"} /\ Moves(r, "refused")
  /\ UNCHANGED <<stores, up, reads, adder, placed, late>>

\* The answer goes to an adder that has given up.
HandlerEnds(r) ==
  /\ r.at \in {"taken", "refused"} /\ ~r.wanted
  /\ handlers' = handlers \ {r}
  /\ UNCHANGED <<stores, up, reads, adder, placed, late>>

Handle(r) ==
  \/ HandlerStores(r) \/ HandlerPins(r) \/ HandlerFails(r) \/ HandlerEnds(r)

-----------------------------------------------------------------------------
\* distStore.PutBlock for one block after the other

Block == Head(rest)

StartAdd(f) ==
  /\ place \in {"idle", "added", "failed"} /\ adds < MaxAdds
  /\ adds' = adds + 1 /\ rest' = f /\ place' = "lookup"
  /\ UNCHANGED <<stores, up, reads, cands, successes, handlers, lost, placed, late>>

\* IterativeFindNode may return any nodes, this one and stopped ones as well.
Lookup ==
  /\ place = "lookup"
  /\ \E found \in SUBSET Nodes : cands' = found \ {Me}
  /\ successes' = 0 /\ place' = "offer"
  /\ UNCHANGED <<stores, up, reads, rest, handlers, adds, lost, placed, late>>

Offer(p) ==
  /\ place = "offer" /\ p \in cands /\ successes < Replicas
  /\ cands' = cands \ {p}
  /\ IF p \in up
     THEN /\ place' = "wait"
          /\ handlers' = handlers \cup {[to |-> p, cid |-> Block, wanted |-> TRUE, at |-> "store"]}
     ELSE UNCHANGED <<place, handlers>>
  /\ UNCHANGED <<stores, up, reads, rest, successes, adds, lost, placed, late>>

Answered(r) ==
  /\ place = "wait" /\ r.wanted /\ r.at \in {"taken", "refused"}
  /\ handlers' = handlers \ {r} /\ place' = "offer"
  /\ IF r.at = "taken"
     THEN successes' = successes + 1 /\ placed' = placed \cup {<<r.to, r.cid>>}
     ELSE UNCHANGED <<successes, placed>>
  /\ UNCHANGED <<stores, up, reads, rest, cands, adds, lost, late>>

\* bug: a peer that has stopped is waited for
TimesOutIfUp ==
  /\ place = "wait" /\ place' = "offer"
  /\ \E r \in handlers : r.wanted
  /\ handlers' = {[r EXCEPT !.wanted = FALSE] : r \in handlers}
  /\ lost < MaxLost /\ lost' = lost + 1
  /\ UNCHANGED <<stores, up, reads, rest, cands, successes, adds, placed, late>>

\* No answer in RpcTimeout: the peer has stopped, or it works on regardless.
TimesOut ==
  /\ place = "wait" /\ place' = "offer"
  /\ handlers' = {[r EXCEPT !.wanted = FALSE] : r \in handlers}
  /\ IF \E r \in handlers : r.wanted THEN lost < MaxLost /\ lost' = lost + 1
     ELSE UNCHANGED lost
  /\ UNCHANGED <<stores, up, reads, rest, cands, successes, adds, placed, late>>

\* KeepLocalSelector(true, 0.2): its threshold is a fraction of max = 0, so
\* that only the manifest is kept for sure.
KeepLocal(c) == Kind[c] = "manifest"

\* bug: the end of the file is not noticed
AdvanceAlways == rest' = Tail(rest) /\ place' = "lookup"

Advance ==
  /\ rest' = Tail(rest)
  /\ place' = IF rest' = <<>> THEN "added" ELSE "lookup"

\* bug: a block nobody took is not kept
OfferedOnce ==
  /\ place = "offer" /\ (cands = {} \/ successes >= Replicas)
  /\ IF KeepLocal(Block) THEN place' = "keep" /\ UNCHANGED rest ELSE Advance
  /\ UNCHANGED <<stores, up, reads, cands, successes, handlers, adds, lost, placed, late>>

Offered ==
  /\ place = "offer" /\ (cands = {} \/ successes >= Replicas)
  /\ IF KeepLocal(Block) \/ successes = 0 THEN place' = "keep" /\ UNCHANGED rest ELSE Advance
  /\ UNCHANGED <<stores, up, reads, cands, successes, handlers, adds, lost, placed, late>>

KeepStores ==
  /\ place = "keep" /\ place' = "pin"
  /\ PutLocally(Me, Block)
  /\ UNCHANGED <<hard, soft, gc, up, reads, rest, cands, successes, handlers, adds,
                 lost, placed, late>>

\* PinDirect replaces whatever pin there is.
KeepPins ==
  /\ place = "pin" /\ Advance
  /\ hard' = [hard EXCEPT ![Me][Block] = "d"]
  /\ soft' = [soft EXCEPT ![Me][Block] = "none"]
  /\ NoteLate(Me, Block)
  /\ placed' = placed \cup {<<Me, Block>>}
  /\ UNCHANGED <<store, gc, up, reads, cands, successes, handlers, adds, lost>>

\* The local store returns an error (it does when the request is cancelled),
\* and the whole add fails.
KeepFails ==
  /\ place \in {"keep", "pin"} /\ place' = "failed"
  /\ UNCHANGED <<stores, up, reads, rest, cands, successes, handlers, adds, lost, placed, late>>

Add ==
  \/ Lookup \/ Offered \/ TimesOut \/ KeepStores \/ KeepPins
  \/ \E p \in Peers : Offer(p)
  \/ \E r \in handlers : Answered(r)

Next ==
  \/ \E f \in Files : StartAdd(f)
  \/ Add \/ KeepFails
  \/ \E r \in handlers : Handle(r)
  \/ \E n \in Nodes : Snapshot(n) \/ Sweep(n) \/ Stops(n)
  \/ \E n \in Nodes, c \in CID : SoftPinExpires(n, c) \/ \E p \in Nodes : StartRead(n, p, c)
  \/ \E d \in reads : Read(d)

Spec == DistInit /\ [][Next]_dvars

\* The add goes on, its calls have a timeout, and a handler that runs goes on.
DistFairness == WF_dvars(Add) /\ WF_dvars(\E r \in handlers : Handle(r))
-----------------------------------------------------------------------------
TypeOK ==
  /\ store \in [Nodes -> SUBSET CID]
  /\ hard \in [Nodes -> [CID -> HardModes]] /\ soft \in [Nodes -> [CID -> SoftModes]]
  /\ gc \in [Nodes -> [on : BOOLEAN, dead : SUBSET CID]]
  /\ up \subseteq Nodes
  /\ place \in {"idle", "lookup", "offer", "wait", "keep", "pin", "added", "failed"}
  /\ rest \in Seq(CID) /\ (place \notin {"idle", "added"} => rest # <<>>)
  /\ cands \subseteq Peers /\ successes \in 0..Replicas
  /\ handlers \subseteq Requests /\ reads \subseteq Reads
  /\ adds \in 0..MaxAdds /\ lost \in 0..MaxLost
  /\ placed \subseteq Nodes \X CID /\ late \subseteq Nodes \X CID

Pinned(n, c) == hard[n][c] # "none" \/ soft[n][c] = "live"

(***************************************************************************)
(* A block that a peer has confirmed, or that the node kept, is held there *)
(* while its pin lasts: no collection removes it but one whose snapshot is *)
(* older than the pin or its renewal.  The handler of PutBlock stores and  *)
(* pins in two steps, and a read of an expired pin renews it later.        *)
(***************************************************************************)
PlacedIsHeld ==
  \A n \in up, c \in CID :
    <<n, c>> \in placed \ late /\ Pinned(n, c) => c \in store[n]

(***************************************************************************)
(* When an add has succeeded, every block of the file has been confirmed   *)
(* by a peer or is pinned by the node, whichever peers refused it, stopped *)
(* or answered too late; the manifest is pinned by the node in any case.   *)
(***************************************************************************)
AddedIsPlaced ==
  place = "added" =>
    \E f \in Files : \A i \in DOMAIN f :
      /\ \E n \in Nodes : <<n, f[i]>> \in placed
      /\ Kind[f[i]] = "manifest" => hard[Me][f[i]] = "d"

(***************************************************************************)
(* An add ends, whatever its peers do.                                     *)
(***************************************************************************)
AddEnds == (place = "lookup") ~> (place \in {"added", "failed"})
=============================================================================
