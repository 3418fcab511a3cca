--------------------------- MODULE DistAddProofs ----------------------------
(***************************************************************************)
(* Proofs about adding files to peers, for files, peers and replicas of    *)
(* any number, any number of adds and of lost answers.                     *)
(***************************************************************************)
EXTENDS DistAdd, TLAPS

-----------------------------------------------------------------------------
\* Type correctness

LEMMA LiveTyped == ASSUME NEW n PROVE Direct(n) \subseteq Live(n)
BY DEF Live

LEMMA RecursiveLive == ASSUME NEW n PROVE Recursive(n) \subseteq Live(n)
<1>1. Recursive(n) \subseteq Reach(Recursive(n), store[n] \ Direct(n))
  BY DEF Recursive, Reach
<1> QED
  BY <1>1 DEF Live

Blocked == {"lookup", "offer", "wait", "keep", "pin"}

\* Only a peer more than wanted is ever waited for.
DistTypes == TypeOK /\ (place = "wait" => successes < Replicas)

LEMMA TypeInit == DistInit => DistTypes
<1> SUFFICES ASSUME DistInit PROVE DistTypes
  OBVIOUS
<1> USE DistAddAssumption
<1>1. PICK f \in Files, whole \in BOOLEAN :
        /\ store = [n \in Nodes |-> IF n = Me /\ whole THEN {f[i] : i \in DOMAIN f} ELSE {}]
        /\ hard = [n \in Nodes |-> [c \in CID |->
                     IF n = Me /\ whole /\ c = f[Len(f)] THEN "r" ELSE "none"]]
  BY DEF DistInit
<1>2. \A i \in DOMAIN f : f[i] \in CID
  OBVIOUS
<1>3. store \in [Nodes -> SUBSET CID] /\ hard \in [Nodes -> [CID -> HardModes]]
  BY <1>1, <1>2 DEF HardModes
<1>4. soft \in [Nodes -> [CID -> SoftModes]] /\ gc \in [Nodes -> [on : BOOLEAN, dead : SUBSET CID]]
  BY DEF DistInit, SoftModes
<1> QED
  BY <1>3, <1>4 DEF DistInit, DistTypes, TypeOK

LEMMA BlockTyped ==
  ASSUME TypeOK, place \notin {"idle", "added"}
  PROVE  /\ rest # <<>> /\ Block \in CID /\ Tail(rest) \in Seq(CID)
BY DEF TypeOK, Block

\* The record of a handler that goes on.
LEMMA MovedTyped ==
  ASSUME TypeOK, NEW r \in handlers, NEW at \in {"store", "pin", "taken", "refused"}
  PROVE  /\ r \in Requests /\ [r EXCEPT !.at = at] \in Requests
         /\ (handlers \ {r}) \cup {[r EXCEPT !.at = at]} \subseteq Requests
BY DEF TypeOK, Requests

LEMMA PutTyped ==
  ASSUME TypeOK, NEW n \in Nodes, NEW c \in CID, PutLocally(n, c)
  PROVE  store' \in [Nodes -> SUBSET CID]
<1>1. store \in [Nodes -> SUBSET CID]
  BY DEF TypeOK
<1>2. store[n] \cup {c} \in SUBSET CID
  BY <1>1
<1> QED
  BY <1>1, <1>2 DEF PutLocally

LEMMA RefreshTyped ==
  ASSUME TypeOK, NEW n \in Nodes, NEW c \in CID, RefreshSoftPin(n, c)
  PROVE  soft' \in [Nodes -> [CID -> SoftModes]] /\ late' \subseteq Nodes \X CID
<1>1. soft' \in [Nodes -> [CID -> SoftModes]]
  BY DEF RefreshSoftPin, TypeOK, SoftModes
<1>2. late' \subseteq Nodes \X CID
  BY DEF RefreshSoftPin, NoteLate, TypeOK
<1> QED
  BY <1>1, <1>2

\* A read leaves the add and the requests alone.
LEMMA ReadTyped ==
  ASSUME DistTypes, NEW d \in reads, Read(d)
  PROVE  DistTypes'
<1> USE DistAddAssumption DEF DistTypes, adder, stores
<1>1. d \in Reads /\ d.by \in Nodes /\ d.of \in Nodes /\ d.cid \in CID
  BY DEF TypeOK, Reads
<1>2. \A at \in {"serve", "put", "refresh"} : Continues(d, at) => reads' \subseteq Reads
  BY <1>1 DEF Continues, TypeOK, Reads
<1>3. reads' = reads \ {d} => reads' \subseteq Reads
  BY DEF TypeOK
<1>4. CASE ReadServed(d)
  BY <1>1, <1>2, <1>4, RefreshTyped DEF ReadServed, TypeOK
<1>5. CASE ReadStores(d)
  <2>1. store' \in [Nodes -> SUBSET CID]
    BY <1>1, <1>5, PutTyped DEF ReadStores, TypeOK
  <2> QED
    BY <1>2, <1>5, <2>1 DEF ReadStores, TypeOK
<1>6. CASE ReadRefreshes(d)
  BY <1>1, <1>3, <1>6, RefreshTyped DEF ReadRefreshes, TypeOK
<1>7. CASE ReadFails(d)
  BY <1>3, <1>7 DEF ReadFails, TypeOK
<1> QED
  BY <1>4, <1>5, <1>6, <1>7 DEF Read

LEMMA HandlerTyped ==
  ASSUME DistTypes, NEW r \in handlers, Handle(r)
  PROVE  DistTypes'
<1> USE DistAddAssumption DEF DistTypes, adder, stores
<1>1. r \in Requests /\ r.to \in Nodes /\ r.cid \in CID
  BY DEF TypeOK, Requests, Nodes
<1>2. CASE HandlerStores(r)
  <2>1. store' \in [Nodes -> SUBSET CID]
    <3>1. PutLocally(r.to, r.cid) \/ UNCHANGED store
      BY <1>2 DEF HandlerStores
    <3> QED
      BY <1>1, <3>1, PutTyped DEF TypeOK
  <2>2. handlers' \subseteq Requests
    <3>1. Moves(r, "pin") \/ Moves(r, "refused")
      BY <1>2 DEF HandlerStores
    <3> QED
      BY <3>1, MovedTyped DEF Moves
  <2> QED
    BY <1>2, <2>1, <2>2 DEF HandlerStores, TypeOK
<1>4. CASE HandlerPins(r)
  <2>1. soft' \in [Nodes -> [CID -> SoftModes]]
    BY <1>1, <1>4 DEF HandlerPins, TypeOK, SoftModes
  <2>2. handlers' \subseteq Requests
    BY <1>4, MovedTyped DEF HandlerPins, Moves
  <2>3. late' \subseteq Nodes \X CID
    BY <1>1, <1>4 DEF HandlerPins, NoteLate, TypeOK
  <2> QED
    BY <1>4, <2>1, <2>2, <2>3 DEF HandlerPins, TypeOK
<1>5. CASE HandlerFails(r)
  <2>1. handlers' \subseteq Requests
    BY <1>5, MovedTyped DEF HandlerFails, Moves
  <2> QED
    BY <1>5, <2>1 DEF HandlerFails, TypeOK
<1>6. CASE HandlerEnds(r)
  BY <1>6 DEF HandlerEnds, TypeOK
<1> QED
  BY <1>2, <1>4, <1>5, <1>6 DEF Handle

LEMMA TypeNext == DistTypes /\ [Next]_dvars => DistTypes'
<1> SUFFICES ASSUME DistTypes, [Next]_dvars PROVE DistTypes'
  OBVIOUS
<1> USE DistAddAssumption DEF DistTypes, adder, stores
<1>1. Me \in Nodes
  BY DEF Nodes
<1>2. ASSUME NEW f \in Files, StartAdd(f) PROVE DistTypes'
  BY <1>2 DEF StartAdd, TypeOK
<1>3. ASSUME Lookup PROVE DistTypes'
  <2>1. cands' \subseteq Peers
    BY <1>3 DEF Lookup, Nodes
  <2> QED
    BY <1>3, <2>1 DEF Lookup, TypeOK
<1>4. ASSUME NEW p \in Peers, Offer(p) PROVE DistTypes'
  <2>1. handlers' \subseteq Requests
    <3>1. Block \in CID /\ handlers \subseteq Requests
      BY <1>4, BlockTyped DEF Offer, TypeOK
    <3>2. [to |-> p, cid |-> Block, wanted |-> TRUE, at |-> "store"] \in Requests
      BY <3>1 DEF Requests
    <3> QED
      BY <1>4, <3>1, <3>2 DEF Offer
  <2> QED
    BY <1>4, <2>1 DEF Offer, TypeOK
<1>5. ASSUME NEW r \in handlers, Answered(r) PROVE DistTypes'
  <2>1. r.to \in Nodes /\ r.cid \in CID
    BY DEF TypeOK, Requests, Nodes
  <2>2. placed' \subseteq Nodes \X CID
    BY <1>5, <2>1 DEF Answered, TypeOK
  <2>3. successes' \in 0..Replicas
    BY <1>5 DEF Answered, TypeOK
  <2> QED
    BY <1>5, <2>2, <2>3 DEF Answered, TypeOK
<1>6. ASSUME TimesOut PROVE DistTypes'
  <2>1. handlers' \subseteq Requests
    <3>1. \A r \in Requests : [r EXCEPT !.wanted = FALSE] \in Requests
      BY DEF Requests
    <3> QED
      BY <1>6, <3>1 DEF TimesOut, TypeOK
  <2>2. lost' \in 0..MaxLost
    BY <1>6 DEF TimesOut, TypeOK
  <2> QED
    BY <1>6, <2>1, <2>2 DEF TimesOut, TypeOK
<1>7. ASSUME Advance, place \notin {"idle", "added"}, DistTypes
      PROVE  /\ rest' \in Seq(CID) /\ place' \in {"added", "lookup"}
             /\ place' # "added" => rest' # <<>>
  BY <1>7, BlockTyped DEF Advance
<1>8. ASSUME Offered PROVE DistTypes'
  <2>1. CASE UNCHANGED rest /\ place' = "keep"
    BY <1>8, <2>1 DEF Offered, TypeOK
  <2>2. CASE Advance
    BY <1>7, <1>8, <2>2 DEF Offered, TypeOK
  <2> QED
    BY <1>8, <2>1, <2>2 DEF Offered
<1>9. ASSUME KeepStores PROVE DistTypes'
  <2>1. Block \in CID
    BY <1>9, BlockTyped DEF KeepStores
  <2>2. store' \in [Nodes -> SUBSET CID]
    BY <1>1, <1>9, <2>1, PutTyped DEF KeepStores
  <2> QED
    BY <1>9, <2>2 DEF KeepStores, TypeOK
<1>10. ASSUME KeepPins PROVE DistTypes'
  <2>1. Block \in CID
    BY <1>10, BlockTyped DEF KeepPins
  <2>2. /\ hard' \in [Nodes -> [CID -> HardModes]] /\ soft' \in [Nodes -> [CID -> SoftModes]]
    BY <1>1, <1>10, <2>1 DEF KeepPins, TypeOK, HardModes, SoftModes
  <2>3. placed' \subseteq Nodes \X CID /\ late' \subseteq Nodes \X CID
    BY <1>1, <1>10, <2>1 DEF KeepPins, NoteLate, TypeOK
  <2> QED
    BY <1>7, <1>10, <2>2, <2>3 DEF KeepPins, TypeOK
<1>11. ASSUME KeepFails PROVE DistTypes'
  BY <1>11 DEF KeepFails, TypeOK
<1>12. ASSUME NEW n \in Nodes, Snapshot(n) \/ Sweep(n) \/ Stops(n) PROVE DistTypes'
  <2>1. CASE Snapshot(n)
    BY <2>1 DEF Snapshot, TypeOK
  <2>2. CASE Sweep(n)
    BY <2>2 DEF Sweep, TypeOK
  <2>3. CASE Stops(n)
    BY <2>3 DEF Stops, TypeOK
  <2> QED
    BY <1>12, <2>1, <2>2, <2>3
<1>13. ASSUME NEW n \in Nodes, NEW c \in CID, SoftPinExpires(n, c) PROVE DistTypes'
  <2>1. soft' \in [Nodes -> [CID -> SoftModes]]
    BY <1>13 DEF SoftPinExpires, TypeOK, SoftModes
  <2> QED
    BY <1>13, <2>1 DEF SoftPinExpires, TypeOK
<1>14. ASSUME NEW n \in Nodes, NEW p \in Nodes, NEW c \in CID, StartRead(n, p, c)
       PROVE  DistTypes'
  <2>1. reads' \subseteq Reads
    BY <1>14 DEF StartRead, TypeOK, Reads
  <2> QED
    BY <1>14, <2>1 DEF StartRead, TypeOK
<1>15. ASSUME UNCHANGED dvars PROVE DistTypes'
  BY <1>15 DEF dvars, TypeOK
<1> HIDE DEF DistTypes
<1> QED
  BY <1>2, <1>3, <1>4, <1>5, <1>6, <1>8, <1>9, <1>10, <1>11, <1>12, <1>13, <1>14, <1>15, HandlerTyped, ReadTyped
  DEF Next, Add

(***************************************************************************)
(* Stores, pins, requests and the add keep their types; no more copies are *)
(* counted than wanted, and there is a current block while one is put.     *)
(***************************************************************************)
THEOREM DistTypeCorrect == Spec => []TypeOK
<1>1. DistTypes => TypeOK
  BY DEF DistTypes
<1> QED
  BY TypeInit, TypeNext, <1>1, PTL DEF Spec

-----------------------------------------------------------------------------
\* Confirmed blocks are held

Taken(n, c) == \E r \in handlers : r.at = "taken" /\ r.to = n /\ r.cid = c

\* Confirmed, or about to be.
Confirmed(n, c) == <<n, c>> \in placed \/ Taken(n, c)

\* No collection that runs will remove it either.
Safe(n, c) == c \in store[n] /\ c \notin gc[n].dead

Held(n, c) == Confirmed(n, c) /\ <<n, c>> \notin late /\ Pinned(n, c) => Safe(n, c)

HeldInv == \A n \in up, c \in CID : Held(n, c)

LEMMA HeldInit == DistInit => HeldInv
BY DEF DistInit, HeldInv, Held, Confirmed, Taken

\* A snapshot spares what is pinned.
LEMMA PinnedIsLive ==
  ASSUME TypeOK, NEW n \in Nodes, NEW c \in CID, Pinned(n, c)
  PROVE  c \in Live(n)
<1>1. hard[n][c] \in HardModes
  BY DEF TypeOK
<1>2. c \in Direct(n) \/ c \in Recursive(n)
  BY <1>1 DEF Pinned, Direct, Recursive, HardModes
<1> QED
  BY <1>2, LiveTyped, RecursiveLive

\* Whoever sets a pin sees whether it comes too late.
LEMMA PinnedInTime ==
  ASSUME NEW n, NEW c, NoteLate(n, c), UNCHANGED <<store, gc>>
  PROVE  /\ <<n, c>> \notin late' => Safe(n, c)'
         /\ \A m, d : <<m, d>> # <<n, c>> => (<<m, d>> \in late' <=> <<m, d>> \in late)
<1>1. CASE c \in gc[n].dead \/ c \notin store[n]
  BY <1>1 DEF NoteLate, Safe
<1>2. CASE ~(c \in gc[n].dead \/ c \notin store[n])
  BY <1>2 DEF NoteLate, Safe
<1> QED
  BY <1>1, <1>2

\* A pair that nothing happens to.
LEMMA StillHeld ==
  ASSUME NEW n, NEW c, Held(n, c),
         Confirmed(n, c)' => Confirmed(n, c),
         <<n, c>> \in late => <<n, c>> \in late',
         Pinned(n, c)' => Pinned(n, c),
         Safe(n, c) => Safe(n, c)'
  PROVE  Held(n, c)'
BY DEF Held

\* Handlers that do not pin.
LEMMA HandlerKeepsHeld ==
  ASSUME DistTypes, NEW r \in handlers, Handle(r), ~HandlerPins(r),
         NEW n \in up, NEW c \in CID, Held(n, c)
  PROVE  Held(n, c)'
<1> USE DEF stores, adder
<1>1. r \in Requests /\ r.to \in Nodes /\ r.cid \in CID
  BY DEF DistTypes, TypeOK, Requests, Nodes
<1>2. n \in Nodes /\ store \in [Nodes -> SUBSET CID] 
  BY DEF DistTypes, TypeOK
<1>3. UNCHANGED <<hard, soft, gc, placed, late>>
  BY DEF Handle, HandlerStores, HandlerFails, HandlerEnds
<1>4. store[n] \subseteq store'[n]
  <2>1. CASE PutLocally(r.to, r.cid)
    BY <1>1, <1>2, <2>1 DEF PutLocally
  <2>2. CASE UNCHANGED store
    BY <2>2
  <2> QED
    BY <2>1, <2>2 DEF Handle, HandlerStores, HandlerFails, HandlerEnds
<1>5. Taken(n, c)' => Taken(n, c)
  <2>1. CASE \E at \in {"pin", "refused"} : Moves(r, at)
    <3>1. PICK at \in {"pin", "refused"} : Moves(r, at)
      BY <2>1
    <3>2. [r EXCEPT !.at = at].at = at
      BY <1>1 DEF Requests
    <3> QED
      BY <3>1, <3>2 DEF Taken, Moves
  <2>2. CASE handlers' = handlers \ {r}
    BY <2>2 DEF Taken
  <2> QED
    BY <2>1, <2>2 DEF Handle, HandlerStores, HandlerFails, HandlerEnds
<1>6. Confirmed(n, c)' => Confirmed(n, c)
  BY <1>3, <1>5 DEF Confirmed
<1>7. (Pinned(n, c)' => Pinned(n, c)) /\ (Safe(n, c) => Safe(n, c)')
  BY <1>3, <1>4 DEF Pinned, Safe
<1> QED
  BY <1>3, <1>6, <1>7, StillHeld

LEMMA HandlerPinHolds ==
  ASSUME DistTypes, NEW r \in handlers, HandlerPins(r),
         NEW n \in up, NEW c \in CID, Held(n, c)
  PROVE  Held(n, c)'
<1>1. r \in Requests /\ r.to \in Nodes /\ r.cid \in CID
  BY DEF DistTypes, TypeOK, Requests, Nodes
<1>2. UNCHANGED <<store, gc, hard, placed>> /\ NoteLate(r.to, r.cid) /\ Moves(r, "taken")
  BY DEF HandlerPins
<1>3. CASE n = r.to /\ c = r.cid
  BY <1>2, <1>3, PinnedInTime DEF Held
<1>4. CASE ~(n = r.to /\ c = r.cid)
  <2>1. <<n, c>> \in late' <=> <<n, c>> \in late
    BY <1>2, <1>4, PinnedInTime
  <2>2. soft'[n][c] = soft[n][c]
    BY <1>1, <1>4 DEF HandlerPins, DistTypes, TypeOK
  <2>3. [r EXCEPT !.at = "taken"].to = r.to /\ [r EXCEPT !.at = "taken"].cid = r.cid
    BY <1>1 DEF Requests
  <2>4. Confirmed(n, c)' => Confirmed(n, c)
    BY <1>2, <1>4, <2>3 DEF Confirmed, Taken, Moves
  <2>5. (Pinned(n, c)' => Pinned(n, c)) /\ (Safe(n, c) => Safe(n, c)')
    BY <1>2, <2>2 DEF Pinned, Safe
  <2> QED
    BY <2>1, <2>4, <2>5, StillHeld
<1> QED
  BY <1>3, <1>4

\* The steps of the add that do not pin.
LEMMA AddKeepsHeld ==
  ASSUME DistTypes, NEW n \in up, NEW c \in CID, Held(n, c),
         \/ \E f \in Files : StartAdd(f)
         \/ Lookup \/ Offered \/ TimesOut \/ KeepStores \/ KeepFails
         \/ \E p \in Peers : Offer(p)
         \/ \E r \in handlers : Answered(r)
  PROVE  Held(n, c)'
<1> USE DEF stores, adder
<1>1. UNCHANGED <<hard, soft, gc, late>>
  BY DEF StartAdd, Lookup, Offered, TimesOut, KeepStores, KeepFails, Offer, Answered
<1>2. n \in Nodes /\ store \in [Nodes -> SUBSET CID] 
  BY DEF DistTypes, TypeOK
<1>3. store[n] \subseteq store'[n]
  <2>1. CASE KeepStores
    BY <1>2, <2>1 DEF KeepStores, PutLocally, Nodes
  <2>2. CASE UNCHANGED store
    BY <2>2
  <2> QED
    BY <2>1, <2>2 DEF StartAdd, Lookup, Offered, TimesOut, KeepFails, Offer, Answered
<1>4. Confirmed(n, c)' => Confirmed(n, c)
  <2>1. CASE \E r \in handlers : Answered(r)
    <3>1. PICK r \in handlers : Answered(r)
      BY <2>1
    <3>2. handlers' = handlers \ {r} /\ (UNCHANGED placed \/ (r.at = "taken" /\ placed' = placed \cup {<<r.to, r.cid>>}))
      BY <3>1 DEF Answered
    <3> QED
      BY <3>2 DEF Confirmed, Taken
  <2>2. CASE TimesOut
    <3>1. handlers' = {[r EXCEPT !.wanted = FALSE] : r \in handlers} /\ UNCHANGED placed
      BY <2>2 DEF TimesOut
    <3>2. ASSUME NEW s \in handlers', s.at = "taken", s.to = n, s.cid = c
          PROVE  Taken(n, c)
      <4>1. PICK r \in handlers : s = [r EXCEPT !.wanted = FALSE]
        BY <3>1
      <4>2. r \in Requests
        BY DEF DistTypes, TypeOK
      <4>3. s.at = r.at /\ s.to = r.to /\ s.cid = r.cid
        BY <4>1, <4>2 DEF Requests
      <4> QED
        BY <3>2, <4>3 DEF Taken
    <3> QED
      BY <3>1, <3>2 DEF Confirmed, Taken
  <2>3. ASSUME NEW p \in Peers, Offer(p) PROVE Confirmed(n, c)' => Confirmed(n, c)
    BY <2>3 DEF Offer, Confirmed, Taken
  <2>4. CASE UNCHANGED <<handlers, placed>>
    BY <2>4 DEF Confirmed, Taken
  <2> QED
    BY <2>1, <2>2, <2>3, <2>4 DEF StartAdd, Lookup, Offered, KeepStores, KeepFails
<1>5. (Pinned(n, c)' => Pinned(n, c)) /\ (Safe(n, c) => Safe(n, c)')
  BY <1>1, <1>3 DEF Pinned, Safe
<1> QED
  BY <1>1, <1>4, <1>5, StillHeld

LEMMA KeepPinHolds ==
  ASSUME DistTypes, KeepPins, NEW n \in up, NEW c \in CID, Held(n, c)
  PROVE  Held(n, c)'
<1>1. UNCHANGED <<store, gc, handlers>> /\ NoteLate(Me, Block)
      /\ placed' = placed \cup {<<Me, Block>>}
  BY DEF KeepPins
<1>2. CASE n = Me /\ c = Block
  BY <1>1, <1>2, PinnedInTime DEF Held
<1>3. CASE ~(n = Me /\ c = Block)
  <2>1. <<n, c>> \in late' <=> <<n, c>> \in late
    BY <1>1, <1>3, PinnedInTime
  <2>2. hard'[n][c] = hard[n][c] /\ soft'[n][c] = soft[n][c]
    BY <1>3 DEF KeepPins, DistTypes, TypeOK
  <2>3. Confirmed(n, c)' => Confirmed(n, c)
    BY <1>1, <1>3 DEF Confirmed, Taken
  <2>4. (Pinned(n, c)' => Pinned(n, c)) /\ (Safe(n, c) => Safe(n, c)')
    BY <1>1, <2>2 DEF Pinned, Safe
  <2> QED
    BY <2>1, <2>3, <2>4, StillHeld
<1> QED
  BY <1>2, <1>3

\* Collections, expiry and readers.
LEMMA NodeKeepsHeld ==
  ASSUME DistTypes, NEW n \in up, NEW c \in CID, Held(n, c), NEW m \in Nodes,
         \/ Snapshot(m) \/ Sweep(m) \/ Stops(m)
         \/ \E d \in CID : SoftPinExpires(m, d) \/ \E p \in Nodes : StartRead(m, p, d)
  PROVE  Held(n, c)'
<1> USE DEF stores, adder
<1>0. n \in Nodes
  BY DEF DistTypes, TypeOK
<1> USE <1>0
<1>1. CASE Snapshot(m)
  <2>1. UNCHANGED <<store, hard, soft, handlers, placed, late>>
    BY <1>1 DEF Snapshot
  <2>2. gc'[n] = gc[n] \/ gc'[n].dead = store[n] \ Live(n)
    BY <1>1 DEF Snapshot, DistTypes, TypeOK
  <2>3. Pinned(n, c) => c \in Live(n)
    BY PinnedIsLive DEF DistTypes
  <2> QED
    BY <2>1, <2>2, <2>3 DEF Held, Confirmed, Taken, Pinned, Safe
<1>2. CASE Sweep(m)
  <2>1. UNCHANGED <<hard, soft, handlers, placed, late>>
    BY <1>2 DEF Sweep
  <2>2. CASE n = m
    <3>1. store'[n] = store[n] \ gc[n].dead /\ gc'[n].dead = {}
      BY <1>2, <2>2 DEF Sweep, DistTypes, TypeOK
    <3> QED
      BY <2>1, <3>1 DEF Held, Confirmed, Taken, Pinned, Safe
  <2>3. CASE n # m
    <3>1. store'[n] = store[n] /\ gc'[n] = gc[n]
      BY <1>2, <2>3 DEF Sweep, DistTypes, TypeOK
    <3> QED
      BY <2>1, <3>1 DEF Held, Confirmed, Taken, Pinned, Safe
  <2> QED
    BY <2>2, <2>3
<1>3. CASE Stops(m)
  <2>1. UNCHANGED <<store, hard, soft, gc, placed, late>> /\ handlers' \subseteq handlers
    BY <1>3 DEF Stops
  <2> QED
    BY <2>1 DEF Held, Confirmed, Taken, Pinned, Safe
<1>4. ASSUME NEW d \in CID, SoftPinExpires(m, d) PROVE Held(n, c)'
  <2>1. UNCHANGED <<store, hard, gc, handlers, placed, late>>
    BY <1>4 DEF SoftPinExpires
  <2>2. soft'[n][c] = "live" => soft[n][c] = "live"
    BY <1>4 DEF SoftPinExpires, DistTypes, TypeOK
  <2> QED
    BY <2>1, <2>2 DEF Held, Confirmed, Taken, Pinned, Safe
<1>5. ASSUME NEW d \in CID, NEW p \in Nodes, StartRead(m, p, d) PROVE Held(n, c)'
  BY <1>5 DEF StartRead, Held, Confirmed, Taken, Pinned, Safe
<1> QED
  BY <1>1, <1>2, <1>3, <1>4, <1>5

\* A pin that is renewed holds, or the renewal comes too late.
LEMMA RefreshKeepsHeld ==
  ASSUME DistTypes, NEW n \in up, NEW c \in CID, Held(n, c), NEW p \in Nodes, NEW d \in CID,
         RefreshSoftPin(p, d), UNCHANGED <<store, hard, gc, handlers, placed>>
  PROVE  Held(n, c)'
<1>1. (Confirmed(n, c)' => Confirmed(n, c)) /\ (Safe(n, c) => Safe(n, c)')
  BY DEF Confirmed, Taken, Safe
<1>2. CASE n = p /\ c = d /\ soft[p][d] # "none"
  <2>1. NoteLate(p, d)
    BY <1>2 DEF RefreshSoftPin
  <2>2. <<p, d>> \notin late' => Safe(p, d)'
    BY <2>1, PinnedInTime
  <2> QED
    BY <1>2, <2>2 DEF Held
<1>3. CASE ~(n = p /\ c = d /\ soft[p][d] # "none")
  <2>1. <<n, c>> \in late => <<n, c>> \in late'
    BY <1>3 DEF RefreshSoftPin, NoteLate
  <2>2. soft'[n][c] = soft[n][c]
    BY <1>3 DEF RefreshSoftPin, DistTypes, TypeOK
  <2>3. Pinned(n, c)' => Pinned(n, c)
    BY <2>2 DEF Pinned
  <2> QED
    BY <1>1, <2>1, <2>3, StillHeld
<1> QED
  BY <1>2, <1>3

\* A read renews the pin of the node that serves it, then that of the reader.
LEMMA ReadKeepsHeld ==
  ASSUME DistTypes, NEW d \in reads, Read(d), NEW n \in up, NEW c \in CID, Held(n, c)
  PROVE  Held(n, c)'
<1> USE DEF stores, adder
<1>1. d.by \in Nodes /\ d.of \in Nodes /\ d.cid \in CID
  BY DEF DistTypes, TypeOK, Reads
<1>2. CASE ReadServed(d)
  <2>1. RefreshSoftPin(d.of, d.cid) /\ UNCHANGED <<store, hard, gc, handlers, placed>>
    BY <1>2 DEF ReadServed
  <2> QED
    BY <1>1, <2>1, RefreshKeepsHeld
<1>3. CASE ReadRefreshes(d)
  <2>1. RefreshSoftPin(d.by, d.cid) /\ UNCHANGED <<store, hard, gc, handlers, placed>>
    BY <1>3 DEF ReadRefreshes
  <2> QED
    BY <1>1, <2>1, RefreshKeepsHeld
<1>4. CASE ReadStores(d)
  <2>1. UNCHANGED <<hard, soft, gc, handlers, placed, late>>
    BY <1>4 DEF ReadStores
  <2>2. store[n] \subseteq store'[n]
    BY <1>1, <1>4 DEF ReadStores, PutLocally, DistTypes, TypeOK
  <2> QED
    BY <2>1, <2>2 DEF Held, Confirmed, Taken, Pinned, Safe
<1>5. CASE ReadFails(d)
  BY <1>5 DEF ReadFails, Held, Confirmed, Taken, Pinned, Safe
<1> QED
  BY <1>2, <1>3, <1>4, <1>5 DEF Read

LEMMA HeldNext == DistTypes /\ HeldInv /\ [Next]_dvars => HeldInv'
<1> SUFFICES ASSUME DistTypes, HeldInv, [Next]_dvars, NEW n \in up', NEW c \in CID
             PROVE  Held(n, c)'
  BY DEF HeldInv
<1>1. n \in up
  BY DEF Next, Add, Handle, StartAdd, Lookup, Offered, TimesOut, KeepStores, KeepPins,
         KeepFails, Offer, Answered, HandlerStores, HandlerPins, HandlerFails,
         HandlerEnds, Snapshot, Sweep, Stops, SoftPinExpires, StartRead, Read, ReadServed, ReadStores,
         ReadRefreshes, ReadFails, dvars
<1>2. Held(n, c)
  BY <1>1 DEF HeldInv
<1>3. CASE UNCHANGED dvars
  BY <1>2, <1>3 DEF dvars, Held, Confirmed, Taken, Pinned, Safe
<1> QED
  BY <1>1, <1>2, <1>3, HandlerKeepsHeld, HandlerPinHolds, AddKeepsHeld, KeepPinHolds, NodeKeepsHeld,
     ReadKeepsHeld
  DEF Next, Add

(***************************************************************************)
(* A confirmed block is held while its pin lasts, unless the pin, or its   *)
(* renewal, came too late for a collection, for any number of collections, *)
(* reads, requests and nodes, and whenever pins expire and are renewed.    *)
(***************************************************************************)
THEOREM PlacedBlocksAreHeld == Spec => []PlacedIsHeld
<1>1. HeldInv => PlacedIsHeld
  BY DEF HeldInv, Held, Confirmed, Safe, PlacedIsHeld
<1> QED
  BY TypeInit, TypeNext, HeldInit, HeldNext, <1>1, PTL DEF Spec

-----------------------------------------------------------------------------
\* An add that succeeds has placed every block

Done(c) == /\ \E n \in Nodes : <<n, c>> \in placed
           /\ Kind[c] = "manifest" => hard[Me][c] = "d"

\* The first j blocks of f are done, the rest is still to be put.
Behind(f, j) ==
  /\ Len(f) = Len(rest) + j
  /\ \A i \in 1..Len(rest) : rest[i] = f[i + j]
  /\ \A i \in 1..j : Done(f[i])

\* One answer is waited for, and it is about the current block.
OneWanted ==
  /\ \A r \in handlers : r.wanted => place = "wait" /\ r.cid = Block
  /\ \A r, s \in handlers : r.wanted /\ s.wanted => r = s

Progress == place \in Blocked => \E f \in Files, j \in Nat : Behind(f, j)

Counted == place \in {"offer", "wait"} /\ successes > 0 => \E n \in Nodes : <<n, Block>> \in placed

PlacedInv == OneWanted /\ Progress /\ Counted /\ AddedIsPlaced

LEMMA PlacedInit == DistInit => PlacedInv
BY DEF DistInit, PlacedInv, OneWanted, Progress, Counted, AddedIsPlaced, Blocked

\* What is done stays done.
LEMMA DoneStays ==
  ASSUME DistTypes, [Next]_dvars, NEW c
  PROVE  Done(c) => Done(c)'
<1>1. placed \subseteq placed'
  BY DEF Next, Add, Handle, StartAdd, Lookup, Offered, TimesOut, KeepStores, KeepPins,
         KeepFails, Offer, Answered, HandlerStores, HandlerPins, HandlerFails,
         HandlerEnds, Snapshot, Sweep, Stops, SoftPinExpires, StartRead, Read, ReadServed, ReadStores,
         ReadRefreshes, ReadFails, dvars
<1>2. hard' = hard \/ KeepPins
  BY DEF Next, Add, Handle, StartAdd, Lookup, Offered, TimesOut, KeepStores,
         KeepFails, Offer, Answered, HandlerStores, HandlerPins, HandlerFails,
         HandlerEnds, Snapshot, Sweep, Stops, SoftPinExpires, StartRead, Read, ReadServed, ReadStores,
         ReadRefreshes, ReadFails, dvars, stores
<1>3. Me \in Nodes /\ hard \in [Nodes -> [CID -> HardModes]]
  BY DEF Nodes, DistTypes, TypeOK
<1>4. hard[Me][c] = "d" => hard'[Me][c] = "d"
  <2>1. CASE KeepPins
    <3>1. hard' = [hard EXCEPT ![Me][Block] = "d"] /\ Block \in CID
      BY <2>1, BlockTyped DEF KeepPins, DistTypes
    <3>2. hard'[Me] = [hard[Me] EXCEPT ![Block] = "d"] /\ hard[Me] \in [CID -> HardModes]
      BY <1>3, <3>1
    <3>3. CASE c = Block
      BY <3>1, <3>2, <3>3
    <3>4. CASE c # Block
      BY <3>2, <3>4
    <3> QED
      BY <3>3, <3>4
  <2> QED
    BY <1>2, <2>1
<1> QED
  BY <1>1, <1>4 DEF Done

LEMMA AdvanceDone ==
  ASSUME DistTypes, [Next]_dvars, Advance, place \notin {"idle", "added"},
         NEW b, b = Block, Done(b)', NEW f \in Files, NEW j \in Nat, Behind(f, j)
  PROVE  /\ place' = "lookup" => Behind(f, j + 1)'
         /\ place' = "added" => \A i \in DOMAIN f : Done(f[i])'
<1>1. rest \in Seq(CID) /\ rest # <<>> /\ f \in Seq(CID)
  BY DistAddAssumption DEF DistTypes, TypeOK
<1>2. /\ Len(rest) \in Nat \ {0} /\ Len(rest') = Len(rest) - 1
      /\ Block = rest[1] /\ \A i \in 1..Len(rest') : rest'[i] = rest[i + 1]
  BY <1>1 DEF Advance, Block
<1>3. Len(f) = Len(rest') + (j + 1)
  BY <1>1, <1>2 DEF Behind
<1>4. \A i \in 1..Len(rest') : rest'[i] = f[i + (j + 1)]
  <2>1. SUFFICES ASSUME NEW i \in 1..Len(rest') PROVE rest'[i] = f[i + (j + 1)]
    OBVIOUS
  <2>2. i + 1 \in 1..Len(rest) /\ (i + 1) + j = i + (j + 1) /\ rest'[i] = rest[i + 1]
    BY <1>2
  <2> QED
    BY <2>2 DEF Behind
<1>5. \A i \in 1..(j + 1) : Done(f[i])'
  <2>1. SUFFICES ASSUME NEW i \in 1..(j + 1) PROVE Done(f[i])'
    OBVIOUS
  <2>2. CASE i = j + 1
    <3>1. f[i] = b
      <4>1. 1 \in 1..Len(rest) /\ 1 + j = i
        BY <1>2, <2>2
      <4> QED
        BY <1>2, <4>1 DEF Behind
    <3> QED
      BY <3>1
  <2>3. CASE i # j + 1
    <3>1. i \in 1..j
      BY <2>3
    <3> QED
      BY <3>1, DoneStays DEF Behind
  <2> QED
    BY <2>2, <2>3
<1>6. place' = "added" => DOMAIN f = 1..(j + 1)
  <2>1. ASSUME place' = "added" PROVE rest' = <<>>
    BY <2>1 DEF Advance
  <2> QED
    BY <1>1, <1>3, <2>1
<1> QED
  BY <1>3, <1>4, <1>5, <1>6 DEF Behind

\* Steps that change nothing of the add.
LEMMA OthersKeepPlaced ==
  ASSUME DistTypes, PlacedInv, [Next]_dvars, UNCHANGED <<place, rest, successes, placed>>, OneWanted'
  PROVE  PlacedInv'
<1>1. Progress'
  <2>1. ASSUME NEW f, NEW j, Behind(f, j) PROVE Behind(f, j)'
    BY <2>1, DoneStays DEF Behind
  <2> QED
    BY <2>1 DEF PlacedInv, Progress
<1>2. Counted'
  BY DEF PlacedInv, Counted, Block
<1>3. AddedIsPlaced'
  <2>1. SUFFICES ASSUME place = "added" PROVE AddedIsPlaced'
    BY DEF AddedIsPlaced
  <2>2. PICK f \in Files : \A i \in DOMAIN f : Done(f[i])
    BY <2>1 DEF PlacedInv, AddedIsPlaced, Done
  <2>3. \A i \in DOMAIN f : Done(f[i])'
    BY <2>2, DoneStays
  <2> QED
    BY <2>3 DEF AddedIsPlaced, Done
<1> QED
  BY <1>1, <1>2, <1>3 DEF PlacedInv

\* A handler that goes on does not lose its request.
LEMMA HandlerKeepsPlaced ==
  ASSUME DistTypes, PlacedInv, [Next]_dvars, NEW r \in handlers, Handle(r)
  PROVE  PlacedInv'
<1>1. UNCHANGED <<place, rest, successes, placed>>
  BY DEF Handle, HandlerStores, HandlerPins, HandlerFails, HandlerEnds, adder
<1>2. OneWanted'
  <2>1. CASE \E at \in {"pin", "taken", "refused"} : Moves(r, at)
    <3>1. PICK at \in {"pin", "taken", "refused"} : Moves(r, at)
      BY <2>1
    <3> DEFINE m == [r EXCEPT !.at = at]
    <3>2. r \in Requests
      BY DEF DistTypes, TypeOK
    <3>3. m.wanted = r.wanted /\ m.cid = r.cid
      BY <3>2 DEF Requests
    <3>4. handlers' = (handlers \ {r}) \cup {m}
      BY <3>1 DEF Moves
    <3> HIDE DEF m
    <3> QED
      BY <1>1, <3>3, <3>4 DEF PlacedInv, OneWanted, Block
  <2>2. CASE handlers' = handlers \ {r}
    BY <1>1, <2>2 DEF PlacedInv, OneWanted, Block
  <2> QED
    BY <2>1, <2>2 DEF Handle, HandlerStores, HandlerPins, HandlerFails, HandlerEnds
<1> QED
  BY <1>1, <1>2, OthersKeepPlaced

LEMMA PlacedNext == DistTypes /\ PlacedInv /\ [Next]_dvars => PlacedInv'
<1> SUFFICES ASSUME DistTypes, PlacedInv, [Next]_dvars PROVE PlacedInv'
  OBVIOUS
<1> USE DEF stores, adder
<1>1. ASSUME NEW f, NEW j, Behind(f, j), UNCHANGED rest PROVE Behind(f, j)'
  BY <1>1, DoneStays DEF Behind
<1>2. ASSUME place # "wait", handlers' = handlers, UNCHANGED rest \/ place' # "wait" PROVE OneWanted'
  BY <1>2 DEF PlacedInv, OneWanted
<1>3. ASSUME place' # "added" PROVE AddedIsPlaced'
  BY <1>3 DEF AddedIsPlaced
<1>4. ASSUME NEW f \in Files, StartAdd(f) PROVE PlacedInv'
  <2>1. rest' = f /\ place' = "lookup" /\ place # "wait" /\ UNCHANGED handlers
    BY <1>4 DEF StartAdd
  <2>2. Behind(f, 0)'
    BY <2>1, DistAddAssumption DEF Behind
  <2>3. Progress' /\ Counted'
    BY <2>1, <2>2 DEF Progress, Counted
  <2> QED
    BY <1>2, <1>3, <2>1, <2>3 DEF PlacedInv
<1>5. ASSUME Lookup \/ KeepStores \/ KeepFails PROVE PlacedInv'
  <2>1. /\ place \in Blocked \ {"wait"} /\ place' \in {"offer", "pin", "failed"}
        /\ place' = "offer" => successes' = 0
        /\ UNCHANGED <<handlers, rest, placed>>
    BY <1>5 DEF Lookup, KeepStores, KeepFails, Blocked
  <2>2. Progress'
    BY <1>1, <2>1 DEF PlacedInv, Progress, Blocked
  <2>3. Counted'
    BY <2>1 DEF Counted
  <2> QED
    BY <1>2, <1>3, <2>1, <2>2, <2>3 DEF PlacedInv
<1>6. ASSUME NEW p \in Peers, Offer(p) PROVE PlacedInv'
  <2>1. /\ place = "offer" /\ place' \in {"offer", "wait"} /\ UNCHANGED <<rest, successes, placed>>
        /\ \/ UNCHANGED <<place, handlers>>
           \/ place' = "wait" /\ handlers' = handlers \cup {[to |-> p, cid |-> Block, wanted |-> TRUE, at |-> "store"]}
    BY <1>6 DEF Offer
  <2>2. Progress' /\ Counted'
    BY <1>1, <2>1 DEF PlacedInv, Progress, Counted, Blocked, Block
  <2>3. OneWanted'
    <3> DEFINE m == [to |-> p, cid |-> Block, wanted |-> TRUE, at |-> "store"]
    <3>1. m.cid = Block
      OBVIOUS
    <3>2. UNCHANGED <<place, handlers>> \/ (place' = "wait" /\ handlers' = handlers \cup {m})
      BY <2>1
    <3> HIDE DEF m
    <3>3. \A r \in handlers : ~r.wanted
      BY <2>1 DEF PlacedInv, OneWanted
    <3> QED
      BY <2>1, <3>1, <3>2, <3>3 DEF OneWanted, Block
  <2> QED
    BY <1>3, <2>1, <2>2, <2>3 DEF PlacedInv
<1>7. ASSUME NEW r \in handlers, Answered(r) PROVE PlacedInv'
  <2>1. /\ place = "wait" /\ place' = "offer" /\ r.wanted /\ handlers' = handlers \ {r}
        /\ UNCHANGED rest
        /\ \/ placed' = placed \cup {<<r.to, r.cid>>}
           \/ UNCHANGED <<successes, placed>>
    BY <1>7 DEF Answered
  <2>2. r.cid = Block /\ r.to \in Nodes
    BY <2>1 DEF PlacedInv, OneWanted, DistTypes, TypeOK, Requests, Nodes
  <2>3. OneWanted'
    BY <2>1 DEF PlacedInv, OneWanted
  <2>4. Progress'
    BY <1>1, <2>1 DEF PlacedInv, Progress, Blocked
  <2>5. Counted'
    BY <2>1, <2>2 DEF PlacedInv, Counted, Block
  <2> QED
    BY <1>3, <2>1, <2>3, <2>4, <2>5 DEF PlacedInv
<1>8. ASSUME TimesOut PROVE PlacedInv'
  <2>1. /\ place = "wait" /\ place' = "offer" /\ UNCHANGED <<rest, successes, placed>>
        /\ handlers' = {[r EXCEPT !.wanted = FALSE] : r \in handlers}
    BY <1>8 DEF TimesOut
  <2>2. \A s \in handlers' : s.wanted = FALSE
    <3>1. SUFFICES ASSUME NEW r \in handlers PROVE [r EXCEPT !.wanted = FALSE].wanted = FALSE
      BY <2>1
    <3>2. r \in Requests
      BY DEF DistTypes, TypeOK
    <3> QED
      BY <3>2 DEF Requests
  <2>3. OneWanted'
    BY <2>2 DEF OneWanted
  <2>4. Progress' /\ Counted'
    BY <1>1, <2>1 DEF PlacedInv, Progress, Counted, Blocked, Block
  <2> QED
    BY <1>3, <2>1, <2>3, <2>4 DEF PlacedInv
<1>9. ASSUME Advance, place \in Blocked \ {"wait"}, UNCHANGED handlers, NEW b, b = Block, Done(b)'
      PROVE  PlacedInv'
  <2>1. place' \in {"added", "lookup"}
    BY <1>9 DEF Advance
  <2>2. PICK f \in Files, j \in Nat : Behind(f, j)
    BY <1>9 DEF PlacedInv, Progress
  <2>3. /\ place' = "lookup" => Behind(f, j + 1)'
        /\ place' = "added" => \A i \in DOMAIN f : Done(f[i])'
    BY <1>9, <2>2, AdvanceDone DEF Blocked
  <2>4. OneWanted' /\ Counted'
    BY <1>2, <1>9, <2>1 DEF Counted
  <2>5. Progress' /\ AddedIsPlaced'
    BY <2>1, <2>3 DEF Progress, AddedIsPlaced, Done, Blocked
  <2> QED
    BY <2>4, <2>5 DEF PlacedInv
<1>10. ASSUME Offered PROVE PlacedInv'
  <2>1. place = "offer" /\ UNCHANGED <<successes, handlers, placed, hard>>
    BY <1>10 DEF Offered
  <2>2. CASE place' = "keep" /\ UNCHANGED rest
    <3>1. Progress' /\ Counted'
      BY <1>1, <2>1, <2>2 DEF PlacedInv, Progress, Counted, Blocked
    <3> QED
      BY <1>2, <1>3, <2>1, <2>2, <3>1 DEF PlacedInv
  <2>3. CASE Advance /\ ~KeepLocal(Block) /\ successes # 0
    <3> DEFINE b == Block
    <3>1. successes > 0
      BY <2>3 DEF DistTypes, TypeOK
    <3>2. \E n \in Nodes : <<n, b>> \in placed
      BY <2>1, <3>1 DEF PlacedInv, Counted
    <3>3. PICK d : d = b
      OBVIOUS
    <3>4. Done(d)'
      BY <2>1, <2>3, <3>2, <3>3 DEF Done, KeepLocal
    <3> QED
      BY <1>9, <2>1, <2>3, <3>3, <3>4 DEF Blocked
  <2> QED
    BY <1>10, <2>2, <2>3 DEF Offered
<1>11. ASSUME KeepPins PROVE PlacedInv'
  <2>1. PICK d : d = Block
    OBVIOUS
  <2>2. place = "pin" /\ Advance /\ UNCHANGED handlers
    BY <1>11 DEF KeepPins
  <2>3. d \in CID
    BY <2>1, <2>2, BlockTyped DEF DistTypes
  <2>4. placed' = placed \cup {<<Me, d>>} /\ hard' = [hard EXCEPT ![Me][d] = "d"]
    BY <1>11, <2>1 DEF KeepPins
  <2>5. Done(d)'
    BY <2>3, <2>4 DEF Done, DistTypes, TypeOK, Nodes
  <2> QED
    BY <1>9, <2>1, <2>2, <2>5 DEF Blocked
<1>12. ASSUME NEW n \in Nodes, Snapshot(n) \/ Sweep(n) \/ Stops(n) PROVE PlacedInv'
  <2>1. UNCHANGED <<place, rest, successes, placed>> /\ handlers' \subseteq handlers
    BY <1>12 DEF Snapshot, Sweep, Stops
  <2>2. OneWanted'
    BY <2>1 DEF PlacedInv, OneWanted, Block
  <2> QED
    BY <2>1, <2>2, OthersKeepPlaced
<1>13. ASSUME NEW n \in Nodes, NEW c \in CID,
              SoftPinExpires(n, c) \/ \E p \in Nodes : StartRead(n, p, c) PROVE PlacedInv'
  <2>1. UNCHANGED <<place, rest, successes, placed, handlers>>
    BY <1>13 DEF SoftPinExpires, StartRead
  <2>2. OneWanted'
    BY <2>1 DEF PlacedInv, OneWanted, Block
  <2> QED
    BY <2>1, <2>2, OthersKeepPlaced
<1>14. ASSUME UNCHANGED dvars PROVE PlacedInv'
  <2>1. UNCHANGED <<place, rest, successes, placed, handlers>>
    BY <1>14 DEF dvars
  <2>2. OneWanted'
    BY <2>1 DEF PlacedInv, OneWanted, Block
  <2> QED
    BY <2>1, <2>2, OthersKeepPlaced
<1>15. ASSUME NEW d \in reads, Read(d) PROVE PlacedInv'
  <2>1. UNCHANGED <<place, rest, successes, placed, handlers>>
    BY <1>15 DEF Read, ReadServed, ReadStores, ReadRefreshes, ReadFails
  <2>2. OneWanted'
    BY <2>1 DEF PlacedInv, OneWanted, Block
  <2> QED
    BY <2>1, <2>2, OthersKeepPlaced
<1> QED
  BY <1>4, <1>5, <1>6, <1>7, <1>8, <1>10, <1>11, <1>12, <1>13, <1>14, <1>15, HandlerKeepsPlaced
  DEF Next, Add

(***************************************************************************)
(* An add that reports success has placed every block of its file, for     *)
(* files and peers of any number, whatever was refused, lost or stopped.   *)
(***************************************************************************)
THEOREM AddedFilesArePlaced == Spec => []AddedIsPlaced
<1>1. PlacedInv => AddedIsPlaced
  BY DEF PlacedInv
<1> QED
  BY TypeInit, TypeNext, PlacedInit, PlacedNext, <1>1, PTL DEF Spec

=============================================================================
