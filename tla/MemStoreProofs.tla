--------------------------- MODULE MemStoreProofs ---------------------------
(***************************************************************************)
(* Proofs about the in-memory block store and about the provider records   *)
(* of its blocks, for every set of CIDs, every block graph and any number  *)
(* of clients and collectors.                                              *)
(***************************************************************************)
EXTENDS Provide, TLAPS

-----------------------------------------------------------------------------
\* Facts about block graphs

LEMMA ChildrenTyped == \A c \in CID : ChildCIDs(c) \in SUBSET CID
  BY BlocksAssumption DEF ChildCIDs

LEMMA ReachTyped == ASSUME NEW R, NEW V PROVE Reach(R, V) \in SUBSET CID
  BY DEF Reach

\* Reach is the least set that contains the roots and is closed.
LEMMA ReachLeast ==
  ASSUME NEW R, NEW V, NEW S \in SUBSET CID, R \subseteq S, ClosedUnder(S, V)
  PROVE  Reach(R, V) \subseteq S
  BY DEF Reach

LEMMA ReachRoots == ASSUME NEW R \in SUBSET CID, NEW V PROVE R \subseteq Reach(R, V)
  BY DEF Reach

LEMMA ReachClosed ==
  ASSUME NEW R, NEW V, NEW c \in Reach(R, V), c \in V
  PROVE  ChildCIDs(c) \subseteq Reach(R, V)
<1>1. c \in CID /\ ChildCIDs(c) \in SUBSET CID
  BY ReachTyped, ChildrenTyped
<1>2. SUFFICES ASSUME NEW d \in ChildCIDs(c), NEW S \in SUBSET CID,
                      R \subseteq S, ClosedUnder(S, V)
               PROVE  d \in S
  BY <1>1 DEF Reach
<1>3. c \in S
  BY <1>2 DEF Reach
<1> QED
  BY <1>2, <1>3 DEF ClosedUnder

-----------------------------------------------------------------------------
\* Type correctness

LEMMA TypeInit == MemInit => TypeOK
  BY DEF MemInit, Init, TypeOK, At, gcVars, NoJob, Jobs, HardModes, SoftModes, Procs,
         ClientPlaces, CollectorPlaces

LEMMA TypeNext == TypeOK /\ [MemNext]_mvars => TypeOK'
<1> SUFFICES ASSUME TypeOK, [MemNext]_mvars PROVE TypeOK'
  OBVIOUS
<1> USE MemStoreAssumption DEF Procs
<1>1. ASSUME NEW p \in Clients, ClientNext(p) PROVE TypeOK'
  <2> USE <1>1 DEF TypeOK, At, Goto, pinVars, gcVars, ClientPlaces, CollectorPlaces
  <2>1. ASSUME NEW c \in CID, PutBlockLocally(p, c) PROVE TypeOK'
    BY <2>1 DEF PutBlockLocally
  <2>2. ASSUME NEW c \in CID, GetBlock(p, c) PROVE TypeOK'
    BY <2>2 DEF GetBlock
  <2>3. CASE PutAnnounce(p)
    BY <2>3 DEF PutAnnounce
  <2>4. CASE GetAnnounce(p)
    BY <2>4 DEF GetAnnounce
  <2>5. CASE FetchFails(p)
    BY <2>5 DEF FetchFails
  <2>6. CASE FetchStores(p)
    BY <2>6 DEF FetchStores
  <2>7. CASE RefreshSoftPin(p)
    BY <2>7 DEF RefreshSoftPin, RefreshedPins, SoftModes
  <2>8. CASE FetchNotStored(p)
    BY <2>8 DEF FetchNotStored
  <2> QED
    BY <2>1, <2>2, <2>3, <2>4, <2>5, <2>6, <2>7, <2>8 DEF ClientNext
<1>2. ASSUME NEW c \in CID, PinNext(c) PROVE TypeOK'
  BY <1>2 DEF TypeOK, PinNext, Pin, PinDirect, PinSoft, Unpin, SoftPinExpires,
              HardPin, HardModes, SoftModes, At, gcVars
<1>3. ASSUME NEW g \in Collectors, GcSnapshot(g) PROVE TypeOK'
  BY <1>3 DEF TypeOK, GcSnapshot, Begin, At, Goto, Jobs, CollectorPlaces
<1>4. ASSUME NEW g \in Collectors, GcPop(g) PROVE TypeOK'
  BY <1>4 DEF TypeOK, GcPop, Popped, At, Goto, CollectorPlaces, pinVars
<1>5. ASSUME NEW g \in Collectors, GcExpand(g) PROVE TypeOK'
  BY <1>5, ChildrenTyped
     DEF TypeOK, GcExpand, Pushed, RefreshedPins, At, Goto, CollectorPlaces, SoftModes
<1>6. ASSUME NEW g \in Collectors, GcSweep(g) PROVE TypeOK'
  <2>1. job' \in [Collectors -> Jobs]
    <3>1. ASSUME NEW j \in Jobs, NEW D PROVE [j EXCEPT !.held = @ \ D] \in Jobs
      BY DEF Jobs
    <3>2. NoJob \in Jobs
      BY DEF NoJob, Jobs
    <3> QED
      BY <1>6, <3>1, <3>2 DEF GcSweep, Unmarked, TypeOK
  <2> HIDE DEF Procs
  <2> QED
    BY <1>6, <2>1
       DEF TypeOK, GcSweep, MarkDone, Unmarked, At, Goto, CollectorPlaces, pinVars, Procs
<1>7. ASSUME NEW g \in Collectors, GcCancel(g) PROVE TypeOK'
  BY <1>7 DEF TypeOK, GcCancel, Cancel, At
<1>8. CASE UNCHANGED mvars
  BY <1>8 DEF TypeOK, mvars, At
<1> QED
  BY <1>1, <1>2, <1>3, <1>4, <1>5, <1>6, <1>7, <1>8 DEF MemNext, GcStep

\* Every variable keeps its type, and the control state of a collection
\* agrees with its stack and with the set of running collections.
THEOREM TypeCorrect == MemSpec => []TypeOK
<1> QED
  BY TypeInit, TypeNext, PTL DEF MemSpec

-----------------------------------------------------------------------------
\* Pins

\* No CID ever has a hard and a soft pin at once.
THEOREM PinsStayExclusive == MemSpec => []PinsExclusive
<1>1. MemInit => PinsExclusive
  BY DEF MemInit, Init, PinsExclusive
<1>2. TypeOK /\ PinsExclusive /\ [MemNext]_mvars => PinsExclusive'
  BY DEF TypeOK, PinsExclusive, MemNext, mvars, ClientNext, PinNext, GcStep,
         PutBlockLocally, GetBlock, PutAnnounce, GetAnnounce, FetchFails,
         FetchStores, FetchNotStored, RefreshSoftPin, RefreshedPins, Pin, PinDirect, HardPin,
         PinSoft, Unpin, SoftPinExpires, GcSnapshot, GcCancel, Cancel, Begin, GcPop, GcExpand,
         GcSweep, pinVars, At
<1> QED
  BY <1>1, <1>2, TypeCorrect, PTL DEF MemSpec

-----------------------------------------------------------------------------
\* The mark loop

\* A step that leaves a collection's own variables alone and takes out of
\* held what it takes out of the store does not disturb its marking.
LEMMA MarkFrame ==
  ASSUME NEW g \in Collectors, MarkSound(g),
         job'[g].rec = job[g].rec, job'[g].dir = job[g].dir,
         job'[g].keys = job[g].keys,
         job'[g].held \subseteq job[g].held \cap store',
         live'[g] = live[g], stack'[g] = stack[g],
         pc'[g] = pc[g], cid'[g] = cid[g],
         g \notin cancelled' => g \notin cancelled
  PROVE  MarkSound(g)'
  BY DEF MarkSound, MayKeep, At, Expanding

LEMMA MarkSnapshot ==
  ASSUME NEW g \in Collectors, TypeOK, GcSnapshot(g)
  PROVE  MarkSound(g)'
<1>1. /\ live'[g] = job'[g].dir /\ stack'[g] = job'[g].rec
      /\ job'[g].held = store /\ job'[g].keys = store /\ store' = store
      /\ pc'[g] = "mark"
  BY DEF GcSnapshot, Begin, TypeOK, Goto, Procs
<1>2. job'[g].rec \in SUBSET CID
  BY DEF GcSnapshot, Begin, TypeOK
<1>3. job'[g].rec \subseteq Reach(job'[g].rec, CID)
  BY <1>2, ReachRoots
<1> QED
  BY <1>1, <1>3 DEF MarkSound, MayKeep, At, Expanding

LEMMA MarkPop ==
  ASSUME NEW g \in Collectors, TypeOK, MarkSound(g), GcPop(g)
  PROVE  MarkSound(g)'
<1>1. PICK c \in stack[g] :
        /\ stack' = [stack EXCEPT ![g] = stack[g] \ {c}]
        /\ live' = [live EXCEPT ![g] = live[g] \cup {c}]
        /\ IF c \notin live[g] /\ c \in store /\ g \notin cancelled
           THEN cid' = [cid EXCEPT ![g] = c] /\ Goto(g, "expand")
           ELSE UNCHANGED <<cid, pc>>
  BY DEF GcPop, Popped
<1>2. stack'[g] = stack[g] \ {c} /\ live'[g] = live[g] \cup {c}
  BY <1>1 DEF TypeOK
<1>3. UNCHANGED <<store, job, cancelled>> /\ pc[g] = "mark"
  BY DEF GcPop, At
<1>4. c \in Reach(job[g].rec, CID)
  BY DEF MarkSound
<1>5. c \in live[g] \/ c \notin store \/ g \in cancelled => UNCHANGED <<cid, pc>>
  BY <1>1
<1>6. c \notin live[g] /\ c \in store /\ g \notin cancelled =>
        pc'[g] = "expand" /\ cid'[g] = c
  BY <1>1 DEF TypeOK, Goto, Procs
<1>7. ASSUME g \notin cancelled, NEW d \in (live'[g] \cap job[g].held) \ job[g].dir
      PROVE  Expanding(g, d)' \/ ChildCIDs(d) \subseteq live'[g] \cup stack'[g]
  <2>1. CASE d \in live[g]
    <3>1. ChildCIDs(d) \subseteq live[g] \cup stack[g]
      BY <2>1, <1>3, <1>7 DEF MarkSound, Expanding
    <3> QED
      BY <3>1, <1>2
  <2>2. CASE d \notin live[g]
    <3>1. d = c /\ c \in store
      BY <2>2, <1>2, <1>7 DEF MarkSound
    <3> QED
      BY <3>1, <2>2, <1>6, <1>7 DEF Expanding
  <2> QED
    BY <2>1, <2>2
<1>8. At(g, "expand")' => cid'[g] \in Reach(job[g].rec, CID)
  BY <1>3, <1>4, <1>5, <1>6 DEF At
<1>9. MarkSound(g)
  OBVIOUS
<1> QED
  BY <1>2, <1>3, <1>4, <1>7, <1>8, <1>9 DEF MarkSound, MayKeep

LEMMA MarkExpand ==
  ASSUME NEW g \in Collectors, TypeOK, MarkSound(g), GcExpand(g)
  PROVE  MarkSound(g)'
<1>1. /\ stack'[g] = stack[g] \cup (ChildCIDs(cid[g]) \ live[g])
      /\ UNCHANGED <<store, cid, job, cancelled, live>>
      /\ pc'[g] = "mark" /\ At(g, "expand")
  BY DEF GcExpand, Pushed, TypeOK, Goto, Procs
<1>2. cid[g] \in Reach(job[g].rec, CID) /\ cid[g] \in CID
  BY <1>1 DEF MarkSound, TypeOK, Procs
<1>3. ChildCIDs(cid[g]) \subseteq Reach(job[g].rec, CID)
  BY <1>2, ReachClosed
<1>4. ASSUME g \notin cancelled, NEW d \in (live[g] \cap job[g].held) \ job[g].dir
      PROVE  ChildCIDs(d) \subseteq live[g] \cup stack'[g]
  BY <1>1, <1>4 DEF MarkSound, Expanding
<1> QED
  BY <1>1, <1>3, <1>4 DEF MarkSound, MayKeep, At

LEMMA MarkNext == TypeOK /\ MarkInv /\ [MemNext]_mvars => MarkInv'
<1> SUFFICES ASSUME TypeOK, MarkInv, [MemNext]_mvars, NEW g \in running'
             PROVE  MarkSound(g)'
  BY DEF MarkInv
<1>0. running \subseteq Collectors /\ running' \subseteq Collectors
  BY TypeNext DEF TypeOK
<1>a. g \in running => MarkSound(g)
  BY DEF MarkInv
<1>1. ASSUME NEW p \in Clients, ClientNext(p) PROVE MarkSound(g)'
  <2>1. UNCHANGED <<running, job, cancelled, live, stack>> /\ store \subseteq store'
    BY <1>1 DEF ClientNext, PutBlockLocally, GetBlock, PutAnnounce, GetAnnounce,
                FetchFails, FetchStores, FetchNotStored, RefreshSoftPin, gcVars
  <2>2. g # p
    BY <1>0, MemStoreAssumption
  <2>3. pc'[g] = pc[g] /\ cid'[g] = cid[g]
    BY <1>0, <1>1, <2>2
       DEF TypeOK, ClientNext, PutBlockLocally, GetBlock, PutAnnounce, GetAnnounce,
           FetchFails, FetchStores, FetchNotStored, RefreshSoftPin, Goto, Procs
  <2>4. job[g].held \subseteq store
    BY <1>a, <2>1 DEF MarkSound
  <2> QED
    BY <1>0, <1>a, <2>1, <2>3, <2>4, MarkFrame
<1>2. ASSUME NEW c \in CID, PinNext(c) PROVE MarkSound(g)'
  <2>1. UNCHANGED <<running, job, cancelled, live, stack, store, pc, cid>>
    BY <1>2 DEF PinNext, Pin, PinDirect, HardPin, PinSoft, Unpin, SoftPinExpires, gcVars
  <2>2. job[g].held \subseteq store
    BY <1>a, <2>1 DEF MarkSound
  <2> QED
    BY <1>0, <1>a, <2>1, <2>2, MarkFrame
<1>3. ASSUME NEW h \in Collectors, GcSnapshot(h) PROVE MarkSound(g)'
  <2>1. CASE h = g
    BY <1>3, <2>1, MarkSnapshot
  <2>2. CASE h # g
    <3>1. /\ g \in running /\ UNCHANGED <<store, cid, cancelled>>
          /\ job'[g] = job[g] /\ live'[g] = live[g] /\ stack'[g] = stack[g]
          /\ pc'[g] = pc[g]
      BY <1>0, <1>3, <2>2 DEF GcSnapshot, Begin, TypeOK, Goto, Procs
    <3> QED
      BY <1>0, <1>a, <3>1, MarkFrame DEF MarkSound
  <2> QED
    BY <2>1, <2>2
<1>4. ASSUME NEW h \in Collectors, GcPop(h) PROVE MarkSound(g)'
  <2>1. g \in running /\ UNCHANGED <<store, job, cancelled>>
    BY <1>4 DEF GcPop
  <2>2. CASE h = g
    BY <1>a, <1>4, <2>1, <2>2, MarkPop
  <2>3. CASE h # g
    <3>1. live'[g] = live[g] /\ stack'[g] = stack[g] /\ pc'[g] = pc[g] /\ cid'[g] = cid[g]
      BY <1>0, <1>4, <2>1, <2>3 DEF GcPop, TypeOK, Goto, Procs
    <3> QED
      BY <1>0, <1>a, <2>1, <3>1, MarkFrame DEF MarkSound
  <2> QED
    BY <2>2, <2>3
<1>5. ASSUME NEW h \in Collectors, GcExpand(h) PROVE MarkSound(g)'
  <2>1. g \in running /\ UNCHANGED <<store, job, cancelled, live, cid>>
    BY <1>5 DEF GcExpand
  <2>2. CASE h = g
    BY <1>a, <1>5, <2>1, <2>2, MarkExpand
  <2>3. CASE h # g
    <3>1. stack'[g] = stack[g] /\ pc'[g] = pc[g]
      BY <1>0, <1>5, <2>1, <2>3 DEF GcExpand, TypeOK, Goto, Procs
    <3> QED
      BY <1>0, <1>a, <2>1, <3>1, MarkFrame DEF MarkSound
  <2> QED
    BY <2>2, <2>3
<1>6. ASSUME NEW h \in Collectors, GcSweep(h) PROVE MarkSound(g)'
  <2> DEFINE dead == job[h].keys \ live[h]
  <2>1. g \in running /\ g # h
    BY <1>6 DEF GcSweep
  <2>2. /\ job'[g] = [job[g] EXCEPT !.held = job[g].held \ dead]
        /\ store' = store \ dead
        /\ live'[g] = live[g] /\ stack'[g] = stack[g]
        /\ pc'[g] = pc[g] /\ cid'[g] = cid[g]
        /\ g \notin cancelled' => g \notin cancelled
    BY <1>0, <1>6, <2>1 DEF GcSweep, Unmarked, TypeOK, Goto, Procs
  <2>3. job[g] \in Jobs
    BY <1>0, <2>1 DEF TypeOK
  <2>4. /\ job'[g].rec = job[g].rec /\ job'[g].dir = job[g].dir
        /\ job'[g].keys = job[g].keys /\ job'[g].held = job[g].held \ dead
    BY <2>2, <2>3 DEF Jobs
  <2> HIDE DEF dead
  <2>5. job'[g].held \subseteq job[g].held \cap store'
    BY <1>a, <2>1, <2>2, <2>4 DEF MarkSound
  <2> QED
    BY <1>0, <1>a, <2>1, <2>2, <2>4, <2>5, MarkFrame
<1>7. ASSUME NEW h \in Collectors, GcCancel(h) PROVE MarkSound(g)'
  <2>1. /\ g \in running /\ UNCHANGED <<store, job, live, stack, pc, cid>>
        /\ g \notin cancelled' => g \notin cancelled
    BY <1>7 DEF GcCancel, Cancel
  <2> QED
    BY <1>0, <1>a, <2>1, MarkFrame DEF MarkSound
<1>8. CASE UNCHANGED mvars
  BY <1>8, <1>a DEF mvars, MarkSound, MayKeep, At, Expanding
<1> QED
  BY <1>1, <1>2, <1>3, <1>4, <1>5, <1>6, <1>7, <1>8 DEF MemNext, GcStep

\* The mark loop keeps its tri-colour invariant under every interleaving with
\* puts, gets, pin changes and other collections.
THEOREM MarkingSound == MemSpec => []MarkInv
<1>1. MemInit => MarkInv
  BY DEF MemInit, Init, MarkInv
<1> QED
  BY <1>1, MarkNext, TypeCorrect, PTL DEF MemSpec

-----------------------------------------------------------------------------
\* What a sweep keeps

\* When the mark loop is over, everything the contract says must be kept is
\* marked, and only what it says may be kept.
LEMMA MarkedEnough ==
  ASSUME NEW g \in Collectors, TypeOK, MarkSound(g), MarkDone(g)
  PROVE  Protected(g) \subseteq live[g] /\ live[g] \subseteq MayKeep(job[g])
<1>1. /\ job[g].rec \subseteq live[g] /\ job[g].dir \subseteq live[g]
      /\ live[g] \in SUBSET CID
  BY DEF MarkSound, MarkDone, TypeOK
<1>2. ASSUME g \notin cancelled PROVE MustKeep(job[g]) \subseteq live[g]
  <2>1. ClosedUnder(live[g], job[g].held \ job[g].dir)
    BY <1>2 DEF ClosedUnder, MarkSound, MarkDone, At, Expanding
  <2>2. Reach(job[g].rec, job[g].held \ job[g].dir) \subseteq live[g]
    BY <1>1, <2>1, ReachLeast
  <2> QED
    BY <1>1, <2>2 DEF MustKeep
<1> QED
  BY <1>1, <1>2 DEF Protected, MarkSound

\* A recursively pinned DAG that is complete, with no direct root in it, is
\* marked when the loop is over.
LEMMA DagMarked ==
  ASSUME NEW g \in Collectors, TypeOK, MarkSound(g), MarkDone(g), g \notin cancelled,
         NEW r \in job[g].rec, DagOf(r) \subseteq job[g].held \ job[g].dir
  PROVE  DagOf(r) \subseteq live[g]
<1> DEFINE S == live[g] \cap DagOf(r)
<1>0. r \in CID /\ DagOf(r) = Reach({r}, CID)
  BY DEF TypeOK, Jobs, DagOf, Dag
<1>1. r \in CID /\ DagOf(r) \in SUBSET CID
  BY <1>0, ReachTyped
<1>2. r \in S
  BY <1>0, ReachRoots DEF MarkSound, MarkDone
<1>3. ASSUME NEW c \in S PROVE ChildCIDs(c) \subseteq S
  <2>1. ChildCIDs(c) \subseteq DagOf(r)
    BY <1>0, <1>1, <1>3, ReachClosed
  <2>2. ChildCIDs(c) \subseteq live[g]
    BY <1>3 DEF MarkSound, MarkDone, At, Expanding
  <2> QED
    BY <2>1, <2>2
<1>4. ClosedUnder(S, CID)
  BY <1>3 DEF ClosedUnder
<1>5. S \in SUBSET CID /\ {r} \subseteq S
  BY <1>1, <1>2
<1> HIDE DEF S
<1>6. DagOf(r) \subseteq S
  BY <1>0, <1>4, <1>5, ReachLeast
<1> QED
  BY <1>6 DEF S

LEMMA SweepKeepsDag ==
  ASSUME TypeOK, MarkInv, NEW g \in Collectors, GcSweep(g), g \notin cancelled
  PROVE  PinnedDagKept(g)
<1>1. MarkDone(g) /\ store' = store \ (job[g].keys \ live[g])
  BY DEF GcSweep, Unmarked
<1>2. MarkSound(g)
  BY <1>1 DEF MarkInv, TypeOK, MarkDone, At
<1>3. ASSUME NEW r \in job[g].rec, DagOf(r) \subseteq job[g].held \ job[g].dir
      PROVE  DagOf(r) \subseteq store'
  <2>1. DagOf(r) \subseteq live[g]
    BY <1>1, <1>2, <1>3, DagMarked
  <2>2. DagOf(r) \subseteq store
    BY <1>2, <1>3 DEF MarkSound
  <2> QED
    BY <1>1, <2>1, <2>2
<1> QED
  BY <1>3 DEF PinnedDagKept

\* A recursively pinned DAG that stays complete survives every collection
\* that saw the pin and was not cancelled, if no part of it is pinned directly
\* or softly.
THEOREM PinnedDagsSurvive == MemSpec => PinnedDagSurvives
<1>1. TypeOK /\ MarkInv => [\A g \in Collectors :
                             GcSweep(g) /\ g \notin cancelled => PinnedDagKept(g)]_mvars
  BY SweepKeepsDag
<1> QED
  BY <1>1, TypeCorrect, MarkingSound, PTL DEF PinnedDagSurvives

-----------------------------------------------------------------------------
\* The store implements its contract

LEMMA PinStep ==
  ASSUME TypeOK, NEW c \in CID, NEW h \in HardModes, NEW s \in SoftModes,
         h = "none" \/ s = "none",
         hardPins' = [hardPins EXCEPT ![c] = h],
         softPins' = [softPins EXCEPT ![c] = s],
         UNCHANGED <<store, running, job, cancelled>>
  PROVE  ChangePin(c)
  BY DEF TypeOK, ChangePin

LEMMA RefreshStep ==
  ASSUME TypeOK, PinsExclusive, NEW c \in CID, softPins' = RefreshedPins(c),
         UNCHANGED <<store, hardPins, running, job, cancelled>>
  PROVE  [Next]_vars
<1>1. CASE softPins[c] = "none"
  BY <1>1 DEF RefreshedPins, vars
<1>2. CASE softPins[c] # "none"
  <2>1. hardPins[c] = "none" /\ hardPins' = [hardPins EXCEPT ![c] = "none"]
    BY <1>2 DEF PinsExclusive, TypeOK
  <2>2. softPins' = [softPins EXCEPT ![c] = "live"]
    BY <1>2 DEF RefreshedPins
  <2> QED
    BY <2>1, <2>2, PinStep DEF HardModes, SoftModes, Next
<1> QED
  BY <1>1, <1>2

LEMMA PinsSimulate ==
  ASSUME TypeOK, PinsExclusive, NEW c \in CID, PinNext(c)
  PROVE  [Next]_vars
<1> USE DEF HardModes, SoftModes, gcVars
<1>1. hardPins[c] \in HardModes /\ hardPins = [hardPins EXCEPT ![c] = hardPins[c]]
  BY DEF TypeOK
<1>2. CASE Pin(c)
  BY <1>2, PinStep DEF Pin, HardPin, Next
<1>3. CASE PinDirect(c)
  BY <1>3, PinStep DEF PinDirect, HardPin, Next
<1>4. CASE PinSoft(c)
  BY <1>1, <1>4, PinStep DEF PinSoft, Next
<1>5. CASE Unpin(c)
  BY <1>5, PinStep DEF Unpin, Next
<1>6. CASE SoftPinExpires(c)
  BY <1>1, <1>6, PinStep DEF SoftPinExpires, PinsExclusive, Next
<1> QED
  BY <1>2, <1>3, <1>4, <1>5, <1>6 DEF PinNext

LEMMA SweepSimulates ==
  ASSUME TypeOK, MarkInv, NEW g \in Collectors, GcSweep(g)
  PROVE  Finish(g)
<1> DEFINE dead == job[g].keys \ live[g]
<1>1. MarkDone(g) /\ g \in running
  BY DEF GcSweep, MarkDone, TypeOK, At
<1>2. Protected(g) \subseteq live[g] /\ live[g] \subseteq MayKeep(job[g])
  BY <1>1, MarkedEnough DEF MarkInv
<1>3. /\ dead \in SUBSET job[g].keys
      /\ dead \cap Protected(g) = {}
      /\ job[g].keys \ dead \subseteq MayKeep(job[g])
  BY <1>2
<1>4. /\ store' = store \ dead
      /\ running' = running \ {g}
      /\ cancelled' = cancelled \ {g}
      /\ job' = [h \in Collectors |->
                   IF h = g THEN NoJob ELSE [job[h] EXCEPT !.held = @ \ dead]]
      /\ UNCHANGED <<hardPins, softPins>>
  BY DEF GcSweep, Unmarked, pinVars
<1> HIDE DEF dead
<1> QED
  BY <1>1, <1>3, <1>4 DEF Finish

LEMMA StepSimulation ==
  TypeOK /\ PinsExclusive /\ MarkInv /\ [MemNext]_mvars => [Next]_vars
<1> SUFFICES ASSUME TypeOK, PinsExclusive, MarkInv, [MemNext]_mvars
             PROVE  [Next]_vars
  OBVIOUS
<1>1. ASSUME NEW p \in Clients, ClientNext(p) PROVE [Next]_vars
  <2>0. cid[p] \in CID
    BY DEF TypeOK, Procs
  <2>1. CASE RefreshSoftPin(p)
    BY <2>0, <2>1, RefreshStep DEF RefreshSoftPin, gcVars
  <2>2. ASSUME NEW c \in CID, PutBlockLocally(p, c) PROVE [Next]_vars
    BY <2>2 DEF PutBlockLocally, gcVars, pinVars, Put, Next
  <2>3. CASE FetchStores(p)
    BY <2>0, <2>3 DEF FetchStores, gcVars, pinVars, Put, Next
  <2>4. CASE (\E c \in CID : GetBlock(p, c)) \/ PutAnnounce(p)
          \/ GetAnnounce(p) \/ FetchFails(p) \/ FetchNotStored(p)
    BY <2>4 DEF GetBlock, PutAnnounce, GetAnnounce, FetchFails, FetchNotStored, gcVars, pinVars, vars
  <2> QED
    BY <1>1, <2>1, <2>2, <2>3, <2>4 DEF ClientNext
<1>2. ASSUME NEW c \in CID, PinNext(c) PROVE [Next]_vars
  BY <1>2, PinsSimulate
<1>3. ASSUME NEW g \in Collectors, GcSnapshot(g) PROVE [Next]_vars
  BY <1>3 DEF GcSnapshot, Next
<1>4. ASSUME NEW g \in Collectors, GcPop(g) PROVE [Next]_vars
  BY <1>4 DEF GcPop, pinVars, vars
<1>5. ASSUME NEW g \in Collectors, GcExpand(g) PROVE [Next]_vars
  <2>1. cid[g] \in CID
    BY DEF TypeOK, Procs
  <2> QED
    BY <1>5, <2>1, RefreshStep DEF GcExpand
<1>6. ASSUME NEW g \in Collectors, GcSweep(g) PROVE [Next]_vars
  BY <1>6, SweepSimulates DEF Next
<1>7. ASSUME NEW g \in Collectors, GcCancel(g) PROVE [Next]_vars
  BY <1>7 DEF GcCancel, Next
<1>8. CASE UNCHANGED mvars
  BY <1>8 DEF mvars, vars
<1> QED
  BY <1>1, <1>2, <1>3, <1>4, <1>5, <1>6, <1>7, <1>8 DEF MemNext, GcStep

\* Every step of the in-memory store, with its traversal spread over many
\* critical sections, is a step of the contract or leaves it alone.
THEOREM ImplementsContract == MemSpec => KeepsContract
<1>1. MemInit => Init
  BY DEF MemInit
<1> QED
  BY <1>1, StepSimulation, TypeCorrect, PinsStayExclusive, MarkingSound, PTL
     DEF MemSpec, KeepsContract, Spec

-----------------------------------------------------------------------------
\* Soft pins

\* No refresh of a soft pin, by a get or by a collection, brings back a pin
\* that is gone.
THEOREM UnpinIsFinal == MemSpec => UnpinSticks
<1> DEFINE Back(c) == softPins[c] = "none" /\ softPins'[c] # "none"
<1>1. ASSUME TypeOK, MemNext, NEW c \in CID, Back(c) PROVE PinSoft(c)
  <2>1. ASSUME NEW p \in Clients, ClientNext(p) PROVE FALSE
    BY <1>1, <2>1 DEF TypeOK, ClientNext, PutBlockLocally, GetBlock, PutAnnounce,
         GetAnnounce, FetchFails, FetchStores, FetchNotStored, RefreshSoftPin, RefreshedPins, Procs, pinVars
  <2>2. ASSUME NEW d \in CID, PinNext(d) PROVE PinSoft(c)
    <3>1. CASE PinSoft(d)
      <4>1. d = c
        BY <1>1, <3>1 DEF PinSoft, TypeOK
      <4> QED
        BY <3>1, <4>1
    <3>2. CASE Pin(d) \/ PinDirect(d) \/ Unpin(d) \/ SoftPinExpires(d)
      <4>1. \E s \in {"none", "expired"} :
              /\ softPins' = [softPins EXCEPT ![d] = s]
              /\ s = "expired" => softPins[d] = "live"
        BY <3>2 DEF Pin, PinDirect, HardPin, Unpin, SoftPinExpires
      <4> QED
        BY <1>1, <4>1 DEF TypeOK
    <3> QED
      BY <2>2, <3>1, <3>2 DEF PinNext
  <2>3. ASSUME NEW g \in Collectors, GcSnapshot(g) \/ GcCancel(g) \/ GcStep(g) PROVE FALSE
    BY <1>1, <2>3 DEF TypeOK, GcSnapshot, GcCancel, Cancel, Begin, GcStep, GcPop, GcExpand, GcSweep,
                RefreshedPins, Procs, pinVars
  <2> QED
    BY <1>1, <2>1, <2>2, <2>3 DEF MemNext
<1>2. TypeOK /\ [MemNext]_mvars =>
        [\A c \in CID : softPins[c] = "none" /\ softPins'[c] # "none" => PinSoft(c)]_mvars
  BY <1>1
<1> QED
  BY <1>2, TypeCorrect, PTL DEF MemSpec, UnpinSticks

-----------------------------------------------------------------------------
\* Provider records

\* A step of the node as a whole is one of the block store or leaves it alone.
LEMMA StoreSteps == [ProvideNext]_pvars => [MemNext]_mvars
<1> SUFFICES ASSUME ProvideNext PROVE [MemNext]_mvars
  BY DEF pvars
<1>1. ASSUME NEW p \in Handlers, AnnouncePut(p) \/ AnnounceGet(p) PROVE MemNext
  BY <1>1 DEF AnnouncePut, AnnounceGet, MemNext, ClientNext, Handlers
<1>2. CASE StoreStep
  BY <1>2 DEF StoreStep, MemNext, ClientNext, GcStep, Handlers
<1>3. ASSUME NEW g \in Collectors, Sweep(g) PROVE MemNext
  BY <1>3 DEF Sweep, MemNext, GcStep
<1>4. CASE PassStep
  BY <1>4, ProvideAssumption DEF PassStep, StartPass, EndPass, RefreshRead,
     Reprovide, SkipBlock, ReadBlock, MemNext, ClientNext
<1>5. ASSUME NEW c \in CID,
             HandleStore(c) \/ CacheFound(c) \/ PutValue(c) \/ Expire(c) \/ Republish(c)
      PROVE  UNCHANGED mvars
  BY <1>5 DEF HandleStore, CacheFound, PutValue, Expire, Republish
<1>6. CASE RepublishSnapshot
  BY <1>6 DEF RepublishSnapshot
<1> QED
  BY <1>1, <1>2, <1>3, <1>4, <1>5, <1>6 DEF ProvideNext

\* The block store keeps its properties whatever becomes of the records: the
\* republishing loop, the reprovider and the handlers add no step to it.
THEOREM ProvideIsMem == ProvideSpec => MemSpec
<1>1. ProvideInit => MemInit
  BY DEF ProvideInit
<1> QED
  BY <1>1, StoreSteps, PTL DEF ProvideSpec, MemSpec

LEMMA ProvideTypeInit == ProvideInit => ProvideTypeOK
<1> SUFFICES ASSUME ProvideInit PROVE ProvideTypeOK
  OBVIOUS
<1>1. TypeOK
  BY TypeInit DEF ProvideInit
<1>2. pc[Reprovider] = "idle"
  BY ProvideAssumption DEF ProvideInit, MemInit, Procs
<1> QED
  BY <1>1, <1>2 DEF ProvideInit, ProvideTypeOK, RecordKinds

\* Another goroutine's step leaves the place and the block of p alone.
LEMMA ClientFrame ==
  ASSUME TypeOK, NEW q \in Clients, NEW p \in Clients, p # q,
         \/ PutAnnounce(p) \/ GetAnnounce(p)
         \/ \E c \in CID : PutBlockLocally(p, c) \/ GetBlock(p, c)
         \/ FetchFails(p) \/ FetchStores(p) \/ FetchNotStored(p) \/ RefreshSoftPin(p)
  PROVE  pc'[q] = pc[q] /\ cid'[q] = cid[q]
  BY DEF TypeOK, Procs, Goto, PutAnnounce, GetAnnounce, PutBlockLocally, GetBlock,
         FetchFails, FetchStores, FetchNotStored, RefreshSoftPin

LEMMA OtherFrame ==
  ASSUME TypeOK, NEW q \in Clients,
         \/ \E c \in CID : PinNext(c)
         \/ \E g \in Collectors : GcSnapshot(g) \/ GcCancel(g) \/ GcStep(g)
  PROVE  pc'[q] = pc[q] /\ cid'[q] = cid[q]
<1>1. q \notin Collectors
  BY MemStoreAssumption
<1>2. ASSUME NEW c \in CID, PinNext(c) PROVE pc' = pc /\ cid' = cid
  BY <1>2 DEF PinNext, Pin, PinDirect, HardPin, PinSoft, Unpin, SoftPinExpires
<1>3. ASSUME NEW g \in Collectors, GcSnapshot(g) \/ GcCancel(g) \/ GcExpand(g) \/ GcSweep(g)
      PROVE  pc'[q] = pc[q] /\ cid'[q] = cid[q]
  BY <1>1, <1>3 DEF TypeOK, Procs, Goto, GcSnapshot, GcCancel, GcExpand, GcSweep
<1>4. ASSUME NEW g \in Collectors, GcPop(g) PROVE pc'[q] = pc[q] /\ cid'[q] = cid[q]
  BY <1>1, <1>4 DEF TypeOK, Procs, Goto, GcPop
<1> QED
  BY <1>2, <1>3, <1>4 DEF GcStep

\* The part of ProvideTypeOK about the reprovider, and the rest of it.
ReproviderOK ==
  /\ turn \in {"none", "pass", "announce"}
  /\ todo \subseteq CID
  /\ visited \subseteq CID
  /\ pc[Reprovider] \in {"idle", "refresh"}
  /\ pc[Reprovider] = "refresh" => turn = "pass"
  /\ pc[Reprovider] = "refresh" \/ turn = "announce" => cid[Reprovider] \in visited
  /\ turn = "none" => todo = {}

RecordsOK == record \in [CID -> RecordKinds] /\ snap \subseteq CID

LEMMA RecordsTyped ==
  ASSUME TypeOK, RecordsOK, [ProvideNext]_pvars
  PROVE  RecordsOK'
<1> USE DEF RecordsOK, RecordKinds, SetRecord, Publish, provVars
<1>1. ASSUME NEW p \in Handlers, AnnouncePut(p) \/ AnnounceGet(p) PROVE RecordsOK'
  BY <1>1 DEF AnnouncePut, AnnounceGet
<1>2. CASE StoreStep
  BY <1>2 DEF StoreStep
<1>3. ASSUME NEW g \in Collectors, Sweep(g) PROVE RecordsOK'
  BY <1>3 DEF Sweep, Unannounced
<1>4. ASSUME NEW c \in CID,
             HandleStore(c) \/ CacheFound(c) \/ PutValue(c) \/ Expire(c) \/ Republish(c)
      PROVE  RecordsOK'
  BY <1>4 DEF HandleStore, CacheFound, PutValue, Expire, Republish
<1>5. CASE RepublishSnapshot
  BY <1>5 DEF RepublishSnapshot
<1>6. CASE PassStep
  BY <1>6 DEF PassStep, StartPass, EndPass, RefreshRead, Reprovide, SkipBlock, ReadBlock
<1>7. CASE UNCHANGED pvars
  BY <1>7 DEF pvars
<1> QED
  BY <1>1, <1>2, <1>3, <1>4, <1>5, <1>6, <1>7 DEF ProvideNext

LEMMA ReproviderFrame ==
  ASSUME ReproviderOK, UNCHANGED provVars,
         pc'[Reprovider] = pc[Reprovider], cid'[Reprovider] = cid[Reprovider]
  PROVE  ReproviderOK'
  BY DEF ReproviderOK, provVars

LEMMA ReproviderTyped ==
  ASSUME TypeOK, ReproviderOK, [ProvideNext]_pvars
  PROVE  ReproviderOK'
<1>1. ASSUME NEW p \in Handlers, AnnouncePut(p) \/ AnnounceGet(p) PROVE ReproviderOK'
  <2>1. pc'[Reprovider] = pc[Reprovider] /\ cid'[Reprovider] = cid[Reprovider]
    BY <1>1, ClientFrame, ProvideAssumption DEF AnnouncePut, AnnounceGet, Handlers
  <2>2. UNCHANGED provVars
    BY <1>1 DEF AnnouncePut, AnnounceGet
  <2> QED
    BY <2>1, <2>2, ReproviderFrame
<1>2. CASE StoreStep
  <2>1. ASSUME NEW p \in Handlers,
               \/ \E c \in CID : PutBlockLocally(p, c) \/ GetBlock(p, c)
               \/ FetchFails(p) \/ FetchStores(p) \/ FetchNotStored(p) \/ RefreshSoftPin(p)
        PROVE  pc'[Reprovider] = pc[Reprovider] /\ cid'[Reprovider] = cid[Reprovider]
    <3>1. p \in Clients /\ p # Reprovider /\ Reprovider \in Clients
      BY ProvideAssumption DEF Handlers
    <3> QED
      BY <2>1, <3>1, ClientFrame
  <2>2. ASSUME \/ \E c \in CID : PinNext(c)
               \/ \E g \in Collectors : \/ GcSnapshot(g) \/ GcCancel(g)
                                        \/ GcPop(g) \/ GcExpand(g)
        PROVE  pc'[Reprovider] = pc[Reprovider] /\ cid'[Reprovider] = cid[Reprovider]
    <3>1. \/ \E c \in CID : PinNext(c)
          \/ \E g \in Collectors : GcSnapshot(g) \/ GcCancel(g) \/ GcStep(g)
      BY <2>2 DEF GcStep
    <3> QED
      BY <3>1, OtherFrame, ProvideAssumption
  <2>3. UNCHANGED provVars
    BY <1>2 DEF StoreStep
  <2>4. pc'[Reprovider] = pc[Reprovider] /\ cid'[Reprovider] = cid[Reprovider]
    BY <1>2, <2>1, <2>2 DEF StoreStep
  <2> QED
    BY <2>3, <2>4, ReproviderFrame
<1>3. ASSUME NEW g \in Collectors, Sweep(g) PROVE ReproviderOK'
  <2>1. pc'[Reprovider] = pc[Reprovider] /\ cid'[Reprovider] = cid[Reprovider]
    BY <1>3, OtherFrame, ProvideAssumption DEF Sweep, GcStep
  <2> QED
    BY <1>3, <2>1, ReproviderFrame DEF Sweep
<1>4. ASSUME \/ \E c \in CID : \/ HandleStore(c) \/ CacheFound(c) \/ PutValue(c)
                               \/ Expire(c) \/ Republish(c)
             \/ RepublishSnapshot \/ UNCHANGED pvars
      PROVE  ReproviderOK'
  <2>1. UNCHANGED <<mvars, provVars>>
    BY <1>4 DEF HandleStore, CacheFound, PutValue, Expire, Republish, RepublishSnapshot, pvars
  <2> QED
    BY <2>1, ReproviderFrame DEF mvars
<1>5. CASE StartPass \/ EndPass \/ \E c \in CID : SkipBlock(c)
  <2>1. UNCHANGED mvars
    BY <1>5 DEF StartPass, EndPass, SkipBlock
  <2>2. UNCHANGED <<pc, cid>>
    BY <2>1 DEF mvars
  <2> QED
    BY <1>5, <2>2 DEF StartPass, EndPass, SkipBlock, ReproviderOK, At
<1>6. ASSUME NEW c \in CID, ReadBlock(c) PROVE ReproviderOK'
  <2>1. pc' = [pc EXCEPT ![Reprovider] = "refresh"] /\ cid' = [cid EXCEPT ![Reprovider] = c]
    BY <1>6 DEF ReadBlock, GetBlock, Goto
  <2>2. pc'[Reprovider] = "refresh" /\ cid'[Reprovider] = c
    BY <2>1, ProvideAssumption DEF TypeOK, Procs
  <2> QED
    BY <1>6, <2>2 DEF ReadBlock, ReproviderOK
<1>7. CASE RefreshRead
  <2>1. pc[Reprovider] = "refresh" /\ pc' = [pc EXCEPT ![Reprovider] = "idle"] /\ UNCHANGED cid
    BY <1>7 DEF RefreshRead, RefreshSoftPin, Goto, At
  <2>2. pc'[Reprovider] = "idle"
    BY <2>1, ProvideAssumption DEF TypeOK, Procs
  <2> QED
    BY <1>7, <2>1, <2>2 DEF RefreshRead, ReproviderOK
<1>8. CASE Reprovide
  <2>1. cid[Reprovider] \in CID
    BY ProvideAssumption DEF TypeOK, Procs
  <2>2. Children(cid[Reprovider]) \subseteq CID
    BY <2>1, ChildrenTyped DEF Children
  <2>3. UNCHANGED <<pc, cid>>
    BY <1>8 DEF Reprovide, mvars
  <2> QED
    BY <1>8, <2>2, <2>3 DEF Reprovide, ReproviderOK
<1> QED
  BY <1>1, <1>2, <1>3, <1>4, <1>5, <1>6, <1>7, <1>8 DEF ProvideNext, PassStep

\* Every variable has its type, and the reprovider announces only what it has
\* noted as visited, whatever pins, collections and other writers do.
THEOREM ProvideTypeCorrect == ProvideSpec => []ProvideTypeOK
<1>1. ProvideTypeOK <=> TypeOK /\ RecordsOK /\ ReproviderOK
  BY DEF ProvideTypeOK, RecordsOK, ReproviderOK
<1>2. ProvideTypeOK' <=> TypeOK' /\ RecordsOK' /\ ReproviderOK'
  BY DEF ProvideTypeOK, RecordsOK, ReproviderOK
<1>3. ProvideTypeOK /\ [ProvideNext]_pvars => ProvideTypeOK'
  BY <1>1, <1>2, StoreSteps, TypeNext, RecordsTyped, ReproviderTyped
<1> QED
  BY <1>3, ProvideTypeInit, PTL DEF ProvideSpec

\* With all the writers of the records: a sweep never leaves the node's own
\* record of a missing block behind, nor does an overwrite or an expiry; only
\* an announcement of a block found, or a record read, earlier makes one.
THEOREM OnlyLateAnnouncesDo == ProvideSpec => OnlyLateAnnouncesDangle
<1> DEFINE P == Dangling' \ Dangling \subseteq LateAnnouncements
<1>1. ASSUME ProvideTypeOK, ProvideNext PROVE P
  <2> USE DEF Dangling
  <2>0. record \in [CID -> RecordKinds]
    BY <1>1 DEF ProvideTypeOK
  <2>1. ASSUME NEW p \in Handlers, AnnouncePut(p) \/ AnnounceGet(p) PROVE P
    BY <2>0, <2>1 DEF AnnouncePut, AnnounceGet, PutAnnounce, GetAnnounce, Publish,
                      SetRecord, LateAnnouncements, At
  <2>2. CASE StoreStep
    <3>1. store \subseteq store'
      BY <2>2 DEF StoreStep, PutBlockLocally, GetBlock, FetchFails, FetchStores,
           FetchNotStored, RefreshSoftPin, PinNext, Pin, PinDirect, HardPin, PinSoft,
           Unpin, SoftPinExpires, GcSnapshot, Begin, GcCancel, Cancel, GcPop, GcExpand
    <3> QED
      BY <2>2, <3>1 DEF StoreStep
  <2>3. ASSUME NEW g \in Collectors, Sweep(g) PROVE P
    BY <2>0, <2>3 DEF Sweep, GcSweep, Unannounced
  <2>4. ASSUME NEW c \in CID, HandleStore(c) \/ CacheFound(c) \/ PutValue(c) \/ Expire(c)
        PROVE  P
    BY <2>0, <2>4 DEF HandleStore, CacheFound, PutValue, Expire, SetRecord, mvars
  <2>5. ASSUME NEW c \in CID, Republish(c) PROVE P
    BY <2>0, <2>5 DEF Republish, Publish, SetRecord, LateAnnouncements, mvars
  <2>6. CASE RepublishSnapshot \/ StartPass \/ EndPass \/ \E c \in CID : SkipBlock(c)
    BY <2>6 DEF RepublishSnapshot, StartPass, EndPass, SkipBlock, mvars
  <2>7. CASE RefreshRead \/ \E c \in CID : ReadBlock(c)
    BY <2>7 DEF RefreshRead, ReadBlock, RefreshSoftPin, GetBlock
  <2>8. CASE Reprovide
    BY <2>0, <2>8 DEF Reprovide, Publish, SetRecord, LateAnnouncements, mvars
  <2> QED
    BY <1>1, <2>1, <2>2, <2>3, <2>4, <2>5, <2>6, <2>7, <2>8 DEF ProvideNext, PassStep
<1>2. ProvideTypeOK /\ [ProvideNext]_pvars =>
        [Dangling' \ Dangling \subseteq LateAnnouncements]_pvars
  BY <1>1
<1> QED
  BY <1>2, ProvideTypeCorrect, PTL DEF ProvideSpec, OnlyLateAnnouncesDangle
=============================================================================
