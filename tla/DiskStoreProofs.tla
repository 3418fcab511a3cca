--------------------------- MODULE DiskStoreProofs --------------------------
(***************************************************************************)
(* Proofs about the on-disk block store, for every block graph and any     *)
(* number of goroutines: type correctness, what its files can hold, and    *)
(* what its collections keep and remove, without any lock.                 *)
(***************************************************************************)
EXTENDS DiskStore, TLAPS

LEMMA ChildrenTyped == \A c \in CID : ChildCIDs(c) \in SUBSET CID
  BY BlocksAssumption DEF ChildCIDs

LEMMA LostTyped ==
  ASSUME job \in [Collectors -> Jobs], NEW D
  PROVE  Lost(D) \in [Collectors -> Jobs]
<1>1. ASSUME NEW j \in Jobs PROVE [j EXCEPT !.held = @ \ D] \in Jobs
  BY DEF Jobs
<1> QED
  BY <1>1 DEF Lost

LEMMA JobTyped ==
  ASSUME NEW j \in Jobs, index \subseteq CID, NEW c
  PROVE  WithSoftPins(j) \in Jobs /\ WithKeys(j) \in Jobs /\ Swept(j, c) \in Jobs
<1>1. WithSoftPins(j) \in Jobs
  BY DEF Jobs, WithSoftPins
<1>2. WithKeys(j) \in Jobs
  BY DEF Jobs, WithKeys, Stored
<1>3. Swept(j, c) \in Jobs
  BY DEF Jobs, Swept
<1> QED
  BY <1>1, <1>2, <1>3

-----------------------------------------------------------------------------
\* Type correctness

LEMMA TypeInit == DiskInit => TypeOK
<1>1. NoJob \in Jobs
  BY DEF NoJob, Jobs
<1> QED
  BY <1>1, DiskStoreAssumption
     DEF DiskInit, TypeOK, At, Contents, HardModes, SoftModes, Procs, Handles,
         ClientPlaces, CollectorPlaces

LEMMA PutTyped == ASSUME TypeOK, NEW p \in Clients, PutStep(p) PROVE TypeOK'
<1> USE DiskStoreAssumption DEF TypeOK, At, Goto, Procs, gcVars, pinVars, files
<1>0. /\ AfterPut(p, TRUE) \in {"announce", "idle"}
      /\ AfterPut(p, FALSE) \in {"announce", "idle"}
  BY DEF AfterPut
<1>1. CASE Write(p)
  BY <1>1 DEF Write, Contents, Handles, ClientPlaces, CollectorPlaces
<1>2. CASE Rename(p)
  <2>1. job' \in [Collectors -> Jobs]
    BY <1>2, LostTyped DEF Rename
  <2>2. fd' \in [Procs -> Handles] /\ \A q \in Procs : fd'[q] # "none" <=> fd[q] # "none"
    BY <1>2 DEF Rename, Renamed, Handles
  <2>3. file' \in [CID -> Contents] /\ tmp' \in [CID -> Contents]
    BY <1>2 DEF Rename, Contents
  <2>4. /\ pc' = [pc EXCEPT ![p] = "indexPut"] /\ pc[p] = "rename"
        /\ UNCHANGED <<index, hardPins, softPins, op, cid, live, stack,
                       cancelled, faults>>
    BY <1>2 DEF Rename
  <2> QED
    BY <2>1, <2>2, <2>3, <2>4 DEF ClientPlaces, CollectorPlaces
<1>3. CASE RenameFails(p)
  BY <1>0, <1>3 DEF RenameFails, ClientPlaces, CollectorPlaces
<1>4. CASE IndexPut(p)
  <2>1. index' \subseteq CID
    BY <1>4 DEF IndexPut
  <2>2. pc' = [pc EXCEPT ![p] = AfterPut(p, TRUE)] /\ pc[p] = "indexPut"
    BY <1>4 DEF IndexPut
  <2>3. UNCHANGED <<files, pinVars, op, cid, gcVars, faults>>
    BY <1>4 DEF IndexPut
  <2> QED
    BY <1>0, <2>1, <2>2, <2>3 DEF ClientPlaces, CollectorPlaces
<1>5. CASE Announce(p)
  BY <1>5 DEF Announce, ClientPlaces, CollectorPlaces
<1> QED
  BY <1>1, <1>2, <1>3, <1>4, <1>5 DEF PutStep

LEMMA ReadTyped ==
  ASSUME TypeOK, NEW p \in Procs, ReadFile(p) \/ GetSoft(p) \/ PutSoft(p) PROVE TypeOK'
<1> USE DiskStoreAssumption
    DEF TypeOK, At, Goto, Procs, gcVars, pinVars, files, ClientPlaces, CollectorPlaces
<1>1. CASE ReadFile(p)
  BY <1>1 DEF ReadFile, AfterMiss
<1>2. CASE GetSoft(p)
  BY <1>2 DEF GetSoft, AfterHit
<1>3. CASE PutSoft(p)
  BY <1>3 DEF PutSoft, AfterHit, SoftModes
<1> QED
  BY <1>1, <1>2, <1>3

LEMMA ClientTyped ==
  ASSUME TypeOK, NEW p \in Clients, (\E c \in CID : Call(p, c)) \/ ClientStep(p)
  PROVE  TypeOK'
<1> USE DiskStoreAssumption
    DEF TypeOK, At, Goto, Procs, gcVars, pinVars, files, ClientPlaces, CollectorPlaces
<1>1. ASSUME NEW c \in CID, PutBlock(p, c) PROVE TypeOK'
  BY <1>1 DEF PutBlock, OpenTmp, Contents, Handles
<1>2. ASSUME NEW c \in CID, GetBlock(p, c) PROVE TypeOK'
  BY <1>2 DEF GetBlock, Lookup, AfterMiss
<1>3. ASSUME NEW c \in CID, Pin(p, c) \/ PinDirect(p, c) \/ Unpin(p, c) PROVE TypeOK'
  BY <1>3 DEF Pin, PinDirect, Unpin, StartPinCall, SoftModes
<1>4. ASSUME NEW c \in CID, PinSoft(p, c) PROVE TypeOK'
  BY <1>4 DEF PinSoft, StartPinCall
<1>5. CASE PutStep(p)
  BY <1>5, PutTyped
<1>6. CASE ReadFile(p) \/ GetSoft(p) \/ PutSoft(p)
  BY <1>6, ReadTyped
<1>7. CASE FetchFails(p) \/ FetchNotStored(p)
  BY <1>7 DEF FetchFails, FetchNotStored, AfterPut
<1>8. CASE Fetch(p)
  BY <1>8 DEF Fetch, OpenTmp, Contents, Handles
<1>9. CASE SetHardPin(p)
  BY <1>9 DEF SetHardPin, HardModeAt, HardModes
<1>10. CASE SetSoftPin(p)
  BY <1>10 DEF SetSoftPin, SoftModes
<1> QED
  BY <1>1, <1>2, <1>3, <1>4, <1>5, <1>6, <1>7, <1>8, <1>9, <1>10
     DEF Call, ClientStep, GetStep, PinStep

LEMMA GcTyped ==
  ASSUME TypeOK, NEW g \in Collectors, GcHardPins(g) \/ GcStep(g) \/ GcCancel(g)
  PROVE  TypeOK'
<1> USE DiskStoreAssumption
    DEF TypeOK, At, Goto, Procs, gcVars, pinVars, files, ClientPlaces, CollectorPlaces
<1>0. NoJob \in Jobs
  BY DEF NoJob, Jobs
<1>1. CASE GcHardPins(g)
  <2>1. [NoJob EXCEPT !.rec = {c \in CID : hardPins[c] = "r"},
                      !.dir = {c \in CID : hardPins[c] = "d"}] \in Jobs
    BY DEF NoJob, Jobs
  <2>2. job' \in [Collectors -> Jobs]
    BY <1>1, <2>1 DEF GcHardPins
  <2> QED
    BY <1>1, <2>2 DEF GcHardPins
<1>2. CASE GcSoftPins(g)
  <2>1. WithSoftPins(job[g]) \in Jobs
    BY JobTyped
  <2>2. job' \in [Collectors -> Jobs]
    BY <1>2, <2>1 DEF GcSoftPins
  <2> QED
    BY <1>2, <2>2 DEF GcSoftPins
<1>3. CASE GcKeys(g)
  <2>1. WithKeys(job[g]) \in Jobs
    BY JobTyped
  <2>2. job' \in [Collectors -> Jobs]
    BY <1>3, <2>1 DEF GcKeys
  <2>3. job[g].dir \in SUBSET CID /\ job[g].rec \in SUBSET CID
    BY DEF Jobs
  <2> QED
    BY <1>3, <2>2, <2>3 DEF GcKeys
<1>4. CASE GcPop(g)
  <2>1. PICK c \in stack[g] :
          /\ stack' = [stack EXCEPT ![g] = Popped(g, c)]
          /\ live' = [live EXCEPT ![g] = @ \cup {c}]
          /\ IF c \in live[g] THEN UNCHANGED <<cid, pc>>
             ELSE cid' = [cid EXCEPT ![g] = c] /\ Goto(g, "lookup")
    BY <1>4 DEF GcPop
  <2>2. c \in CID
    OBVIOUS
  <2>3. pc[g] = "mark" /\ UNCHANGED <<files, index, pinVars, op, job, cancelled, faults>>
    BY <1>4 DEF GcPop
  <2>4. live' \in [Collectors -> SUBSET CID] /\ stack' \in [Collectors -> SUBSET CID]
    BY <2>1, <2>2 DEF Popped
  <2>5. \A h \in Collectors : stack[h] = {} => stack'[h] = {}
    BY <2>1 DEF Popped
  <2> QED
    BY <2>1, <2>2, <2>3, <2>4, <2>5
<1>5. CASE GcLookup(g)
  BY <1>5 DEF GcLookup, Lookup, AfterMiss
<1>6. CASE GcExpand(g)
  BY <1>6, ChildrenTyped DEF GcExpand, Pushed
<1>7. CASE GcStartSweep(g)
  BY <1>7 DEF GcStartSweep, MarkDone
<1>8. CASE ReadFile(g) \/ GetSoft(g) \/ PutSoft(g)
  BY <1>8, ReadTyped
<1>9. CASE GcRemoveFile(g)
  <2>1. PICK c \in Garbage(g) :
          /\ file' = [file EXCEPT ![c] = "none"]
          /\ fd' = Unlinked(c)
          /\ cid' = [cid EXCEPT ![g] = c]
          /\ job' = Lost({c})
    BY <1>9 DEF GcRemoveFile
  <2>2. c \in CID
    BY DEF Garbage, Jobs
  <2>3. job' \in [Collectors -> Jobs]
    BY <2>1, LostTyped
  <2>4. fd' \in [Procs -> Handles] /\ \A q \in Procs : fd'[q] # "none" <=> fd[q] # "none"
    BY <2>1 DEF Unlinked, Handles
  <2>5. /\ pc' = [pc EXCEPT ![g] = "deleteKey"] /\ pc[g] = "sweep"
        /\ UNCHANGED <<tmp, index, hardPins, softPins, op, live, stack,
                       cancelled, faults>>
    BY <1>9 DEF GcRemoveFile
  <2> QED
    BY <2>1, <2>2, <2>3, <2>4, <2>5 DEF Contents
<1>10. CASE GcDeleteKey(g)
  <2>1. job' \in [Collectors -> Jobs]
    <3>1. Lost({cid[g]}) \in [Collectors -> Jobs]
      BY LostTyped
    <3>2. Swept(Lost({cid[g]})[g], cid[g]) \in Jobs
      BY <3>1, JobTyped
    <3> QED
      BY <1>10, <3>1, <3>2 DEF GcDeleteKey
  <2> QED
    BY <1>10, <2>1 DEF GcDeleteKey
<1>11. CASE GcUnannounce(g)
  BY <1>11 DEF GcUnannounce
<1>12. CASE GcReturn(g) \/ GcAbort(g)
  <2>1. Quit(g)
    BY <1>12 DEF GcReturn, GcAbort
  <2> QED
    BY <1>0, <2>1 DEF Quit
<1>13. CASE GcCancel(g)
  BY <1>13 DEF GcCancel
<1> QED
  BY <1>1, <1>2, <1>3, <1>4, <1>5, <1>6, <1>7, <1>8, <1>9, <1>10, <1>11, <1>12, <1>13
     DEF GcStep

LEMMA TypeNext == TypeOK /\ [DiskNext]_dvars => TypeOK'
<1> SUFFICES ASSUME TypeOK, [DiskNext]_dvars PROVE TypeOK'
  OBVIOUS
<1>1. ASSUME NEW c \in CID, SoftPinExpires(c) PROVE TypeOK'
  BY <1>1 DEF TypeOK, SoftPinExpires, SoftModes, files, gcVars, At
<1>2. CASE Crash
  <2>1. NoJob \in Jobs
    BY DEF NoJob, Jobs
  <2> QED
    BY <1>2, <2>1, DiskStoreAssumption
       DEF TypeOK, Crash, At, Procs, Handles, ClientPlaces, CollectorPlaces, pinVars
<1>3. CASE UNCHANGED dvars
  BY <1>3 DEF TypeOK, dvars, At
<1> QED
  BY <1>1, <1>2, <1>3, ClientTyped, GcTyped DEF DiskNext

\* Every variable keeps its type, files are open only while they are written,
\* and a collection reaches its sweep with an empty stack.
THEOREM TypeCorrect == DiskSpec => []TypeOK
<1> QED
  BY TypeInit, TypeNext, PTL DEF DiskSpec

-----------------------------------------------------------------------------
\* What the files hold

\* The only steps that touch a file or a descriptor.
Opens(p, c) ==
  /\ OpenTmp(p, c) /\ ~At(p, "write")
  /\ cid' = [cid EXCEPT ![p] = c]
  /\ pc' = [pc EXCEPT ![p] = "write"]

FileStep ==
  \/ \E p \in Clients, c \in CID : Opens(p, c)
  \/ \E p \in Clients : Write(p) \/ Rename(p)
  \/ \E g \in Collectors : GcRemoveFile(g)
  \/ Crash

LEMMA Quiet ==
  ASSUME TypeOK, [DiskNext]_dvars, ~FileStep
  PROVE  /\ UNCHANGED files
         /\ \A p \in Procs : At(p, "write") => UNCHANGED <<pc[p], cid[p]>>
         /\ \A p \in Procs : At(p, "rename")' => UNCHANGED <<pc[p], cid[p]>>
<1> USE DEF At, Goto, files
<1> DEFINE Still(p) == /\ At(p, "write") => UNCHANGED <<pc[p], cid[p]>>
                       /\ At(p, "rename")' => UNCHANGED <<pc[p], cid[p]>>
           Goal == UNCHANGED files /\ \A p \in Procs : Still(p)
<1>a. pc \in [Procs -> ClientPlaces \cup CollectorPlaces] /\ cid \in [Procs -> CID]
  BY DEF TypeOK
<1>b. \A p \in Clients : p \in Procs
  BY DEF Procs
<1>c. \A g \in Collectors : g \in Procs
  BY DEF Procs
<1>1. ASSUME NEW p \in Clients, NEW c \in CID, Call(p, c) PROVE Goal
  <2>1. ~PutBlock(p, c)
    <3>1. PutBlock(p, c) => Opens(p, c)
      BY DEF PutBlock, Opens
    <3> QED
      BY <3>1 DEF FileStep
  <2>2. pc[p] = "idle" /\ UNCHANGED files /\ cid' = [cid EXCEPT ![p] = c]
        /\ \E place \in {"idle", "readFile", "fetch", "mark", "pinRec", "pinDir",
                          "unpin", "pinSoft"} :
             pc' = [pc EXCEPT ![p] = place]
    BY <1>1, <2>1 DEF Call, GetBlock, Lookup, AfterMiss, Pin, PinDirect, Unpin, PinSoft,
                      StartPinCall
  <2> QED
    BY <2>2, <1>a, <1>b
<1>2. ASSUME NEW p \in Clients, ClientStep(p) PROVE Goal
  <2>1. ~Write(p) /\ ~Rename(p)
    BY DEF FileStep
  <2>2. ~Fetch(p)
    <3>1. cid[p] \in CID /\ cid = [cid EXCEPT ![p] = cid[p]]
      BY <1>a, <1>b
    <3>2. Fetch(p) => Opens(p, cid[p])
      BY <3>1 DEF Fetch, Opens
    <3> QED
      BY <3>1, <3>2 DEF FileStep
  <2>3. pc[p] # "write" /\ UNCHANGED <<files, cid>>
        /\ \E place \in {"idle", "announce", "getSoft", "putSoft", "fetch", "expand", "mark"} :
             pc' = [pc EXCEPT ![p] = place]
    BY <1>2, <2>1, <2>2
       DEF ClientStep, PutStep, GetStep, PinStep, RenameFails, IndexPut, Announce, AfterPut,
           ReadFile, GetSoft, PutSoft, AfterHit, AfterMiss, FetchFails, FetchNotStored,
           SetHardPin, SetSoftPin, HardModeAt
  <2> QED
    BY <2>3, <1>a, <1>b
<1>3. ASSUME NEW c \in CID, SoftPinExpires(c) PROVE Goal
  BY <1>3 DEF SoftPinExpires
<1>4. ASSUME NEW g \in Collectors, GcHardPins(g) \/ GcStep(g) \/ GcCancel(g) PROVE Goal
  <2>1. ~GcRemoveFile(g)
    BY DEF FileStep
  <2>2. pc[g] \notin {"write", "rename"}
    BY DEF TypeOK, CollectorPlaces
  <2>3. UNCHANGED files /\ (UNCHANGED cid \/ \E c \in CID : cid' = [cid EXCEPT ![g] = c])
    BY <1>4, <2>1, <1>a, <1>c
       DEF GcHardPins, GcStep, GcCancel, GcSoftPins, GcKeys, GcPop, GcLookup, Lookup,
           GcExpand, GcStartSweep, ReadFile, GetSoft, PutSoft, GcDeleteKey, GcUnannounce,
           GcReturn, GcAbort, Quit, TypeOK
  <2>4. UNCHANGED pc \/ \E place \in CollectorPlaces : pc' = [pc EXCEPT ![g] = place]
    BY <1>4, <2>1, DiskStoreAssumption
       DEF GcHardPins, GcStep, GcCancel, GcSoftPins, GcKeys, GcPop, GcLookup, Lookup,
           GcExpand, GcStartSweep, ReadFile, GetSoft, PutSoft, GcDeleteKey, GcUnannounce,
           GcReturn, GcAbort, Quit, AfterHit, AfterMiss, CollectorPlaces
  <2> QED
    BY <2>2, <2>3, <2>4, <1>a, <1>c DEF CollectorPlaces
<1>5. CASE UNCHANGED dvars
  BY <1>5 DEF dvars
<1>6. ~Crash
  BY DEF FileStep
<1> QED
  BY <1>1, <1>2, <1>3, <1>4, <1>5, <1>6 DEF DiskNext

(***************************************************************************)
(* No two clients are between the opening and the rename of the temporary  *)
(* file of one block: they share it, and nothing in the code keeps them    *)
(* apart.                                                                  *)
(***************************************************************************)
Writing(p) == At(p, "write") \/ At(p, "rename")

OneAtATime ==
  \A p, q \in Clients : p # q /\ Writing(p) /\ Writing(q) => cid[p] # cid[q]

\* Then whatever a writer renames it has written before.
OneWriter ==
  /\ CommittedWhole
  /\ \A p \in Procs : fd[p] \in {"none", "tmp"}
  /\ \A p \in Procs : At(p, "rename") => tmp[cid[p]] = "full"

LEMMA OneWriterNext ==
  ASSUME OneAtATime, OneAtATime', TypeOK, OneWriter, [DiskNext]_dvars
  PROVE  OneWriter'
<1> USE DEF At
<1>0. /\ pc \in [Procs -> ClientPlaces \cup CollectorPlaces] /\ cid \in [Procs -> CID]
      /\ fd \in [Procs -> Handles] /\ tmp \in [CID -> Contents] /\ file \in [CID -> Contents]
      /\ \A p \in Procs : fd[p] # "none" <=> pc[p] = "write"
      /\ \A g \in Collectors : pc[g] \in CollectorPlaces
      /\ \A p \in Clients : p \in Procs
      /\ \A g \in Collectors : g \in Procs
  BY DEF TypeOK, Procs
<1>1. ASSUME NEW p \in Clients, NEW c \in CID, Opens(p, c) PROVE OneWriter'
  <2>1. /\ tmp' = [tmp EXCEPT ![c] = "partial"] /\ fd' = [fd EXCEPT ![p] = "tmp"]
        /\ file' = file /\ cid' = [cid EXCEPT ![p] = c] /\ pc' = [pc EXCEPT ![p] = "write"]
    BY <1>1 DEF Opens, OpenTmp
  <2>2. ASSUME NEW q \in Procs, pc'[q] = "rename" PROVE tmp'[cid'[q]] = "full"
    <3>1. q # p /\ pc[q] = "rename" /\ cid'[q] = cid[q]
      BY <1>0, <2>1, <2>2
    <3>2. q \in Clients
      BY <1>0, <3>1 DEF CollectorPlaces, Procs
    <3>3. cid'[q] # cid'[p] /\ cid'[p] = c
      BY <1>0, <2>1, <2>2, <3>1, <3>2 DEF OneAtATime, Writing
    <3> QED
      BY <1>0, <2>1, <3>1, <3>3 DEF OneWriter
  <2> QED
    BY <1>0, <2>1, <2>2 DEF OneWriter, CommittedWhole
<1>2. ASSUME NEW p \in Clients, Write(p) PROVE OneWriter'
  <2>1. fd[p] = "tmp" /\ file' = file /\ tmp' = [tmp EXCEPT ![cid[p]] = "full"]
    BY <1>0, <1>2 DEF Write, OneWriter
  <2>2. \A q \in Procs : pc'[q] = "rename" => q = p \/ pc[q] = "rename"
    BY <1>0, <1>2 DEF Write, Goto
  <2>3. cid' = cid /\ fd' = [fd EXCEPT ![p] = "none"]
    BY <1>2 DEF Write
  <2> QED
    BY <1>0, <2>1, <2>2, <2>3 DEF OneWriter, CommittedWhole
<1>3. ASSUME NEW p \in Clients, Rename(p) PROVE OneWriter'
  <2>1. tmp[cid[p]] = "full" /\ file' = [file EXCEPT ![cid[p]] = "full"]
    BY <1>0, <1>3 DEF Rename, OneWriter
  <2>2. /\ tmp' = [tmp EXCEPT ![cid[p]] = "none"] /\ fd' = Renamed(cid[p]) /\ cid' = cid
        /\ pc' = [pc EXCEPT ![p] = "indexPut"] /\ pc[p] = "rename"
    BY <1>3 DEF Rename, Goto
  <2>3. ASSUME NEW q \in Procs, q # p, Writing(q) PROVE cid[q] # cid[p]
    <3>1. q \in Clients
      BY <1>0, <2>3 DEF Writing, CollectorPlaces, Procs
    <3> QED
      BY <2>2, <2>3, <3>1 DEF OneAtATime, Writing
  <2>4. ASSUME NEW q \in Procs PROVE fd'[q] = fd[q]
    <3>1. fd[q] # "none" => q # p /\ Writing(q)
      BY <1>0, <2>2 DEF Writing
    <3> QED
      BY <1>0, <2>2, <2>3, <3>1 DEF Renamed
  <2>5. ASSUME NEW q \in Procs, pc'[q] = "rename" PROVE tmp'[cid'[q]] = "full"
    <3>1. q # p /\ pc[q] = "rename"
      BY <1>0, <2>2, <2>5
    <3>2. cid[q] # cid[p] /\ tmp[cid[q]] = "full"
      BY <2>3, <3>1 DEF Writing, OneWriter
    <3> QED
      BY <1>0, <2>2, <3>2
  <2> QED
    BY <1>0, <2>1, <2>4, <2>5 DEF OneWriter, CommittedWhole
<1>4. ASSUME NEW g \in Collectors, GcRemoveFile(g) PROVE OneWriter'
  <2>1. PICK c \in Garbage(g) :
          file' = [file EXCEPT ![c] = "none"] /\ fd' = Unlinked(c)
          /\ cid' = [cid EXCEPT ![g] = c]
    BY <1>4 DEF GcRemoveFile
  <2>2. fd' = fd
    BY <1>0, <2>1 DEF Unlinked, OneWriter
  <2>3. tmp' = tmp /\ \A q \in Procs : pc'[q] = "rename" => pc[q] = "rename" /\ q # g
    BY <1>0, <1>4 DEF GcRemoveFile, Goto
  <2> QED
    BY <1>0, <2>1, <2>2, <2>3 DEF OneWriter, CommittedWhole
<1>5. CASE Crash
  BY <1>0, <1>5 DEF Crash, OneWriter, CommittedWhole
<1>6. CASE ~FileStep
  BY <1>0, <1>6, Quiet DEF OneWriter, CommittedWhole, files
<1> QED
  BY <1>1, <1>2, <1>3, <1>4, <1>5, <1>6 DEF FileStep

(***************************************************************************)
(* As long as no block is written by two clients at a time, no crash and   *)
(* no collection ever leaves a truncated file in the place of a block, for *)
(* any number of clients that write at the same time.                      *)
(***************************************************************************)
THEOREM WholeUnlessShared == DiskSpec /\ []OneAtATime => []CommittedWhole
<1>1. DiskInit => OneWriter
  BY DEF DiskInit, OneWriter, CommittedWhole, At
<1>2. OneWriter => CommittedWhole
  BY DEF OneWriter
<1>3. TypeOK /\ OneWriter /\ OneAtATime /\ OneAtATime' /\ [DiskNext]_dvars => OneWriter'
  BY OneWriterNext
<1> QED
  BY <1>1, <1>2, <1>3, TypeCorrect, PTL DEF DiskSpec

\* So it is with a single client, whatever crashes or is collected.
THEOREM CommittedFilesAreWhole ==
  ASSUME \A p, q \in Clients : p = q
  PROVE  DiskSpec => []CommittedWhole
<1>1. OneAtATime
  BY DEF OneAtATime
<1> QED
  BY <1>1, WholeUnlessShared, PTL

\* Several writers, no crash: whoever truncated a file, or the temporary file
\* that another writer's rename put in its place, is still about to write it.
WillWrite(c, where) ==
  \E p \in Procs : At(p, "write") /\ cid[p] = c /\ fd[p] = where

TornInv ==
  /\ TornWhileWritten
  /\ \A c \in CID : tmp[c] = "partial" => WillWrite(c, "tmp")

LEMMA TornNext ==
  ASSUME ~Crash, TypeOK, TornInv, [DiskNext]_dvars
  PROVE  TornInv'
<1> USE DEF At
<1>0. /\ pc \in [Procs -> ClientPlaces \cup CollectorPlaces] /\ cid \in [Procs -> CID]
      /\ fd \in [Procs -> Handles] /\ tmp \in [CID -> Contents] /\ file \in [CID -> Contents]
      /\ \A p \in Procs : fd[p] # "none" <=> pc[p] = "write"
      /\ \A g \in Collectors : pc[g] \in CollectorPlaces
      /\ \A p \in Clients : p \in Procs
      /\ \A g \in Collectors : g \in Procs
  BY DEF TypeOK, Procs
<1>t. TornWhileWritten <=> \A c \in CID : file[c] = "partial" => WillWrite(c, "file")
  BY DEF TornWhileWritten, WillWrite
<1>u. (TornWhileWritten <=> \A c \in CID : file[c] = "partial" => WillWrite(c, "file"))'
  BY DEF TornWhileWritten, WillWrite
<1>1. ASSUME NEW p \in Clients, NEW c \in CID, Opens(p, c) PROVE TornInv'
  <2>1. WillWrite(c, "tmp")'
    BY <1>0, <1>1 DEF Opens, OpenTmp, WillWrite
  <2>2. ASSUME NEW d \in CID, NEW w \in Handles, WillWrite(d, w) PROVE WillWrite(d, w)'
    BY <1>0, <1>1, <2>2 DEF Opens, OpenTmp, WillWrite
  <2>3. file' = file /\ tmp' = [tmp EXCEPT ![c] = "partial"]
    BY <1>1 DEF Opens, OpenTmp
  <2> QED
    BY <1>0, <1>t, <1>u, <2>1, <2>2, <2>3 DEF TornInv, Handles
<1>2. ASSUME NEW p \in Clients, Write(p) PROVE TornInv'
  <2>1. ASSUME NEW d \in CID, NEW w \in Handles, WillWrite(d, w), d # cid[p] \/ fd[p] # w
        PROVE  WillWrite(d, w)'
    <3>1. PICK q \in Procs : pc[q] = "write" /\ cid[q] = d /\ fd[q] = w
      BY <2>1 DEF WillWrite
    <3>2. q # p
      BY <2>1, <3>1
    <3> QED
      BY <1>0, <1>2, <3>1, <3>2 DEF Write, Goto, WillWrite
  <2>2. /\ fd[p] = "tmp" => tmp'[cid[p]] = "full" /\ file' = file
        /\ fd[p] = "file" => file'[cid[p]] = "full" /\ tmp' = tmp
        /\ fd[p] \notin {"tmp", "file"} => file' = file /\ tmp' = tmp
        /\ \A d \in CID : d # cid[p] => file'[d] = file[d] /\ tmp'[d] = tmp[d]
    BY <1>0, <1>2 DEF Write
  <2>3. ASSUME NEW d \in CID, file'[d] = "partial" PROVE WillWrite(d, "file")'
    <3>1. file[d] = "partial" /\ (d # cid[p] \/ fd[p] # "file")
      BY <1>0, <2>2, <2>3
    <3> QED
      BY <3>1, <1>t, <2>1 DEF TornInv, Handles
  <2>4. ASSUME NEW d \in CID, tmp'[d] = "partial" PROVE WillWrite(d, "tmp")'
    <3>1. tmp[d] = "partial" /\ (d # cid[p] \/ fd[p] # "tmp")
      BY <1>0, <2>2, <2>4
    <3> QED
      BY <3>1, <2>1 DEF TornInv, Handles
  <2> QED
    BY <1>u, <2>3, <2>4 DEF TornInv
<1>3. ASSUME NEW p \in Clients, Rename(p) PROVE TornInv'
  <2>1. PICK c \in CID :
        /\ file' = [file EXCEPT ![c] = tmp[c]] /\ tmp' = [tmp EXCEPT ![c] = "none"]
        /\ fd' = Renamed(c) /\ cid' = cid
        /\ \A q \in Procs : pc[q] = "write" => pc'[q] = "write"
    BY <1>0, <1>3 DEF Rename, Goto
  <2>2. ASSUME NEW d \in CID, NEW w \in Handles, WillWrite(d, w), d # c
        PROVE  WillWrite(d, w)'
    BY <1>0, <2>1, <2>2 DEF WillWrite, Renamed
  <2>3. WillWrite(c, "tmp") => WillWrite(c, "file")'
    BY <1>0, <2>1 DEF WillWrite, Renamed
  <2>4. ASSUME NEW d \in CID, file'[d] = "partial" PROVE WillWrite(d, "file")'
    <3>1. CASE d = c
      <4>1. tmp[c] = "partial"
        BY <1>0, <2>1, <2>4, <3>1
      <4> QED
        BY <2>1, <2>3, <3>1, <4>1 DEF TornInv
    <3>2. CASE d # c
      <4>1. file[d] = "partial"
        <5>1. file \in [CID -> Contents] /\ file' = [file EXCEPT ![c] = tmp[c]]
          BY <1>0, <2>1
        <5> QED
          BY <5>1, <2>4, <3>2
      <4> QED
        BY <1>t, <2>2, <3>2, <4>1 DEF TornInv, Handles
    <3> QED
      BY <3>1, <3>2
  <2>5. ASSUME NEW d \in CID, tmp'[d] = "partial" PROVE WillWrite(d, "tmp")'
    <3>1. d # c /\ tmp[d] = "partial"
      BY <1>0, <2>1, <2>5
    <3> QED
      BY <2>2, <3>1 DEF TornInv, Handles
  <2> QED
    BY <1>u, <2>4, <2>5 DEF TornInv
<1>4. ASSUME NEW g \in Collectors, GcRemoveFile(g) PROVE TornInv'
  <2>1. PICK c \in Garbage(g) :
          file' = [file EXCEPT ![c] = "none"] /\ fd' = Unlinked(c)
          /\ cid' = [cid EXCEPT ![g] = c]
    BY <1>4 DEF GcRemoveFile
  <2>2. tmp' = tmp /\ \A q \in Procs : pc[q] = "write" => pc'[q] = "write" /\ q # g
    BY <1>0, <1>4 DEF GcRemoveFile, Goto
  <2>3. ASSUME NEW d \in CID, NEW w \in Handles, WillWrite(d, w), d # c \/ w = "tmp"
        PROVE  WillWrite(d, w)'
    BY <1>0, <2>1, <2>2, <2>3 DEF WillWrite, Unlinked
  <2> QED
    BY <1>0, <1>t, <1>u, <2>1, <2>2, <2>3 DEF TornInv, Handles
<1>5. CASE ~FileStep
  <2>1. ASSUME NEW d \in CID, NEW w \in Handles, WillWrite(d, w) PROVE WillWrite(d, w)'
    BY <1>5, <2>1, Quiet DEF WillWrite, files
  <2> QED
    BY <1>5, <1>t, <1>u, <2>1, Quiet DEF TornInv, Handles, files
<1> QED
  BY <1>1, <1>2, <1>3, <1>4, <1>5 DEF FileStep

(***************************************************************************)
(* While the process does not crash, a truncated file is one that some     *)
(* goroutine still holds open and will write: it heals by itself, whatever *)
(* is written, collected and cancelled meanwhile.                          *)
(***************************************************************************)
THEOREM HealsUnlessCrash == DiskSpec /\ [][~Crash]_dvars => []TornWhileWritten
<1>1. DiskInit => TornInv
  BY DEF DiskInit, TornInv, TornWhileWritten
<1>2. TornInv => TornWhileWritten
  BY DEF TornInv
<1>3. TypeOK /\ TornInv /\ [DiskNext]_dvars /\ [~Crash]_dvars => TornInv'
  <2>1. TypeOK /\ UNCHANGED dvars => ~Crash
    BY DEF TypeOK, Crash, dvars
  <2> QED
    BY <2>1, TornNext
<1> QED
  BY <1>1, <1>2, <1>3, TypeCorrect, PTL DEF DiskSpec

\* So it is when nothing fails at all, and with one client whatever crashes.
THEOREM TornFilesHeal ==
  ASSUME MaxFaults = 0 \/ \A p, q \in Clients : p = q
  PROVE  DiskSpec => []TornWhileWritten
<1>1. CASE MaxFaults = 0
  <2>1. TypeOK => ~Crash
    BY <1>1 DEF TypeOK, Crash
  <2>2. TypeOK => [~Crash]_dvars
    BY <2>1
  <2> QED
    BY <2>2, HealsUnlessCrash, TypeCorrect, PTL
<1>2. CASE \A p, q \in Clients : p = q
  <2>1. CommittedWhole => TornWhileWritten
    BY DEF CommittedWhole, TornWhileWritten
  <2> QED
    BY <1>2, <2>1, CommittedFilesAreWhole, PTL
<1> QED
  BY <1>1, <1>2

-----------------------------------------------------------------------------
\* Facts about block graphs

LEMMA ReachTyped == ASSUME NEW R, NEW V PROVE Reach(R, V) \in SUBSET CID
  BY DEF Reach

\* Reach is the least set that contains the roots and is closed.
LEMMA ReachLeast ==
  ASSUME NEW R, NEW V, NEW S \in SUBSET CID, R \subseteq S, ClosedUnder(S, V)
  PROVE  Reach(R, V) \subseteq S
  BY DEF Reach

LEMMA ReachRoots == ASSUME NEW R \in SUBSET CID, NEW V PROVE R \subseteq Reach(R, V)
  BY DEF Reach

LEMMA ReachClosed ==
  ASSUME NEW R, NEW V, NEW c \in Reach(R, V), c \in V
  PROVE  ChildCIDs(c) \subseteq Reach(R, V)
<1>1. c \in CID /\ ChildCIDs(c) \in SUBSET CID
  BY ReachTyped, ChildrenTyped
<1>2. SUFFICES ASSUME NEW d \in ChildCIDs(c), NEW S \in SUBSET CID,
                      R \subseteq S, ClosedUnder(S, V)
               PROVE  d \in S
  BY <1>1 DEF Reach
<1>3. c \in S
  BY <1>2 DEF Reach
<1> QED
  BY <1>2, <1>3 DEF ClosedUnder

-----------------------------------------------------------------------------
\* What a collection notes as held

(***************************************************************************)
(* What a collection takes for readable ever since its snapshot is so:     *)
(* whoever makes a block unreadable takes it out, and no other step does.  *)
(***************************************************************************)
HeldIsStored == \A g \in Collectors : job[g].held \subseteq Stored

\* The parts of a snapshot that a step may change.
LEMMA LostParts ==
  ASSUME job \in [Collectors -> Jobs], NEW D, NEW g \in Collectors
  PROVE  /\ Lost(D)[g].rec = job[g].rec /\ Lost(D)[g].dir = job[g].dir
         /\ Lost(D)[g].keys = job[g].keys /\ Lost(D)[g].held = job[g].held \ D
<1>1. job[g] \in Jobs
  OBVIOUS
<1> QED
  BY <1>1 DEF Lost, Jobs

\* When nothing but blocks that the snapshots lose becomes unreadable.
LEMMA HeldKept ==
  ASSUME HeldIsStored, job \in [Collectors -> Jobs],
         NEW D, job' = Lost(D), Stored \ D \subseteq Stored'
  PROVE  HeldIsStored'
<1>1. ASSUME NEW g \in Collectors PROVE job'[g].held \subseteq Stored'
  <2>1. job'[g].held = job[g].held \ D
    BY LostParts
  <2> QED
    BY <2>1 DEF HeldIsStored
<1> QED
  BY <1>1 DEF HeldIsStored

\* A collection's own snapshot changes, to what can be read or is noted already.
LEMMA HeldByOne ==
  ASSUME HeldIsStored, job \in [Collectors -> Jobs], NEW g \in Collectors, NEW j,
         job' = [job EXCEPT ![g] = j], Stored \subseteq Stored',
         j.held \subseteq Stored \/ j.held \subseteq job[g].held
  PROVE  HeldIsStored'
<1>1. ASSUME NEW h \in Collectors PROVE job'[h].held \subseteq Stored'
  BY <1>1 DEF HeldIsStored
<1> QED
  BY <1>1 DEF HeldIsStored

LEMMA HeldNext == TypeOK /\ HeldIsStored /\ [DiskNext]_dvars => HeldIsStored'
<1> SUFFICES ASSUME TypeOK, HeldIsStored, [DiskNext]_dvars PROVE HeldIsStored'
  OBVIOUS
<1> USE DEF files, gcVars
<1>0. /\ job \in [Collectors -> Jobs] /\ file \in [CID -> Contents] /\ index \subseteq CID
      /\ NoJob.held = {} /\ NoJob \in Jobs
      /\ \A p \in Procs : cid[p] \in CID
      /\ \A p \in Clients : p \in Procs
      /\ \A g \in Collectors : g \in Procs
  BY DEF TypeOK, NoJob, Jobs, Procs
<1>1. ASSUME UNCHANGED <<file, index, job>> PROVE HeldIsStored'
  BY <1>1 DEF HeldIsStored, Stored
<1>2. ASSUME UNCHANGED job, Stored \subseteq Stored' PROVE HeldIsStored'
  BY <1>2 DEF HeldIsStored
<1>3. ASSUME NEW p \in Clients, PutStep(p) PROVE HeldIsStored'
  <2>1. CASE Write(p)
    <3>1. Stored \subseteq Stored' /\ UNCHANGED job
      BY <1>0, <2>1 DEF Write, Stored
    <3> QED
      BY <1>2, <3>1
  <2>2. CASE Rename(p)
    <3> DEFINE D == IF tmp[cid[p]] = "partial" THEN {cid[p]} ELSE {}
    <3>1. job' = Lost(D) /\ file' = [file EXCEPT ![cid[p]] = tmp[cid[p]]] /\ index' = index
      BY <2>2 DEF Rename
    <3>2. tmp[cid[p]] \in {"partial", "full"} /\ cid[p] \in CID
      BY <1>0, <2>2 DEF Rename, TypeOK, Contents
    <3>3. Stored \ D \subseteq Stored'
      BY <1>0, <3>1, <3>2 DEF Stored
    <3> HIDE DEF D
    <3> QED
      BY <1>0, <3>1, <3>3, HeldKept
  <2>3. CASE IndexPut(p)
    <3>1. Stored \subseteq Stored' /\ UNCHANGED job
      BY <1>0, <2>3 DEF IndexPut, Stored
    <3> QED
      BY <1>2, <3>1
  <2>4. CASE RenameFails(p) \/ Announce(p)
    BY <1>1, <2>4 DEF RenameFails, Announce
  <2> QED
    BY <1>3, <2>1, <2>2, <2>3, <2>4 DEF PutStep
<1>4. ASSUME NEW p \in Clients, NEW c \in CID, Call(p, c) PROVE HeldIsStored'
  BY <1>1, <1>4 DEF Call, PutBlock, OpenTmp, GetBlock, Pin, PinDirect, PinSoft, Unpin,
                    StartPinCall
<1>5. ASSUME NEW p \in Clients, GetStep(p) \/ PinStep(p) PROVE HeldIsStored'
  BY <1>1, <1>5 DEF GetStep, ReadFile, GetSoft, PutSoft, FetchFails, Fetch, OpenTmp,
                    FetchNotStored, PinStep, SetHardPin, SetSoftPin
<1>6. ASSUME NEW c \in CID, SoftPinExpires(c) PROVE HeldIsStored'
  BY <1>1, <1>6 DEF SoftPinExpires
<1>7. ASSUME NEW g \in Collectors, GcHardPins(g) \/ GcStep(g) \/ GcCancel(g)
      PROVE  HeldIsStored'
  <2>1. CASE GcHardPins(g) \/ GcSoftPins(g) \/ GcKeys(g)
    <3>1. Stored' = Stored
      BY <2>1 DEF GcHardPins, GcSoftPins, GcKeys, Stored
    <3>2. PICK j : /\ job' = [job EXCEPT ![g] = j]
                   /\ j.held \subseteq Stored \/ j.held \subseteq job[g].held
      <4>1. [NoJob EXCEPT !.rec = {c \in CID : hardPins[c] = "r"},
                          !.dir = {c \in CID : hardPins[c] = "d"}].held = {}
        BY DEF NoJob
      <4>2. WithSoftPins(job[g]).held = job[g].held /\ WithKeys(job[g]).held = Stored
        BY <1>0 DEF WithSoftPins, WithKeys, Jobs
      <4> QED
        BY <2>1, <4>1, <4>2 DEF GcHardPins, GcSoftPins, GcKeys
    <3> QED
      BY <1>0, <3>1, <3>2, HeldByOne
  <2>2. CASE GcPop(g) \/ GcLookup(g) \/ GcExpand(g) \/ GcStartSweep(g) \/ ReadFile(g)
               \/ GetSoft(g) \/ PutSoft(g) \/ GcUnannounce(g) \/ GcCancel(g)
    BY <1>1, <2>2 DEF GcPop, GcLookup, GcExpand, GcStartSweep, ReadFile, GetSoft, PutSoft,
                      GcUnannounce, GcCancel
  <2>3. CASE GcRemoveFile(g)
    <3>1. PICK c \in Garbage(g) : job' = Lost({c}) /\ file' = [file EXCEPT ![c] = "none"]
      BY <2>3 DEF GcRemoveFile
    <3>2. Stored \ {c} \subseteq Stored'
      BY <1>0, <2>3, <3>1 DEF Stored, GcRemoveFile
    <3> QED
      BY <1>0, <3>1, <3>2, HeldKept
  <2>4. CASE GcDeleteKey(g)
    <3> DEFINE d == cid[g]
    <3>1. job' = [Lost({d}) EXCEPT ![g] = Swept(Lost({d})[g], d)] /\ Stored \ {d} \subseteq Stored'
      BY <2>4 DEF GcDeleteKey, Stored
    <3>2. Lost({d}) \in [Collectors -> Jobs]
      BY <1>0, LostTyped
    <3> HIDE DEF d
    <3>3. ASSUME NEW h \in Collectors PROVE job'[h].held \subseteq Stored'
      <4>1. Lost({d})[h].held = job[h].held \ {d}
        BY <1>0, LostParts
      <4>2. Swept(Lost({d})[g], d).held = Lost({d})[g].held
        BY <3>2 DEF Swept, Jobs
      <4>3. job'[h].held = Lost({d})[h].held
        BY <3>1, <3>2, <4>2
      <4> QED
        BY <3>1, <4>1, <4>3 DEF HeldIsStored
    <3> QED
      BY <3>3 DEF HeldIsStored
  <2>5. CASE GcReturn(g) \/ GcAbort(g)
    <3>1. Quit(g)
      BY <2>5 DEF GcReturn, GcAbort
    <3>2. job' = [job EXCEPT ![g] = NoJob] /\ Stored' = Stored
      BY <3>1 DEF Quit, Stored
    <3>3. NoJob.held \subseteq job[g].held
      BY <1>0
    <3> QED
      BY <1>0, <3>2, <3>3, HeldByOne
  <2> QED
    BY <1>7, <2>1, <2>2, <2>3, <2>4, <2>5 DEF GcStep
<1>8. CASE Crash
  BY <1>0, <1>8 DEF Crash, HeldIsStored
<1>9. CASE UNCHANGED dvars
  BY <1>1, <1>9 DEF dvars
<1> QED
  BY <1>3, <1>4, <1>5, <1>6, <1>7, <1>8, <1>9 DEF DiskNext, ClientStep

-----------------------------------------------------------------------------
\* The mark loop

\* Between the pop of a block and the push of its children.
VisitPlaces == {"lookup", "readFile", "getSoft", "putSoft", "expand"}

Collecting == {"mark", "sweep", "deleteKey", "unannounce"} \cup VisitPlaces

Visiting(g, c) == pc[g] \in VisitPlaces /\ cid[g] = c

(***************************************************************************)
(* The tri-colour invariant of a mark loop without a lock: what is marked, *)
(* can be read ever since the snapshot and is no direct root has its       *)
(* children marked or stacked, unless it is the block being visited; and   *)
(* nothing else than descendants of the roots is marked.                   *)
(***************************************************************************)
MarkSound(g) ==
  /\ job[g].dir \subseteq live[g]
  /\ job[g].rec \subseteq live[g] \cup stack[g]
  /\ live[g] \subseteq MayKeep(job[g])
  /\ stack[g] \subseteq Reach(job[g].rec, CID)
  /\ pc[g] \in VisitPlaces => cid[g] \in Reach(job[g].rec, CID)
  /\ g \notin cancelled =>
       \A c \in (live[g] \cap job[g].held) \ job[g].dir :
         Visiting(g, c) \/ ChildCIDs(c) \subseteq live[g] \cup stack[g]

MarkInv == \A g \in Collectors : pc[g] \in Collecting => MarkSound(g)

(***************************************************************************)
(* A step that leaves a collection's own variables alone, but for what its *)
(* snapshot loses and what its sweep has come to.                          *)
(***************************************************************************)
LeavesMark(g) ==
  /\ job'[g].rec = job[g].rec /\ job'[g].dir = job[g].dir
  /\ job'[g].held \subseteq job[g].held
  /\ live'[g] = live[g] /\ stack'[g] = stack[g]
  /\ g \notin cancelled' => g \notin cancelled

LEMMA MarkFrame ==
  ASSUME NEW g \in Collectors, MarkSound(g), LeavesMark(g), pc'[g] = pc[g], cid'[g] = cid[g]
  PROVE  MarkSound(g)'
  BY DEF MarkSound, LeavesMark, MayKeep, Visiting

\* The collection goes on with the block that it visits.
LEMMA MarkVisits ==
  ASSUME NEW g \in Collectors, MarkSound(g), LeavesMark(g), cid'[g] = cid[g],
         pc[g] \in VisitPlaces, pc'[g] \in VisitPlaces
  PROVE  MarkSound(g)'
  BY DEF MarkSound, LeavesMark, MayKeep, Visiting

\* The collection is done with the block, which was not there or has no use
\* for its children, or it visits none.
LEMMA MarkLeaves ==
  ASSUME NEW g \in Collectors, MarkSound(g), LeavesMark(g),
         pc'[g] \notin VisitPlaces,
         pc[g] \in VisitPlaces => cid[g] \notin job[g].held \/ g \in cancelled
  PROVE  MarkSound(g)'
  BY DEF MarkSound, LeavesMark, MayKeep, Visiting

LEMMA MarkBegins ==
  ASSUME TypeOK, NEW g \in Collectors, GcKeys(g)
  PROVE  MarkSound(g)'
<1>1. /\ job' = [job EXCEPT ![g] = WithKeys(job[g])] /\ job[g] \in Jobs /\ pc'[g] = "mark"
      /\ live'[g] = job[g].dir /\ stack'[g] = job[g].rec
  BY DEF GcKeys, TypeOK, Goto, Procs
<1>2. job'[g].dir = job[g].dir /\ job'[g].rec = job[g].rec /\ job[g].rec \in SUBSET CID
  <2>1. /\ WithKeys(job[g]).dir = job[g].dir /\ WithKeys(job[g]).rec = job[g].rec
        /\ job[g].rec \in SUBSET CID
    BY <1>1 DEF WithKeys, Jobs
  <2> QED
    BY <1>1, <2>1 DEF TypeOK
<1>3. job'[g].rec \subseteq Reach(job'[g].rec, CID)
  BY <1>2, ReachRoots
<1> QED
  BY <1>1, <1>2, <1>3 DEF MarkSound, MayKeep, VisitPlaces, Visiting

LEMMA MarkPops ==
  ASSUME TypeOK, NEW g \in Collectors, MarkSound(g), GcPop(g)
  PROVE  MarkSound(g)'
<1>1. PICK c \in stack[g] :
        /\ stack' = [stack EXCEPT ![g] = stack[g] \ {c}]
        /\ live' = [live EXCEPT ![g] = live[g] \cup {c}]
        /\ IF c \in live[g] THEN UNCHANGED <<cid, pc>>
           ELSE cid' = [cid EXCEPT ![g] = c] /\ Goto(g, "lookup")
  BY DEF GcPop, Popped
<1>2. stack'[g] = stack[g] \ {c} /\ live'[g] = live[g] \cup {c}
  BY <1>1 DEF TypeOK
<1>3. UNCHANGED <<job, cancelled>> /\ pc[g] = "mark" /\ pc[g] \notin VisitPlaces
  BY DEF GcPop, At, VisitPlaces
<1>4. c \in Reach(job[g].rec, CID)
  BY DEF MarkSound
<1>5. c \in live[g] => UNCHANGED <<cid, pc>>
  BY <1>1
<1>6. c \notin live[g] => pc'[g] = "lookup" /\ cid'[g] = c
  BY <1>1 DEF TypeOK, Goto, Procs
<1>7. ASSUME g \notin cancelled, NEW d \in (live'[g] \cap job[g].held) \ job[g].dir
      PROVE  Visiting(g, d)' \/ ChildCIDs(d) \subseteq live'[g] \cup stack'[g]
  <2>1. CASE d \in live[g]
    <3>1. ChildCIDs(d) \subseteq live[g] \cup stack[g]
      BY <2>1, <1>3, <1>7 DEF MarkSound, Visiting
    <3> QED
      BY <3>1, <1>2
  <2>2. CASE d \notin live[g]
    <3>1. d = c
      BY <2>2, <1>2, <1>7
    <3> QED
      BY <3>1, <2>2, <1>6 DEF Visiting, VisitPlaces
  <2> QED
    BY <2>1, <2>2
<1>8. pc'[g] \in VisitPlaces => cid'[g] \in Reach(job[g].rec, CID)
  BY <1>3, <1>4, <1>5, <1>6
<1>9. MarkSound(g)
  OBVIOUS
<1> QED
  BY <1>2, <1>3, <1>4, <1>7, <1>8, <1>9 DEF MarkSound, MayKeep

LEMMA MarkExpands ==
  ASSUME TypeOK, NEW g \in Collectors, MarkSound(g), GcExpand(g)
  PROVE  MarkSound(g)'
<1>1. /\ stack'[g] = stack[g] \cup (ChildCIDs(cid[g]) \ live[g])
      /\ UNCHANGED <<cid, job, cancelled, live>>
      /\ pc'[g] \notin VisitPlaces /\ pc[g] \in VisitPlaces
  BY DEF GcExpand, Pushed, TypeOK, Goto, Procs, At, VisitPlaces
<1>2. cid[g] \in Reach(job[g].rec, CID) /\ cid[g] \in CID
  BY <1>1 DEF MarkSound, TypeOK, Procs
<1>3. ChildCIDs(cid[g]) \subseteq Reach(job[g].rec, CID)
  BY <1>2, ReachClosed
<1>4. ASSUME g \notin cancelled, NEW d \in (live[g] \cap job[g].held) \ job[g].dir
      PROVE  ChildCIDs(d) \subseteq live[g] \cup stack'[g]
  BY <1>1, <1>4 DEF MarkSound, Visiting
<1> QED
  BY <1>1, <1>3, <1>4 DEF MarkSound, MayKeep

(***************************************************************************)
(* GetBlockLocal of a block that could be read ever since the snapshot     *)
(* succeeds, although other goroutines write, collect and read meanwhile.  *)
(***************************************************************************)
LEMMA MarkReads ==
  ASSUME TypeOK, HeldIsStored, NEW g \in Collectors, MarkSound(g),
         GcLookup(g) \/ ReadFile(g) \/ GetSoft(g) \/ PutSoft(g)
  PROVE  MarkSound(g)'
<1>1. /\ LeavesMark(g) /\ cid' = cid /\ pc[g] \in VisitPlaces
  BY DEF LeavesMark, GcLookup, Lookup, ReadFile, GetSoft, PutSoft, gcVars, At, VisitPlaces,
         TypeOK
<1>2. g \in Procs /\ g \in Collectors /\ g \notin Clients
  BY DiskStoreAssumption DEF Procs
<1>3. ASSUME NEW place, Goto(g, place) PROVE pc'[g] = place
  BY <1>2, <1>3 DEF Goto, TypeOK
<1>4. CASE GcLookup(g)
  <2>1. CASE g \in cancelled
    <3>1. pc'[g] = "mark"
      BY <1>2, <1>3, <1>4, <2>1 DEF GcLookup, AfterMiss
    <3> QED
      BY <1>1, <2>1, <3>1, MarkLeaves DEF VisitPlaces
  <2>2. CASE g \notin cancelled /\ cid[g] \in index
    <3>1. pc'[g] = "readFile"
      BY <1>3, <1>4, <2>2 DEF GcLookup, Lookup
    <3> QED
      BY <1>1, <3>1, MarkVisits DEF VisitPlaces
  <2>3. CASE g \notin cancelled /\ cid[g] \notin index
    <3>1. pc'[g] = "mark"
      BY <1>2, <1>3, <1>4, <2>3 DEF GcLookup, Lookup, AfterMiss
    <3>2. cid[g] \notin job[g].held
      BY <2>3 DEF HeldIsStored, Stored
    <3> QED
      BY <1>1, <3>1, <3>2, MarkLeaves DEF VisitPlaces
  <2> QED
    BY <2>1, <2>2, <2>3
<1>5. CASE ReadFile(g)
  <2>1. CASE file[cid[g]] = "full"
    <3>1. pc'[g] = "getSoft"
      BY <1>3, <1>5, <2>1 DEF ReadFile
    <3> QED
      BY <1>1, <3>1, MarkVisits DEF VisitPlaces
  <2>2. CASE file[cid[g]] # "full"
    <3>1. pc'[g] = "mark"
      BY <1>2, <1>3, <1>5, <2>2 DEF ReadFile, AfterMiss
    <3>2. cid[g] \notin job[g].held
      BY <2>2 DEF HeldIsStored, Stored
    <3> QED
      BY <1>1, <3>1, <3>2, MarkLeaves DEF VisitPlaces
  <2> QED
    BY <2>1, <2>2
<1>6. CASE GetSoft(g) \/ PutSoft(g)
  <2>1. pc'[g] \in {"putSoft", "expand"}
    BY <1>2, <1>3, <1>6 DEF GetSoft, PutSoft, AfterHit
  <2> QED
    BY <1>1, <2>1, MarkVisits DEF VisitPlaces
<1> QED
  BY <1>4, <1>5, <1>6

\* The sweep leaves the marks alone.
LEMMA MarkSwept ==
  ASSUME TypeOK, NEW g \in Collectors, MarkSound(g),
         GcStartSweep(g) \/ GcRemoveFile(g) \/ GcDeleteKey(g) \/ GcUnannounce(g)
  PROVE  MarkSound(g)'
<1>1. pc[g] \notin VisitPlaces /\ pc'[g] \notin VisitPlaces
  BY DEF GcStartSweep, MarkDone, GcRemoveFile, GcDeleteKey, GcUnannounce, At, Goto, TypeOK,
         Procs, VisitPlaces
<1>2. LeavesMark(g)
  <2>0. job \in [Collectors -> Jobs]
    BY DEF TypeOK
  <2>1. CASE GcStartSweep(g) \/ GcUnannounce(g)
    BY <2>1 DEF GcStartSweep, GcUnannounce, gcVars, LeavesMark
  <2>2. CASE GcRemoveFile(g)
    <3>1. PICK c : job' = Lost({c})
      BY <2>2 DEF GcRemoveFile
    <3> QED
      BY <2>0, <2>2, <3>1, LostParts DEF GcRemoveFile, LeavesMark
  <2>3. CASE GcDeleteKey(g)
    <3> DEFINE d == cid[g]
    <3>1. job' = [Lost({d}) EXCEPT ![g] = Swept(Lost({d})[g], d)]
      BY <2>3 DEF GcDeleteKey
    <3> HIDE DEF d
    <3>2. Lost({d}) \in [Collectors -> Jobs]
      BY <2>0, LostTyped
    <3>3. /\ Lost({d})[g].rec = job[g].rec /\ Lost({d})[g].dir = job[g].dir
          /\ Lost({d})[g].held = job[g].held \ {d}
      BY <2>0, LostParts
    <3>4. job'[g] = Swept(Lost({d})[g], d)
      BY <3>1, <3>2
    <3>5. ASSUME NEW j \in Jobs
          PROVE  Swept(j, d).rec = j.rec /\ Swept(j, d).dir = j.dir /\ Swept(j, d).held = j.held
      BY DEF Swept, Jobs
    <3>6. /\ job'[g].rec = job[g].rec /\ job'[g].dir = job[g].dir
          /\ job'[g].held \subseteq job[g].held
      <4>1. Lost({d})[g] \in Jobs
        BY <3>2
      <4>2. /\ job'[g].rec = Lost({d})[g].rec /\ job'[g].dir = Lost({d})[g].dir
            /\ job'[g].held = Lost({d})[g].held
        BY <3>4, <3>5, <4>1
      <4> QED
        BY <3>3, <4>2
    <3>7. /\ live'[g] = live[g] /\ stack'[g] = stack[g]
          /\ g \notin cancelled' => g \notin cancelled
      BY <2>3 DEF GcDeleteKey
    <3> QED
      BY <3>6, <3>7 DEF LeavesMark
  <2> QED
    BY <2>1, <2>2, <2>3
<1> QED
  BY <1>1, <1>2, MarkLeaves

(***************************************************************************)
(* The steps of the clients and of the other collections.                  *)
(***************************************************************************)
Aside(g) == LeavesMark(g) /\ pc'[g] = pc[g] /\ cid'[g] = cid[g]

\* A step of the goroutine q, which may make every snapshot lose blocks.
LEMMA StepAside ==
  ASSUME TypeOK, NEW g \in Collectors, NEW q, q # g,
         \A p \in Procs : p # q => pc'[p] = pc[p] /\ cid'[p] = cid[p],
         \A h \in Collectors :
           h # q => /\ live'[h] = live[h] /\ stack'[h] = stack[h]
                    /\ job'[h] = job[h] \/ \E D : job'[h] = Lost(D)[h],
         cancelled \ {q} \subseteq cancelled'
  PROVE  Aside(g)
<1>1. job \in [Collectors -> Jobs] /\ g \in Procs
  BY DEF TypeOK, Procs
<1>2. /\ job'[g].rec = job[g].rec /\ job'[g].dir = job[g].dir
      /\ job'[g].held \subseteq job[g].held
  <2>1. CASE job'[g] = job[g]
    BY <2>1
  <2>2. CASE \E D : job'[g] = Lost(D)[g]
    <3>1. PICK D : job'[g] = Lost(D)[g]
      BY <2>2
    <3> QED
      BY <1>1, <3>1, LostParts
  <2> QED
    BY <2>1, <2>2
<1> QED
  BY <1>1, <1>2 DEF Aside, LeavesMark

LEMMA ClientAside ==
  ASSUME TypeOK, NEW g \in Collectors, NEW p \in Clients,
         (\E c \in CID : Call(p, c)) \/ ClientStep(p)
  PROVE  Aside(g)
<1> USE DEF gcVars
<1>0. /\ pc \in [Procs -> ClientPlaces \cup CollectorPlaces] /\ cid \in [Procs -> CID]
      /\ p # g
  BY DiskStoreAssumption DEF TypeOK
<1>1. UNCHANGED <<live, stack, cancelled>> /\ \E D : UNCHANGED job \/ job' = Lost(D)
  BY DEF Call, PutBlock, GetBlock, Pin, PinDirect, PinSoft, Unpin, StartPinCall, ClientStep,
         PutStep, Write, Rename, RenameFails, IndexPut, Announce, GetStep, ReadFile, GetSoft,
         PutSoft, FetchFails, Fetch, FetchNotStored, PinStep, SetHardPin, SetSoftPin
<1>2. /\ \E c : cid' = cid \/ cid' = [cid EXCEPT ![p] = c]
      /\ \E place : pc' = [pc EXCEPT ![p] = place]
  BY DEF Call, PutBlock, GetBlock, Lookup, Pin, PinDirect, PinSoft, Unpin, StartPinCall,
         ClientStep, PutStep, Write, Rename, RenameFails, IndexPut, Announce, GetStep, ReadFile,
         GetSoft, PutSoft, FetchFails, Fetch, FetchNotStored, PinStep, SetHardPin, SetSoftPin,
         AfterHit, AfterMiss, Goto
<1>3. \A q \in Procs : q # p => pc'[q] = pc[q] /\ cid'[q] = cid[q]
  BY <1>0, <1>2
<1> QED
  BY <1>0, <1>1, <1>3, StepAside

LEMMA CollectorAside ==
  ASSUME TypeOK, NEW g \in Collectors, NEW h \in Collectors, h # g,
         GcHardPins(h) \/ GcStep(h) \/ GcCancel(h)
  PROVE  Aside(g)
<1> USE DEF gcVars
<1>0. /\ pc \in [Procs -> ClientPlaces \cup CollectorPlaces] /\ cid \in [Procs -> CID]
      /\ job \in [Collectors -> Jobs]
      /\ live \in [Collectors -> SUBSET CID] /\ stack \in [Collectors -> SUBSET CID]
  BY DEF TypeOK
<1>1. /\ \E c : cid' = cid \/ cid' = [cid EXCEPT ![h] = c]
      /\ \E place : pc' = pc \/ pc' = [pc EXCEPT ![h] = place]
      /\ \E s : live' = live \/ live' = [live EXCEPT ![h] = s]
      /\ \E s : stack' = stack \/ stack' = [stack EXCEPT ![h] = s]
      /\ cancelled \ {h} \subseteq cancelled'
  <2>1. CASE GcHardPins(h) \/ GcSoftPins(h) \/ GcKeys(h)
    BY <2>1 DEF GcHardPins, GcSoftPins, GcKeys, Goto
  <2>2. CASE GcPop(h)
    BY <2>2 DEF GcPop, Goto
  <2>3. CASE GcLookup(h) \/ ReadFile(h) \/ GetSoft(h) \/ PutSoft(h)
    BY <2>3 DEF GcLookup, Lookup, ReadFile, GetSoft, PutSoft, AfterHit, AfterMiss, Goto
  <2>4. CASE GcExpand(h) \/ GcStartSweep(h) \/ GcCancel(h)
    BY <2>4 DEF GcExpand, GcStartSweep, GcCancel, Goto
  <2>5. CASE GcRemoveFile(h) \/ GcDeleteKey(h) \/ GcUnannounce(h)
    BY <2>5 DEF GcRemoveFile, GcDeleteKey, GcUnannounce, Goto
  <2>6. CASE GcReturn(h) \/ GcAbort(h)
    BY <2>6 DEF GcReturn, GcAbort, Quit, Goto
  <2> QED
    BY <2>1, <2>2, <2>3, <2>4, <2>5, <2>6 DEF GcStep
<1>2. \E D : \/ UNCHANGED job \/ job' = Lost(D)
             \/ \E j : job' = [job EXCEPT ![h] = j] \/ job' = [Lost(D) EXCEPT ![h] = j]
  <2>1. CASE GcRemoveFile(h) \/ GcDeleteKey(h)
    BY <2>1 DEF GcRemoveFile, GcDeleteKey
  <2>2. CASE ~GcRemoveFile(h) /\ ~GcDeleteKey(h)
    BY <2>2 DEF GcHardPins, GcStep, GcCancel, GcSoftPins, GcKeys, GcPop, GcLookup, GcExpand,
         GcStartSweep, ReadFile, GetSoft, PutSoft, GcUnannounce, GcReturn, GcAbort, Quit
  <2> QED
    BY <2>1, <2>2
<1>3. \A p \in Procs : p # h => pc'[p] = pc[p] /\ cid'[p] = cid[p]
  BY <1>0, <1>1
<1>4. ASSUME NEW k \in Collectors, k # h
      PROVE  /\ live'[k] = live[k] /\ stack'[k] = stack[k]
             /\ job'[k] = job[k] \/ \E D : job'[k] = Lost(D)[k]
  <2>1. live'[k] = live[k] /\ stack'[k] = stack[k]
    BY <1>0, <1>1, <1>4
  <2>2. job'[k] = job[k] \/ \E D : job'[k] = Lost(D)[k]
    <3>1. \A D : Lost(D) \in [Collectors -> Jobs]
      BY <1>0, LostTyped
    <3> QED
      BY <1>0, <1>2, <1>4, <3>1
  <2> QED
    BY <2>1, <2>2
<1> QED
  BY <1>1, <1>3, <1>4, StepAside

LEMMA MarkNext == TypeOK /\ HeldIsStored /\ MarkInv /\ [DiskNext]_dvars => MarkInv'
<1> SUFFICES ASSUME TypeOK, HeldIsStored, MarkInv, [DiskNext]_dvars,
                    NEW g \in Collectors, pc'[g] \in Collecting
             PROVE  MarkSound(g)'
  BY DEF MarkInv
<1>0. /\ pc[g] \in Collecting => MarkSound(g)
      /\ pc \in [Procs -> ClientPlaces \cup CollectorPlaces] /\ g \in Procs
  BY DEF MarkInv, TypeOK, Procs
<1>1. ASSUME Aside(g) PROVE MarkSound(g)'
  BY <1>0, <1>1, MarkFrame DEF Aside
<1>2. ASSUME NEW p \in Clients, (\E c \in CID : Call(p, c)) \/ ClientStep(p)
      PROVE  MarkSound(g)'
  BY <1>1, <1>2, ClientAside
<1>3. ASSUME NEW c \in CID, SoftPinExpires(c) PROVE MarkSound(g)'
  BY <1>1, <1>3 DEF SoftPinExpires, gcVars, Aside, LeavesMark
<1>4. ASSUME NEW h \in Collectors, GcHardPins(h) \/ GcStep(h) \/ GcCancel(h), h # g
      PROVE  MarkSound(g)'
  BY <1>1, <1>4, CollectorAside
<1>5. ASSUME GcHardPins(g) \/ GcStep(g) \/ GcCancel(g) PROVE MarkSound(g)'
  <2>1. CASE GcHardPins(g) \/ GcSoftPins(g) \/ GcReturn(g) \/ GcAbort(g)
    <3>1. pc'[g] \in {"gcSoft", "gcKeys", "idle"}
      BY <1>0, <2>1 DEF GcHardPins, GcSoftPins, GcReturn, GcAbort, Quit, Goto
    <3> QED
      BY <3>1 DEF Collecting, VisitPlaces
  <2>2. CASE GcKeys(g)
    BY <2>2, MarkBegins
  <2>3. CASE GcPop(g)
    BY <1>0, <2>3, MarkPops DEF GcPop, At, Collecting
  <2>4. CASE GcLookup(g) \/ ReadFile(g) \/ GetSoft(g) \/ PutSoft(g)
    <3>1. pc[g] \in Collecting
      BY <2>4 DEF GcLookup, ReadFile, GetSoft, PutSoft, At, Collecting, VisitPlaces
    <3> QED
      BY <1>0, <2>4, <3>1, MarkReads
  <2>5. CASE GcExpand(g)
    BY <1>0, <2>5, MarkExpands DEF GcExpand, At, Collecting, VisitPlaces
  <2>6. CASE GcStartSweep(g) \/ GcRemoveFile(g) \/ GcDeleteKey(g) \/ GcUnannounce(g)
    <3>1. pc[g] \in Collecting
      BY <2>6 DEF GcStartSweep, MarkDone, GcRemoveFile, GcDeleteKey, GcUnannounce, At,
                  Collecting
    <3> QED
      BY <1>0, <2>6, <3>1, MarkSwept
  <2>7. CASE GcCancel(g)
    <3>1. UNCHANGED <<pc, cid, job, live, stack>> /\ cancelled \subseteq cancelled'
      BY <2>7 DEF GcCancel
    <3> QED
      BY <1>1, <3>1 DEF Aside, LeavesMark
  <2> QED
    BY <1>5, <2>1, <2>2, <2>3, <2>4, <2>5, <2>6, <2>7 DEF GcStep
<1>6. CASE Crash
  <2>1. pc'[g] = "idle"
    BY <1>0, <1>6 DEF Crash
  <2> QED
    BY <2>1 DEF Collecting, VisitPlaces
<1>7. CASE UNCHANGED dvars
  BY <1>1, <1>7 DEF dvars, Aside, LeavesMark
<1> QED
  BY <1>2, <1>3, <1>4, <1>5, <1>6, <1>7 DEF DiskNext

(***************************************************************************)
(* The mark loop keeps its tri-colour invariant although DiskStore has no  *)
(* lock: puts, gets, pins and other collections interleave with each of    *)
(* its file and database operations, and the process may crash.            *)
(***************************************************************************)
THEOREM MarkingSound == DiskSpec => [](HeldIsStored /\ MarkInv)
<1>1. DiskInit => HeldIsStored /\ MarkInv
  BY DEF DiskInit, HeldIsStored, NoJob, MarkInv, Collecting, VisitPlaces, Procs
<1> QED
  BY <1>1, HeldNext, MarkNext, TypeCorrect, PTL DEF DiskSpec

-----------------------------------------------------------------------------
\* What a sweep keeps, and what it does not

\* During the sweep what the contract wants kept is marked.
LEMMA MarkedEnough ==
  ASSUME TypeOK, NEW g \in Collectors, MarkSound(g), pc[g] \in {"sweep", "deleteKey"}
  PROVE  /\ job[g].dir \cup job[g].rec \subseteq live[g]
         /\ g \notin cancelled => MustKeep(job[g]) \subseteq live[g]
         /\ live[g] \subseteq MayKeep(job[g])
<1>1. /\ stack[g] = {} /\ pc[g] \notin VisitPlaces /\ live[g] \in SUBSET CID
      /\ job[g].rec \subseteq live[g] /\ job[g].dir \subseteq live[g]
  BY DEF TypeOK, MarkSound, VisitPlaces
<1>2. ASSUME g \notin cancelled PROVE MustKeep(job[g]) \subseteq live[g]
  <2>1. ClosedUnder(live[g], job[g].held \ job[g].dir)
    BY <1>1, <1>2 DEF ClosedUnder, MarkSound, Visiting
  <2>2. Reach(job[g].rec, job[g].held \ job[g].dir) \subseteq live[g]
    BY <1>1, <2>1, ReachLeast
  <2> QED
    BY <1>1, <2>2 DEF MustKeep
<1> QED
  BY <1>1, <1>2 DEF MarkSound

\* A DAG that is whole and has no direct root in it is what is reached from
\* its root through it.
LEMMA WholeDagReached ==
  ASSUME NEW j \in Jobs, NEW r \in j.rec, DagOf(r) \subseteq j.held \ j.dir
  PROVE  DagOf(r) \subseteq MustKeep(j)
<1>1. r \in CID /\ j.rec \in SUBSET CID /\ DagOf(r) = Reach({r}, CID)
  BY DEF Jobs, DagOf, Dag
<1> DEFINE V == j.held \ j.dir
           S == DagOf(r) \cap Reach(j.rec, V)
<1>2. S \in SUBSET CID /\ {r} \subseteq S
  BY <1>1, ReachTyped, ReachRoots
<1>3. ASSUME NEW c \in S PROVE ChildCIDs(c) \subseteq S
  <2>1. c \in CID /\ c \in V /\ c \in Reach({r}, CID) /\ c \in Reach(j.rec, V)
    BY <1>1, <1>2, <1>3
  <2> HIDE DEF V
  <2>2. ChildCIDs(c) \subseteq Reach({r}, CID) /\ ChildCIDs(c) \subseteq Reach(j.rec, V)
    BY <2>1, ReachClosed
  <2> QED
    BY <1>1, <2>2 DEF S
<1>4. ClosedUnder(S, CID)
  BY <1>3 DEF ClosedUnder
<1> HIDE DEF S
<1>5. DagOf(r) \subseteq S
  BY <1>1, <1>2, <1>4, ReachLeast
<1> QED
  BY <1>5 DEF S, MustKeep

(***************************************************************************)
(* A recursively pinned DAG that could be read in full when a collection   *)
(* took its snapshot and ever since, and that holds no direct root, loses  *)
(* no file to it, unless the collection is cancelled.                      *)
(***************************************************************************)
THEOREM PinnedDagsSurvive == DiskSpec => PinnedDagSurvives
<1>1. ASSUME TypeOK, MarkInv, NEW g \in Collectors \ cancelled, NEW r \in KeptWhole(g),
             SweptFrom(g, r)
      PROVE  FALSE
  <2>1. PICK c \in Garbage(g) : cid' = [cid EXCEPT ![g] = c]
    BY <1>1 DEF SweptFrom, GcRemoveFile
  <2>2. cid'[g] = c /\ c \notin live[g] /\ c \in DagOf(r)
    BY <1>1, <2>1 DEF SweptFrom, Garbage, TypeOK, Procs
  <2>3. pc[g] = "sweep" /\ MarkSound(g)
    BY <1>1 DEF SweptFrom, GcRemoveFile, At, MarkInv, Collecting
  <2>4. job[g] \in Jobs /\ r \in job[g].rec /\ DagOf(r) \subseteq job[g].held \ job[g].dir
    BY <1>1 DEF TypeOK, KeptWhole
  <2>5. DagOf(r) \subseteq MustKeep(job[g])
    BY <2>4, WholeDagReached
  <2>6. MustKeep(job[g]) \subseteq live[g]
    BY <1>1, <2>3, MarkedEnough
  <2> QED
    BY <2>2, <2>5, <2>6
<1>2. TypeOK /\ MarkInv =>
        [\A g \in Collectors \ cancelled : \A r \in KeptWhole(g) : ~SweptFrom(g, r)]_dvars
  BY <1>1
<1> QED
  BY <1>2, TypeCorrect, MarkingSound, PTL DEF PinnedDagSurvives

(***************************************************************************)
(* What the contract of a collection says of its end, block by block: no   *)
(* pinned block is removed, cancelled or not; nothing a traversal has to   *)
(* reach is removed unless it was cancelled; and when it returns, nothing  *)
(* it may not keep is left of its snapshot.                                *)
(***************************************************************************)
SweepHonoursContract ==
  [][\A g \in Collectors :
       /\ GcRemoveFile(g) =>
            /\ cid'[g] \notin job[g].dir \cup job[g].rec
            /\ g \notin cancelled => cid'[g] \notin MustKeep(job[g])
       /\ GcReturn(g) => job[g].keys \subseteq MayKeep(job[g])]_dvars

THEOREM SweepsHonourContract == DiskSpec => SweepHonoursContract
<1>1. ASSUME TypeOK, MarkInv, NEW g \in Collectors, GcRemoveFile(g)
      PROVE  /\ cid'[g] \notin job[g].dir \cup job[g].rec
             /\ g \notin cancelled => cid'[g] \notin MustKeep(job[g])
  <2>1. PICK c \in Garbage(g) : cid' = [cid EXCEPT ![g] = c]
    BY <1>1 DEF GcRemoveFile
  <2>2. cid'[g] = c /\ c \notin live[g]
    BY <1>1, <2>1 DEF Garbage, TypeOK, Procs
  <2>3. pc[g] = "sweep" /\ MarkSound(g)
    BY <1>1 DEF GcRemoveFile, At, MarkInv, Collecting
  <2> QED
    BY <1>1, <2>2, <2>3, MarkedEnough
<1>2. ASSUME TypeOK, MarkInv, NEW g \in Collectors, GcReturn(g)
      PROVE  job[g].keys \subseteq MayKeep(job[g])
  <2>1. pc[g] = "sweep" /\ MarkSound(g) /\ job[g].keys \subseteq live[g]
    BY <1>2 DEF GcReturn, Garbage, At, MarkInv, Collecting
  <2> QED
    BY <1>2, <2>1, MarkedEnough
<1>3. TypeOK /\ MarkInv =>
        [\A g \in Collectors :
           /\ GcRemoveFile(g) =>
                /\ cid'[g] \notin job[g].dir \cup job[g].rec
                /\ g \notin cancelled => cid'[g] \notin MustKeep(job[g])
           /\ GcReturn(g) => job[g].keys \subseteq MayKeep(job[g])]_dvars
  BY <1>1, <1>2
<1> QED
  BY <1>3, TypeCorrect, MarkingSound, PTL DEF SweepHonoursContract
=============================================================================
