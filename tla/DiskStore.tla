----------------------------- MODULE DiskStore ------------------------------
(***************************************************************************)
(* The on-disk block store (internal/storage/disk.go): one file per block, *)
(* written through a temporary file and a rename, and a LevelDB database   *)
(* with the index of the blocks, the hard and the soft pins.               *)
(*                                                                         *)
(* DiskStore.mu is never locked: the atomic steps are one system call and  *)
(* one database operation each, and everything in between interleaves.  A  *)
(* crash is a crash of the process: what the kernel and the database have  *)
(* been given stays, what is in memory is lost.                            *)
(*                                                                         *)
(* The provider records are left to Provide; here a goroutine that writes  *)
(* or deletes one only passes a place of its own.                          *)
(***************************************************************************)
EXTENDS Marking, Naturals

CONSTANTS
  Clients,      \* goroutines that put, get and pin
  Collectors,   \* goroutines that may run a collection
  HasFetcher,   \* s.fetcher # nil: missing blocks are fetched, puts announced
  Loops,        \* the collectors of service.startBlockstoreGC, which start over
  MaxFaults     \* bound on the crashes and the cancellations of a collection

ASSUME DiskStoreAssumption ==
  /\ Clients \cap Collectors = {}
  /\ HasFetcher \in BOOLEAN
  /\ Loops \subseteq Collectors
  /\ MaxFaults \in Nat

Procs == Clients \cup Collectors

Contents == {"none", "partial", "full"}    \* of a path: no file, truncated, written
Handles  == {"none", "tmp", "file", "gone"}

VARIABLES
  file,       \* the contents of the file of each block
  tmp,        \* the contents of its temporary file
  index,      \* the CIDs with a block key in the database
  hardPins,   \* the hard pin of each CID, in the database
  softPins,   \* the soft pin of each CID, in the database
  pc,         \* where each goroutine is
  op,         \* whether PutBlockLocally was called by a put or by a get
  cid,        \* the block each goroutine is working on
  fd,         \* the path that leads to the file a goroutine is writing, if any
  job,        \* the snapshot of each running collection
  live,       \* GC: the mark set
  stack,      \* GC: the mark stack
  cancelled,  \* the running collections whose context has been cancelled
  faults      \* crashes and cancellations so far

dvars == <<file, tmp, index, hardPins, softPins,
           pc, op, cid, fd, job, live, stack, cancelled, faults>>

files   == <<file, tmp, fd>>
pinVars == <<hardPins, softPins>>
gcVars  == <<job, live, stack, cancelled>>

DiskInit ==
  /\ file = [c \in CID |-> "none"]
  /\ tmp = [c \in CID |-> "none"]
  /\ index = {}
  /\ hardPins = [c \in CID |-> "none"]
  /\ softPins = [c \in CID |-> "none"]
  /\ pc = [p \in Procs |-> "idle"]
  /\ op = [p \in Procs |-> "get"]
  /\ \E c \in CID : cid = [p \in Procs |-> c]
  /\ fd = [p \in Procs |-> "none"]
  /\ job = [g \in Collectors |-> NoJob]
  /\ live = [g \in Collectors |-> {}]
  /\ stack = [g \in Collectors |-> {}]
  /\ cancelled = {}
  /\ faults = 0

At(p, place) == pc[p] = place

Goto(p, place) == pc' = [pc EXCEPT ![p] = place]

\* Blocks that can be read: the database has the key and the file is whole.
Stored == {c \in index : file[c] = "full"}

\* Bookkeeping: a running collection notes which blocks ceased to be readable.
Lost(lost) == [g \in Collectors |-> [job[g] EXCEPT !.held = @ \ lost]]

-----------------------------------------------------------------------------
\* PutBlockLocally: open and truncate the temporary file, write it, rename
\* it, put the block key.  Two writers of one block share the temporary file:
\* after a rename the other one's descriptor leads to the block's own file.

OpenInPlace(p, c) ==            \* bug: the block's own file is truncated and written
  /\ file' = [file EXCEPT ![c] = "partial"]
  /\ fd' = [fd EXCEPT ![p] = "file"]
  /\ UNCHANGED tmp

OpenTmp(p, c) ==
  /\ tmp' = [tmp EXCEPT ![c] = "partial"]
  /\ fd' = [fd EXCEPT ![p] = "tmp"]
  /\ UNCHANGED file

PutBlock(p, c) ==
  /\ p \in Clients /\ At(p, "idle")
  /\ OpenTmp(p, c)
  /\ cid' = [cid EXCEPT ![p] = c]
  /\ op' = [op EXCEPT ![p] = "put"]
  /\ Goto(p, "write")
  /\ UNCHANGED <<index, pinVars, gcVars, faults>>

Write(p) ==
  LET c == cid[p] IN
  /\ At(p, "write")
  /\ tmp'  = IF fd[p] = "tmp"  THEN [tmp EXCEPT ![c] = "full"]  ELSE tmp
  /\ file' = IF fd[p] = "file" THEN [file EXCEPT ![c] = "full"] ELSE file
  /\ fd' = [fd EXCEPT ![p] = "none"]
  /\ Goto(p, "rename")
  /\ UNCHANGED <<index, pinVars, op, cid, gcVars, faults>>

\* Where a put or a get goes on after PutBlockLocally: a put returns its
\* error, a get ignores it; a put announces every block, a get a manifest.
AfterPut(p, ok) ==
  IF /\ HasFetcher
     /\ IF op[p] = "put" THEN ok ELSE Kind[cid[p]] = "manifest"
  THEN "announce" ELSE "idle"

\* The descriptors of block c when its temporary file replaces its file.
Renamed(c) ==
  [q \in Procs |-> CASE cid[q] = c /\ fd[q] = "tmp"  -> "file"
                     [] cid[q] = c /\ fd[q] = "file" -> "gone"
                     [] OTHER -> fd[q]]

RenameFails(p) ==
  /\ At(p, "rename") /\ tmp[cid[p]] = "none"
  /\ Goto(p, AfterPut(p, FALSE))
  /\ UNCHANGED <<files, index, pinVars, op, cid, gcVars, faults>>

Rename(p) ==
  LET c == cid[p] IN
  /\ At(p, "rename") /\ tmp[c] # "none"
  /\ file' = [file EXCEPT ![c] = tmp[c]]
  /\ tmp' = [tmp EXCEPT ![c] = "none"]
  /\ fd' = Renamed(c)
  /\ job' = Lost(IF tmp[c] = "partial" THEN {c} ELSE {})
  /\ Goto(p, "indexPut")
  /\ UNCHANGED <<index, pinVars, op, cid, live, stack, cancelled, faults>>

IndexPut(p) ==
  /\ At(p, "indexPut")
  /\ index' = index \cup {cid[p]}
  /\ Goto(p, AfterPut(p, TRUE))
  /\ UNCHANGED <<files, pinVars, op, cid, gcVars, faults>>

Announce(p) ==
  /\ At(p, "announce")
  /\ Goto(p, "idle")
  /\ UNCHANGED <<files, index, pinVars, op, cid, gcVars, faults>>

-----------------------------------------------------------------------------
\* GetBlockLocal, for a client's get and for the mark loop of a collection:
\* look up the key, read the file, and give a soft pin a new expiry.

\* What the caller does with a block, and without one.
AfterHit(p) == Goto(p, IF p \in Clients THEN "idle" ELSE "expand")
AfterMiss(p) ==
  Goto(p, IF p \in Collectors THEN "mark" ELSE IF HasFetcher THEN "fetch" ELSE "idle")

Lookup(p, c) ==
  /\ cid' = [cid EXCEPT ![p] = c]
  /\ IF c \in index THEN Goto(p, "readFile") ELSE AfterMiss(p)

GetBlock(p, c) ==
  /\ p \in Clients /\ At(p, "idle")
  /\ Lookup(p, c)
  /\ op' = [op EXCEPT ![p] = "get"]
  /\ UNCHANGED <<files, index, pinVars, gcVars, faults>>

\* A missing or truncated file is an error to the caller.
ReadFile(p) ==
  /\ At(p, "readFile")
  /\ IF file[cid[p]] = "full" THEN Goto(p, "getSoft") ELSE AfterMiss(p)
  /\ UNCHANGED <<files, index, pinVars, op, cid, gcVars, faults>>

GetSoft(p) ==
  /\ At(p, "getSoft")
  /\ IF softPins[cid[p]] # "none" THEN Goto(p, "putSoft") ELSE AfterHit(p)
  /\ UNCHANGED <<files, index, pinVars, op, cid, gcVars, faults>>

PutSoft(p) ==
  /\ At(p, "putSoft")
  /\ softPins' = [softPins EXCEPT ![cid[p]] = "live"]
  /\ AfterHit(p)
  /\ UNCHANGED <<files, index, hardPins, op, cid, gcVars, faults>>

\* GetBlock on a miss: no provider answers or the block it sends is another
\* one, or the block is stored (with op "get").
FetchFails(p) ==
  /\ At(p, "fetch")
  /\ Goto(p, "idle")
  /\ UNCHANGED <<files, index, pinVars, op, cid, gcVars, faults>>

Fetch(p) ==
  /\ At(p, "fetch")
  /\ OpenTmp(p, cid[p])
  /\ Goto(p, "write")
  /\ UNCHANGED <<index, pinVars, op, cid, gcVars, faults>>

\* The context has been cancelled: PutBlockLocally refuses, the get goes on.
FetchNotStored(p) ==
  /\ At(p, "fetch")
  /\ Goto(p, AfterPut(p, FALSE))
  /\ UNCHANGED <<files, index, pinVars, op, cid, gcVars, faults>>

-----------------------------------------------------------------------------
\* Pins: two database operations each

StartPinCall(p, c, place) ==
  /\ p \in Clients /\ At(p, "idle")
  /\ cid' = [cid EXCEPT ![p] = c]
  /\ Goto(p, place)
  /\ UNCHANGED <<files, index, op, gcVars, faults>>

\* Pin, PinDirect and Unpin delete the soft pin first.
Pin(p, c) ==
  /\ StartPinCall(p, c, "pinRec")
  /\ softPins' = [softPins EXCEPT ![c] = "none"]
  /\ UNCHANGED hardPins

PinDirect(p, c) ==
  /\ StartPinCall(p, c, "pinDir")
  /\ softPins' = [softPins EXCEPT ![c] = "none"]
  /\ UNCHANGED hardPins

Unpin(p, c) ==
  /\ StartPinCall(p, c, "unpin")
  /\ softPins' = [softPins EXCEPT ![c] = "none"]
  /\ UNCHANGED hardPins

\* PinSoft looks for a hard pin first, and returns if there is one.
PinSoft(p, c) ==
  /\ hardPins[c] = "none"
  /\ StartPinCall(p, c, "pinSoft")
  /\ UNCHANGED pinVars

\* The second database operation.
HardModeAt == [pinRec |-> "r", pinDir |-> "d", unpin |-> "none"]

SetHardPin(p) ==
  /\ pc[p] \in DOMAIN HardModeAt
  /\ hardPins' = [hardPins EXCEPT ![cid[p]] = HardModeAt[pc[p]]]
  /\ Goto(p, "idle")
  /\ UNCHANGED <<files, index, softPins, op, cid, gcVars, faults>>

SetSoftPin(p) ==
  /\ At(p, "pinSoft")
  /\ softPins' = [softPins EXCEPT ![cid[p]] = "live"]
  /\ Goto(p, "idle")
  /\ UNCHANGED <<files, index, hardPins, op, cid, gcVars, faults>>

SoftPinExpires(c) ==
  /\ softPins[c] = "live"
  /\ softPins' = [softPins EXCEPT ![c] = "expired"]
  /\ UNCHANGED <<files, index, hardPins, pc, op, cid, gcVars, faults>>

-----------------------------------------------------------------------------
\* Garbage collection.  Each database iterator reads a snapshot of its own.

GcHardPins(g) ==
  /\ g \in Collectors /\ At(g, "idle")
  /\ job' = [job EXCEPT ![g] = [NoJob EXCEPT
                 !.rec = {c \in CID : hardPins[c] = "r"},
                 !.dir = {c \in CID : hardPins[c] = "d"}]]
  /\ Goto(g, "gcSoft")
  /\ UNCHANGED <<files, index, pinVars, op, cid, live, stack, cancelled, faults>>

WithSoftPins(j) == [j EXCEPT !.dir = @ \cup {c \in CID : softPins[c] = "live"}]

GcSoftPins(g) ==
  /\ At(g, "gcSoft")
  /\ job' = [job EXCEPT ![g] = WithSoftPins(job[g])]
  /\ Goto(g, "gcKeys")
  /\ UNCHANGED <<files, index, pinVars, op, cid, live, stack, cancelled, faults>>

WithKeys(j) == [j EXCEPT !.keys = index, !.held = Stored]

GcKeys(g) ==
  /\ At(g, "gcKeys")
  /\ g \in cancelled => index = {}
  /\ job' = [job EXCEPT ![g] = WithKeys(job[g])]
  /\ live' = [live EXCEPT ![g] = job[g].dir]
  /\ stack' = [stack EXCEPT ![g] = job[g].rec]
  /\ Goto(g, "mark")
  /\ UNCHANGED <<files, index, pinVars, op, cid, cancelled, faults>>

Popped(g, c) == stack[g] \ {c}

\* One turn of the mark loop, up to the call of GetBlockLocal.
GcPop(g) ==
  /\ At(g, "mark") /\ g \notin cancelled
  /\ \E c \in stack[g] :
       /\ stack' = [stack EXCEPT ![g] = Popped(g, c)]
       /\ live' = [live EXCEPT ![g] = @ \cup {c}]
       /\ IF c \in live[g] THEN UNCHANGED <<cid, pc>>
          ELSE cid' = [cid EXCEPT ![g] = c] /\ Goto(g, "lookup")
  /\ UNCHANGED <<files, index, pinVars, op, job, cancelled, faults>>

\* GetBlockLocal looks at the context once more.
GcLookup(g) ==
  /\ At(g, "lookup")
  /\ IF g \in cancelled THEN AfterMiss(g) /\ UNCHANGED cid ELSE Lookup(g, cid[g])
  /\ UNCHANGED <<files, index, pinVars, op, gcVars, faults>>

PushedOfNodes(g) ==            \* bug: the root of a manifest is not pushed
  IF Kind[cid[g]] = "node" THEN Links[cid[g]] \ live[g] ELSE {}

Pushed(g) == ChildCIDs(cid[g]) \ live[g]

GcExpand(g) ==
  /\ At(g, "expand")
  /\ stack' = [stack EXCEPT ![g] = @ \cup Pushed(g)]
  /\ Goto(g, "mark")
  /\ UNCHANGED <<files, index, pinVars, op, cid, job, live, cancelled, faults>>

\* The sweep goes over the records of the snapshot one by one, in no order
\* that matters; job[g].keys are the records it has not come to.
MarkedSome(g) == At(g, "mark")   \* bug: one turn of the loop only

MarkDone(g) == At(g, "mark") /\ stack[g] = {}

Garbage(g) == job[g].keys \ live[g]

GcStartSweep(g) ==
  /\ MarkDone(g)
  /\ Goto(g, "sweep")
  /\ UNCHANGED <<files, index, pinVars, op, cid, gcVars, faults>>

Swept(j, c) == [j EXCEPT !.keys = @ \ {c}]

Unlinked(c) ==
  [q \in Procs |-> IF cid[q] = c /\ fd[q] = "file" THEN "gone" ELSE fd[q]]

GcRemoveFile(g) ==
  /\ At(g, "sweep")
  /\ \E c \in Garbage(g) :
       /\ file' = [file EXCEPT ![c] = "none"]
       /\ fd' = Unlinked(c)
       /\ cid' = [cid EXCEPT ![g] = c]
       /\ job' = Lost({c})
  /\ Goto(g, "deleteKey")
  /\ UNCHANGED <<tmp, index, pinVars, op, live, stack, cancelled, faults>>

GcKeepKey(g) ==                \* bug: only the file is deleted
  /\ At(g, "deleteKey")
  /\ job' = [job EXCEPT ![g] = Swept(job[g], cid[g])]
  /\ Goto(g, IF HasFetcher THEN "unannounce" ELSE "sweep")
  /\ UNCHANGED <<files, index, pinVars, op, cid, live, stack, cancelled, faults>>

GcDeleteKey(g) ==
  /\ At(g, "deleteKey")
  /\ index' = index \ {cid[g]}
  /\ job' = [Lost({cid[g]}) EXCEPT ![g] = Swept(Lost({cid[g]})[g], cid[g])]
  /\ Goto(g, IF HasFetcher THEN "unannounce" ELSE "sweep")
  /\ UNCHANGED <<files, pinVars, op, cid, live, stack, cancelled, faults>>

GcUnannounce(g) ==
  /\ At(g, "unannounce")
  /\ Goto(g, "sweep")
  /\ UNCHANGED <<files, index, pinVars, op, cid, gcVars, faults>>

Quit(g) ==
  /\ job' = [job EXCEPT ![g] = NoJob]
  /\ live' = [live EXCEPT ![g] = {}]
  /\ stack' = [stack EXCEPT ![g] = {}]
  /\ cancelled' = cancelled \ {g}
  /\ Goto(g, "idle")
  /\ UNCHANGED <<files, index, pinVars, op, cid, faults>>

GcReturn(g) == At(g, "sweep") /\ Garbage(g) = {} /\ Quit(g)

\* The loops over the block keys and over the stack look at the context.
GcAbort(g) ==
  /\ g \in cancelled
  /\ \/ At(g, "gcKeys") /\ index # {}
     \/ At(g, "mark") /\ stack[g] # {}
  /\ Quit(g)

\* The client of POST /gc disconnects, or the program shuts down.
GcCancel(g) ==
  /\ ~At(g, "idle") /\ g \notin cancelled
  /\ faults < MaxFaults
  /\ faults' = faults + 1
  /\ cancelled' = cancelled \cup {g}
  /\ UNCHANGED <<files, index, pinVars, pc, op, cid, job, live, stack>>

-----------------------------------------------------------------------------
\* The process crashes and starts again on the same directory.
Crash ==
  /\ faults < MaxFaults
  /\ faults' = faults + 1
  /\ pc' = [p \in Procs |-> "idle"]
  /\ op' = [p \in Procs |-> "get"]
  /\ fd' = [p \in Procs |-> "none"]
  /\ job' = [g \in Collectors |-> NoJob]
  /\ live' = [g \in Collectors |-> {}]
  /\ stack' = [g \in Collectors |-> {}]
  /\ cancelled' = {}
  /\ UNCHANGED <<file, tmp, index, pinVars, cid>>

PutStep(p) ==
  Write(p) \/ Rename(p) \/ RenameFails(p) \/ IndexPut(p) \/ Announce(p)

GetStep(p) ==
  ReadFile(p) \/ GetSoft(p) \/ PutSoft(p)
  \/ FetchFails(p) \/ Fetch(p) \/ FetchNotStored(p)

PinStep(p) == SetHardPin(p) \/ SetSoftPin(p)

Call(p, c) ==
  \/ PutBlock(p, c) \/ GetBlock(p, c)
  \/ Pin(p, c) \/ PinDirect(p, c) \/ PinSoft(p, c) \/ Unpin(p, c)

ClientStep(p) == PutStep(p) \/ GetStep(p) \/ PinStep(p)

GcStep(g) ==
  \/ GcSoftPins(g) \/ GcKeys(g) \/ GcPop(g) \/ GcLookup(g) \/ GcExpand(g)
  \/ GcStartSweep(g)
  \/ ReadFile(g) \/ GetSoft(g) \/ PutSoft(g)
  \/ GcRemoveFile(g) \/ GcDeleteKey(g) \/ GcUnannounce(g)
  \/ GcReturn(g) \/ GcAbort(g)

DiskNext ==
  \/ \E p \in Clients : (\E c \in CID : Call(p, c)) \/ ClientStep(p)
  \/ \E c \in CID : SoftPinExpires(c)
  \/ \E g \in Collectors : GcHardPins(g) \/ GcStep(g) \/ GcCancel(g)
  \/ Crash

DiskSpec == DiskInit /\ [][DiskNext]_dvars

\* The Go scheduler runs a goroutine that can run, and the hourly loop starts
\* a collection again and again.
DiskFairness ==
  /\ \A g \in Collectors : WF_dvars(GcStep(g))
  /\ \A g \in Loops : WF_dvars(GcHardPins(g))

-----------------------------------------------------------------------------
\* Properties

ClientPlaces ==
  {"idle", "write", "rename", "indexPut", "announce", "readFile", "getSoft", "putSoft",
   "fetch", "pinRec", "pinDir", "unpin", "pinSoft"}

CollectorPlaces ==
  {"idle", "gcSoft", "gcKeys", "mark", "lookup", "readFile", "getSoft", "putSoft",
   "expand", "sweep", "deleteKey", "unannounce"}

\* Every variable has its type, only a writer has an open file, and a
\* collection sweeps with an empty stack.
TypeOK ==
  /\ file \in [CID -> Contents]
  /\ tmp \in [CID -> Contents]
  /\ index \subseteq CID
  /\ hardPins \in [CID -> HardModes]
  /\ softPins \in [CID -> SoftModes]
  /\ pc \in [Procs -> ClientPlaces \cup CollectorPlaces]
  /\ \A p \in Clients : pc[p] \in ClientPlaces
  /\ \A g \in Collectors : pc[g] \in CollectorPlaces
  /\ op \in [Procs -> {"put", "get"}]
  /\ cid \in [Procs -> CID]
  /\ fd \in [Procs -> Handles]
  /\ \A p \in Procs : fd[p] # "none" <=> At(p, "write")
  /\ job \in [Collectors -> Jobs]
  /\ live \in [Collectors -> SUBSET CID]
  /\ stack \in [Collectors -> SUBSET CID]
  /\ \A g \in Collectors :
       pc[g] \in {"idle", "sweep", "deleteKey", "unannounce"} => stack[g] = {}
  /\ cancelled \subseteq Collectors
  /\ faults \in 0 .. MaxFaults

\* As long as no two goroutines write the same block at once, a block's own
\* file is never truncated, crash or no crash (see DiskStoreProofs).
CommittedWhole == \A c \in CID : file[c] # "partial"

\* A block's file is truncated only while a goroutine has it open and still has
\* to write it: with one writer never, whatever crashes (nobody then opens the
\* block's own file), with several as long as the process does not crash.
TornWhileWritten ==
  \A c \in CID : file[c] = "partial" =>
    \E p \in Procs : At(p, "write") /\ cid[p] = c /\ fd[p] = "file"

\* A recursively pinned DAG that could be read in full when a collection took
\* its snapshot and ever since, and that holds no direct root, loses no block
\* to that collection unless it is cancelled.
SweptFrom(g, r) == GcRemoveFile(g) /\ cid'[g] \in DagOf(r)

KeptWhole(g) == {r \in job[g].rec : DagOf(r) \subseteq job[g].held \ job[g].dir}

PinnedDagSurvives ==
  [][\A g \in Collectors \ cancelled : \A r \in KeptWhole(g) : ~SweptFrom(g, r)]_dvars

\* A key that no pin protects is deleted in the end, with or without its file:
\* what a crash leaves between the two deletions is cleaned up.
Pinned(c) ==
  \/ hardPins[c] = "d" \/ softPins[c] = "live"
  \/ \E r \in CID : hardPins[r] = "r" /\ c \in DagOf(r)

GarbageReclaimed == \A c \in CID : c \in index ~> c \notin index \/ Pinned(c)

-----------------------------------------------------------------------------
\* What a comment says and the code, without a lock, does not do.

\* disk.go: "if the process crashes mid-write, only the temp file is affected":
\* when nobody has a file open, no block's own file is truncated.
CrashAffectsTmpOnly ==
  (\A p \in Procs : fd[p] = "none") => \A c \in CID : file[c] # "partial"
=============================================================================
