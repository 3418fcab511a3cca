----------------------------- MODULE GcContract -----------------------------
(***************************************************************************)
(* What a block store promises (internal/storage, interface Store), with   *)
(* the traversal of the garbage collector abstracted away: a collection    *)
(* takes a snapshot of the pins and of the keys when it begins and, when   *)
(* it finishes, removes in one step a set of blocks that                   *)
(*   - contains no block pinned in the snapshot, nor any that a traversal  *)
(*     from the recursive pins reaches through blocks that stayed in the   *)
(*     store during the whole collection, not expanding direct pins;       *)
(*   - contains every block of the snapshot that is no descendant of a     *)
(*     pinned block.                                                       *)
(* Pins, unpins, puts and other collections may happen in between.  When   *)
(* the context of the collection is cancelled, the code promises less: the *)
(* pinned blocks stay, what they refer to may go.                          *)
(***************************************************************************)
EXTENDS Marking

CONSTANT Collectors     \* the goroutines that may run a collection

VARIABLES
  store,      \* the CIDs of the blocks the store holds
  hardPins,   \* the hard pin of each CID
  softPins,   \* the soft pin of each CID
  running,    \* the collectors that are collecting
  job,        \* the snapshot of each running collection
  cancelled   \* the running collections whose context has been cancelled

vars == <<store, hardPins, softPins, running, job, cancelled>>

Init ==
  /\ store = {}
  /\ hardPins = [c \in CID |-> "none"]
  /\ softPins = [c \in CID |-> "none"]
  /\ running = {}
  /\ job = [g \in Collectors |-> NoJob]
  /\ cancelled = {}

Put ==
  /\ \E c \in CID : store' = store \cup {c}
  /\ UNCHANGED <<hardPins, softPins, running, job, cancelled>>

\* Pin, PinDirect, PinSoft, Unpin, the refresh of a soft pin and its expiry.
ChangePin(c) ==
  /\ \E h \in HardModes : hardPins' = [hardPins EXCEPT ![c] = h]
  /\ \E s \in SoftModes : softPins' = [softPins EXCEPT ![c] = s]
  /\ hardPins'[c] = "none" \/ softPins'[c] = "none"
  /\ UNCHANGED <<store, running, job, cancelled>>

Begin(g) ==
  /\ g \notin running
  /\ running' = running \cup {g}
  /\ job' = [job EXCEPT ![g] =
               [rec  |-> {c \in CID : hardPins[c] = "r"},
                dir  |-> {c \in CID : hardPins[c] = "d" \/ softPins[c] = "live"},
                keys |-> store,
                held |-> store]]
  /\ UNCHANGED <<store, hardPins, softPins, cancelled>>

\* The client of POST /gc disconnects, or the program shuts down.
Cancel(g) ==
  /\ g \in running \ cancelled
  /\ cancelled' = cancelled \cup {g}
  /\ UNCHANGED <<store, hardPins, softPins, running, job>>

Protected(g) ==
  IF g \in cancelled THEN job[g].dir \cup job[g].rec ELSE MustKeep(job[g])

Finish(g) ==
  /\ g \in running
  /\ \E dead \in SUBSET job[g].keys :
       /\ dead \cap Protected(g) = {}
       /\ job[g].keys \ dead \subseteq MayKeep(job[g])
       /\ store' = store \ dead
       /\ job' = [h \in Collectors |->
                    IF h = g THEN NoJob ELSE [job[h] EXCEPT !.held = @ \ dead]]
  /\ running' = running \ {g}
  /\ cancelled' = cancelled \ {g}
  /\ UNCHANGED <<hardPins, softPins>>

Next ==
  \/ Put
  \/ \E c \in CID : ChangePin(c)
  \/ \E g \in Collectors : Begin(g) \/ Cancel(g) \/ Finish(g)

Spec == Init /\ [][Next]_vars
=============================================================================
