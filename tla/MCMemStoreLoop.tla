--------------------------- MODULE MCMemStoreLoop ---------------------------
(***************************************************************************)
(* An in-memory store with the hourly loop and POST /gc.                   *)
(***************************************************************************)
EXTENDS MCMemStore

CONSTANTS p, g, g2

VARIABLE api    \* whether POST /gc is used, in g2, beside the hourly loop, in g

(***************************************************************************)
(* Two kinds of behaviours in one run.  Without POST /gc the block may get *)
(* every pin, below a manifest that is recursively pinned, or not pinned.  *)
(* Bound: with POST /gc the client only puts blocks and pins the manifest  *)
(* and no collection is cancelled.                                         *)
(***************************************************************************)
ManifestBound == hardPins[m] # "d" /\ softPins[m] = "none"

ApiBound ==
  /\ pc[p] \in {"idle", "putAnnounce"}
  /\ hardPins[a] = "none" /\ softPins[a] = "none"
  /\ cancelled = {}

LoopInit == MemInit /\ cid[p] = a /\ api \in BOOLEAN

LoopSpec ==
  /\ LoopInit
  /\ [][/\ MemNext /\ UNCHANGED api /\ ManifestBound'
        /\ IF api THEN ApiBound' ELSE pc'[g2] = "idle"]_<<mvars, api>>
  /\ MemFairness
=============================================================================
