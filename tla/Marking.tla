------------------------------ MODULE Marking ------------------------------
(***************************************************************************)
(* What both block stores share: the pin modes, the snapshot a garbage     *)
(* collection starts from, and the reference definition of what that       *)
(* snapshot obliges it to keep.                                            *)
(***************************************************************************)
EXTENDS Blocks

HardModes == {"none", "r", "d"}          \* no hard pin, recursive, direct
SoftModes == {"none", "live", "expired"} \* no soft pin, before and after its expiry

\* The snapshot of a running collection: the recursive roots, the pins that
\* are not traversed, and the keys that may be deleted.  held is the part of
\* keys that has been readable in the store ever since the snapshot.
Jobs == [rec : SUBSET CID, dir : SUBSET CID, keys : SUBSET CID, held : SUBSET CID]

NoJob == [rec |-> {}, dir |-> {}, keys |-> {}, held |-> {}]

\* What a collection must keep, and what it may keep.
MustKeep(j) == j.dir \cup Reach(j.rec, j.held \ j.dir)
MayKeep(j)  == j.dir \cup Reach(j.rec, CID)
=============================================================================
