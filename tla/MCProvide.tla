----------------------------- MODULE MCProvide -----------------------------
(***************************************************************************)
(* A manifest and its data block, a client, the hourly collection, the     *)
(* republishing loop and the reprovider.                                   *)
(***************************************************************************)
EXTENDS Provide

CONSTANTS m, a, p, rp, g

Small      == {m, a}
SmallKind  == [c \in Small |-> IF c = m THEN "manifest" ELSE "data"]
SmallLinks == [c \in Small |-> IF c = m THEN {a} ELSE {}]

\* Bounds: the manifest is pinned recursively or not, the block is not pinned,
\* no collection is cancelled, and of the records only that of the manifest is
\* ever due for republishing.
Bound ==
  /\ hardPins[m] # "d" /\ softPins[m] = "none"
  /\ hardPins[a] = "none" /\ softPins[a] = "none"
  /\ cancelled = {}
  /\ snap \subseteq {m}

BoundedSpec ==
  /\ ProvideInit /\ cid[p] = a
  /\ [][ProvideNext /\ Bound']_pvars
  /\ ProvideFairness
=============================================================================
