----------------------------- MODULE MCMemStore -----------------------------
(***************************************************************************)
(* Small instances of MemStore.  File is the chain manifest -> node ->     *)
(* data that dag.Builder makes of a one-chunk file that was given an       *)
(* interior node; Small is a manifest with its data block.                 *)
(***************************************************************************)
EXTENDS MemStore

CONSTANTS m, n, a, Pinnable

File      == {m, n, a}
FileKind  == [c \in File |-> CASE c = m -> "manifest" [] c = n -> "node" [] c = a -> "data"]
FileLinks == [c \in File |-> CASE c = m -> {n} [] c = n -> {a} [] c = a -> {}]

Small      == {m, a}
SmallKind  == [c \in Small |-> IF c = m THEN "manifest" ELSE "data"]
SmallLinks == [c \in Small |-> IF c = m THEN {a} ELSE {}]

\* Bound: only the CIDs of Pinnable are ever pinned.
PinBound ==
  \A c \in CID \ Pinnable : hardPins[c] = "none" /\ softPins[c] = "none"
=============================================================================
