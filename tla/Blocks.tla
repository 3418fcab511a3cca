------------------------------- MODULE Blocks -------------------------------
(***************************************************************************)
(* Content-addressed blocks (internal/block, internal/dag).  A CID is the  *)
(* digest of a block's bytes (block.NewCID), so the CID determines the     *)
(* type and the links of the block: Kind and Links are constants, and a    *)
(* stored block is represented by its CID alone.                           *)
(***************************************************************************)

CONSTANTS
  CID,     \* the block identifiers that occur
  Kind,    \* block.BlockHeader.Type of the block with that CID
  Links    \* the CIDs in the payload of a node or of a manifest

BlockTypes == {"data", "node", "manifest", "unknown"}

ASSUME BlocksAssumption ==
  /\ Kind \in [CID -> BlockTypes]
  /\ Links \in [CID -> SUBSET CID]
  /\ \A c \in CID : Kind[c] = "manifest" => \E root \in CID : Links[c] = {root}

(***************************************************************************)
(* dag.ChildCIDsFromBlock: a data block has no children, a node lists its  *)
(* children, a manifest has its root.  A block of another type makes it    *)
(* return an error, which every caller treats as "no children".            *)
(***************************************************************************)
ChildCIDs(c) == IF Kind[c] \in {"node", "manifest"} THEN Links[c] ELSE {}

(***************************************************************************)
(* Reference definition of a graph traversal that starts at roots and can  *)
(* only read the blocks of via: the least set that contains the roots and  *)
(* the children of each of its members that can be read.                   *)
(***************************************************************************)
ClosedUnder(S, via) == \A c \in S \cap via : ChildCIDs(c) \subseteq S

Reach(roots, via) ==
  {c \in CID : \A S \in SUBSET CID :
                 roots \subseteq S /\ ClosedUnder(S, via) => c \in S}

\* The whole DAG below a root, whether or not its blocks are stored.
Dag == [root \in CID |-> Reach({root}, CID)]

DagOf(root) == Dag[root]
=============================================================================
