---------------------------- MODULE MCDiskStore -----------------------------
(***************************************************************************)
(* Small instances of DiskStore: a manifest m with its only data block a,  *)
(* or the data block alone.                                                *)
(***************************************************************************)
EXTENDS DiskStore

CONSTANTS m, a, p1, p2, Pinnable

File      == {m, a}
FileKind  == [c \in File |-> IF c = m THEN "manifest" ELSE "data"]
FileLinks == [c \in File |-> IF c = m THEN {a} ELSE {}]

Data      == {a}
DataKind  == [c \in Data |-> "data"]
DataLinks == [c \in Data |-> {}]

\* Bound: only the CIDs of Pinnable are ever pinned.
PinBound ==
  \A c \in CID \ Pinnable :
    /\ hardPins[c] = "none" /\ softPins[c] = "none"
    /\ \A p \in Clients : cid[p] = c => pc[p] \notin {"pinRec", "pinDir", "unpin", "pinSoft"}

(***************************************************************************)
(* Two kinds of behaviours in one run, told apart by the block that the    *)
(* second client begins with.  Alone: the first client does everything but *)
(* PinDirect and storing a block it fetched, with crashes and              *)
(* cancellations.  Otherwise: two writers of one block, which PinDirect    *)
(* and Unpin touch too, without faults.  The clients, which set the pins,  *)
(* are under no obligation.                                                *)
(***************************************************************************)
Alone == cid[p2] = m

AloneBound ==
  /\ At(p2, "idle") /\ cid[p2] = m
  /\ \A c \in CID : hardPins[c] # "d"
  /\ \A p \in Clients : pc[p] # "pinDir" /\ (At(p, "write") => op[p] = "put")
  /\ PinBound

WritersBound ==
  /\ \A p \in Clients : cid[p] = a /\ pc[p] \notin {"pinRec", "pinSoft"}
  /\ \A c \in CID : hardPins[c] # "r" /\ softPins[c] = "none"
  /\ faults = 0

BoundedFairSpec ==
  /\ DiskInit
  /\ [][DiskNext /\ IF Alone THEN AloneBound' ELSE WritersBound']_dvars
  /\ DiskFairness
=============================================================================
