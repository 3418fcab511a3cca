------------------------------ MODULE DagBuild ------------------------------
(***************************************************************************)
(* DagBuilder.BuildFromReader (internal/dag): a file is cut into chunks,   *)
(* the chunks are put as data blocks, and levels of nodes of at most       *)
(* Fanout children are put above them until one root is left, to which a   *)
(* manifest points.  Any put, and any read of the file, may fail; what was *)
(* put before stays in the store.  An add pins nothing, so a collection    *)
(* may take any block at any time, also before the add has returned.       *)
(*                                                                         *)
(* A CID is the digest of a block, so a block stands for its own CID:      *)
(* equal chunks are one block.  Sizes are in bytes of a small file.        *)
(***************************************************************************)
EXTENDS Naturals, Sequences, FiniteSets

CONSTANTS
  Files,        \* the files, sequences of bytes
  ChunkSize,    \* bytes per data block
  Fanout,       \* children per node
  MaxLost       \* bound: blocks missing at a time

ASSUME BuilderAssumption ==
  /\ Files \subseteq Seq(Nat)          \* a byte is a number
  /\ ChunkSize \in Nat \ {0}
  /\ Fanout \in Nat \ {0, 1}
  /\ MaxLost \in Nat

VARIABLES
  file,       \* the file that is added
  rest,       \* what has not been read of it
  phase,      \* "read", "group", "done" or "failed"
  cur,        \* the children of this level that have no parent yet
  next,       \* the nodes of the next level built so far
  store,      \* the blocks put
  lost        \* those of them that a collection has taken since

bvars == <<file, rest, phase, cur, next, store, lost>>

Leaf(bytes) == [type |-> "data", payload |-> bytes]

Manifest(root, size) == [type |-> "manifest", size |-> size, root |-> root]

\* The sum of the first i members of a sequence of numbers.
SumTo(s) ==
  LET upTo[i \in 0..Len(s)] == IF i = 0 THEN 0 ELSE upTo[i - 1] + s[i]
  IN upTo

Node(group) ==
  LET spans == [i \in DOMAIN group |-> group[i].span]
  IN [type  |-> "node",
      size  |-> SumTo(spans)[Len(group)],
      cids  |-> [i \in DOMAIN group |-> group[i].cid],
      spans |-> spans]

Pair(block, span) == [cid |-> block, span |-> span]

First(n, s) == SubSeq(s, 1, IF n < Len(s) THEN n ELSE Len(s))

After(n, s) == SubSeq(s, n + 1, Len(s))

BuildInit ==
  /\ file \in Files
  /\ rest = file
  /\ phase = "read"
  /\ cur = <<>> /\ next = <<>>
  /\ store = {} /\ lost = {}

Put(b) == store' = store \cup {b} /\ lost' = lost \ {b}

\* A full or a short chunk; a short one ends the loop.
ReadChunk ==
  /\ phase = "read" /\ rest # <<>>
  /\ LET chunk == First(ChunkSize, rest)
     IN /\ Put(Leaf(chunk))
        /\ cur' = Append(cur, Pair(Leaf(chunk), Len(chunk)))
        /\ rest' = After(ChunkSize, rest)
        /\ phase' = IF Len(chunk) < ChunkSize THEN "group" ELSE "read"
  /\ UNCHANGED <<file, next>>

\* io.EOF; an empty file is one empty data block.
EndOfFile ==
  /\ phase = "read" /\ rest = <<>>
  /\ phase' = "group"
  /\ IF cur = <<>>
     THEN /\ Put(Leaf(<<>>))
          /\ cur' = <<Pair(Leaf(<<>>), 0)>>
     ELSE UNCHANGED <<store, lost, cur>>
  /\ UNCHANGED <<file, rest, next>>

\* One node of the next level; after the last one that level is the current.
PutNode ==
  /\ phase = "group"
  /\ Len(cur) > 1 \/ next # <<>>
  /\ LET group == First(Fanout, cur)
         left  == After(Fanout, cur)
         built == Append(next, Pair(Node(group), Node(group).size))
     IN /\ Put(Node(group))
        /\ cur'  = IF left = <<>> THEN built ELSE left
        /\ next' = IF left = <<>> THEN <<>> ELSE built
  /\ UNCHANGED <<file, rest, phase>>

\* bug: the last chunk counts as a full one
PutManifestRounded ==
  /\ phase = "group" /\ Len(cur) = 1 /\ next = <<>>
  /\ Put(Manifest(cur[1].cid, ChunkSize * ((Len(file) + ChunkSize - 1) \div ChunkSize)))
  /\ phase' = "done"
  /\ UNCHANGED <<file, rest, cur, next>>

PutManifest ==
  /\ phase = "group" /\ Len(cur) = 1 /\ next = <<>>
  /\ Put(Manifest(cur[1].cid, Len(file)))
  /\ phase' = "done"
  /\ UNCHANGED <<file, rest, cur, next>>

\* The reader or a PutBlock returns an error.
BuildFails ==
  /\ phase \in {"read", "group"}
  /\ phase' = "failed"
  /\ UNCHANGED <<file, rest, cur, next, store, lost>>

LoseBlock(c) ==
  /\ c \notin lost /\ Cardinality(lost) < MaxLost
  /\ lost' = lost \cup {c}
  /\ UNCHANGED <<file, rest, phase, cur, next, store>>

Build == ReadChunk \/ EndOfFile \/ PutNode \/ PutManifest \/ BuildFails
=============================================================================
