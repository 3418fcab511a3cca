----------------------------- MODULE DagReader -----------------------------
(***************************************************************************)
(* The sequential readers of a DAG (internal/dag): Verify, which walks a   *)
(* DAG and compares the spans, and Fetch, which reads a file block by      *)
(* block.  They are the reference that what BuildFromReader puts, and what *)
(* FetchParallel returns, is compared with.  s is the set of blocks that   *)
(* can be read; a reader is a function of the block and of the span its    *)
(* parent records for it.                                                  *)
(***************************************************************************)
EXTENDS Naturals, Sequences

VerifySubtree(s) ==
  LET verified[c \in s] ==
        [span \in Nat |->
           \/ c.type = "data" /\ Len(c.payload) = span
           \/ /\ c.type = "node" /\ c.size = span
              /\ Len(c.cids) = Len(c.spans)
              /\ \A i \in DOMAIN c.cids :
                   c.cids[i] \in s /\ verified[c.cids[i]][c.spans[i]]]
  IN verified

Verify(s, m) ==
  m \in s /\ m.type = "manifest" /\ m.root \in s /\ VerifySubtree(s)[m.root][m.size]

ReadError == [ok |-> FALSE, bytes |-> <<>>]

Bytes(b) == [ok |-> TRUE, bytes |-> b]

\* The children are read in order, each to the place where the one before it ends.
FetchChildren(parts) ==
  LET upTo[n \in 0..Len(parts)] ==
        IF n = 0 THEN Bytes(<<>>)
        ELSE IF upTo[n - 1].ok /\ parts[n].ok
             THEN Bytes(upTo[n - 1].bytes \o parts[n].bytes) ELSE ReadError
  IN upTo[Len(parts)]

FetchLeaf(c, span) ==
  IF Len(c.payload) < span THEN ReadError ELSE Bytes(SubSeq(c.payload, 1, span))

FetchRangeSeq(s) ==
  LET read[c \in s] ==
        [span \in Nat |->
           IF c.type = "data" THEN FetchLeaf(c, span)
           ELSE IF c.type = "node" /\ c.size = span /\ Len(c.cids) = Len(c.spans)
           THEN FetchChildren([i \in DOMAIN c.cids |->
                                 IF c.cids[i] \in s THEN read[c.cids[i]][c.spans[i]]
                                 ELSE ReadError])
           ELSE ReadError]
  IN read

Fetch(s, m) ==
  IF m \in s /\ m.type = "manifest" /\ m.root \in s
  THEN FetchRangeSeq(s)[m.root][m.size] ELSE ReadError
=============================================================================
