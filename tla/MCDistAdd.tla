----------------------------- MODULE MCDistAdd ------------------------------
(***************************************************************************)
(* A file of one chunk and two peers; the node that adds and the peer that *)
(* takes blocks also read them.                                            *)
(***************************************************************************)
EXTENDS DistAdd

CONSTANTS a, m, me, p, q

MCFiles == {<<a, m>>}
MCKind  == [c \in {a, m} |-> IF c = m THEN "manifest" ELSE "data"]
MCLinks == [c \in {a, m} |-> IF c = m THEN {a} ELSE {}]

\* Bound: blocks are read only while no answer has been lost (what p has
\* confirmed does not depend on a request that was given up).
ReadBound == reads = {} \/ lost = 0

MCSpec == DistInit /\ [][Next /\ ReadBound']_dvars /\ DistFairness
=============================================================================
