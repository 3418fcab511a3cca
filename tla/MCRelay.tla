------------------------------ MODULE MCRelay -------------------------------
(***************************************************************************)
(* Two nodes whose handlers call each other: the handler of r1 at node A   *)
(* calls B (r2), whose handler calls A (r3), which is still handling r1.   *)
(* Node A can attach twice.                                                *)
(***************************************************************************)
EXTENDS Relay

CONSTANTS A, B, a1, a2, b1, r1, r2, r3

TheOwner  == [c \in Conns |-> IF c = b1 THEN B ELSE A]
TheTarget == [r \in Requests |-> IF r = r2 THEN B ELSE A]
TheSub    == [r \in Requests |-> CASE r = r1 -> r2 [] r = r2 -> r3 [] r = r3 -> None]
=============================================================================
