------------------------------ MODULE MCLookup ------------------------------
(***************************************************************************)
(* Instances of Lookup for TLC: identifiers of three bits, buckets of two. *)
(* Three peers fall into one bucket, so that one of them is evicted for    *)
(* another; one of them is known under two addresses (the one it claims    *)
(* and the one handleConn saw), one is reached over a relay only.          *)
(***************************************************************************)
EXTENDS Lookup, TLC

CONSTANT reval

me == <<0, 0, 0>>
a  == <<1, 0, 0>>
b  == <<1, 0, 1>>
c  == <<1, 1, 0>>

At2(n, addr) == [id |-> n, addr |-> addr]

MCMe == (me :> At2(me, "me")) @@ (a :> At2(a, "a")) @@ (b :> At2(b, "b")) @@ (c :> At2(c, "c"))

\* handleConn saw a at an address that a does not claim.
a2 == At2(a, "a2")

MCContacts == {MCMe[n] : n \in DOMAIN MCMe} \cup {a2}

TableOf(bucket0) == [n \in 0..2 |-> IF n = 0 THEN bucket0 ELSE <<>>]

MCTables0 == {TableOf(<<a2, MCMe[b]>>), TableOf(<<MCMe[a]>>)}

\* What a, b and c answer: each other, or this node.
Chain  == (a :> {MCMe[b], a2}) @@ (b :> {MCMe[c]}) @@ (c :> {MCMe[a]})
Spread == (a :> {MCMe[c]}) @@ (b :> {MCMe[a], MCMe[c]}) @@ (c :> {MCMe[b], MCMe[me]})
MCTopologies ==
  {[nodes |-> Chain, holders |-> {c}], [nodes |-> Chain, holders |-> {}],
   [nodes |-> Spread, holders |-> {c}]}

MCRelayed == {MCMe[b]}
MCGoals   == {<<1, 1, 1>>, a}
MCVisitors == {a2}
MCMortal == {a}
MCFree == MCMe[a]
MCMaxLost == [x \in MCContacts |-> IF x = MCMe[a] THEN 2 ELSE 0]

-----------------------------------------------------------------------------
(***************************************************************************)
(* Two kinds of nodes in one run.  One makes a lookup; bound: its loop     *)
(* does not tick meanwhile.  The other makes no lookup: its loop runs, and *)
(* one goroutine calls one peer again and again.                           *)
(***************************************************************************)
CONSTANT Free

LooksUp == place # "off" /\ Next /\ UNCHANGED sample

Revalidates ==
  /\ place = "off"
  /\ WorkerStep(Free) \/ Revalidate \/ Environment
  /\ job'[Free].to \in {Free, Me[Self]}
  /\ UNCHANGED lookupVars

MCInit == LookupInit /\ (place = "off" => knows.nodes = Chain /\ knows.holders = {c} /\ ~cached)

MCSpec ==
  /\ MCInit
  /\ [][LooksUp \/ Revalidates]_lvars
  /\ Fairness
  /\ place = "off" => RevalFairness /\ CallFairness(Reval) /\ CallFairness(Free)

(***************************************************************************)
(* StoppedPeersLeave of the nodes whose loop runs.                         *)
(***************************************************************************)
StoppedPeersLeaveNodes == place = "off" => StoppedPeersLeave
=============================================================================
