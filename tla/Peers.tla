----------------------------- MODULE Peers -----------------------------
(***************************************************************************)
(* A node and the peers it calls (internal/node): the routing table, the   *)
(* failure counts of onRpcFailure and onRpcSuccess, the goroutines that    *)
(* make calls, and the loop that revalidates the table.  Each locked       *)
(* section is a step of its own, so the accounting of several calls to one *)
(* peer interleaves.  Which goroutine calls whom, except for the loop, is  *)
(* left open here; Lookup makes it precise.                                *)
(***************************************************************************)
EXTENDS Routing

CONSTANTS
  Workers,            \* the goroutines that make calls
  Reval,              \* the goroutine of revalidateLoop
  Me,                 \* the contact each node claims as its own
  Relayed,            \* contacts that answer over their relay only
  Alpha,              \* contacts asked at a time
  FailureThreshold,   \* the count at which a contact is removed
  Tables0,            \* the tables a node may have got from its first peers
  Goals,              \* bound: identifiers looked up, or drawn by the loop
  Visitors,           \* bound: the contacts whose requests arrive
  Mortal,             \* bound: the nodes that may stop
  MaxLost             \* bound: lost calls of each contact

Callers == Workers \cup {Reval}

ASSUME PeersAssumption ==
  /\ Reval \notin Workers
  /\ Self \in DOMAIN Me
  /\ \A c \in Contacts : c.id \in DOMAIN Me
  /\ \A n \in DOMAIN Me : Me[n] \in Contacts /\ Me[n].id = n
  /\ Alpha \in Nat \ {0} /\ FailureThreshold \in Nat /\ MaxLost \in [Contacts -> Nat]
  /\ Goals \subseteq NodeID
  /\ Visitors \subseteq Contacts /\ Mortal \subseteq DOMAIN Me \ {Self}
  /\ Tables0 \subseteq Tables /\ \A t \in Tables0 : WellFormed(t)

VARIABLES
  table,      \* the routing table
  failCount,  \* the failure count of each contact, by identifier and address
  up,         \* the nodes that answer
  job,        \* what each goroutine is doing, and the contact it calls
  sample,     \* revalidateLoop: the contacts still to be pinged
  lost        \* calls to each contact that failed although the node was up

pvars == <<table, failCount, up, job, sample, lost>>

\* idle: no call; call: waiting for the answer; answered: onRpcSuccess is next;
\* remove, clear: the rest of onRpcFailure; ok, failed: the call is accounted for.
Places == {"idle", "call", "answered", "remove", "clear", "ok", "failed"}

PeersInit ==
  /\ table \in Tables0
  /\ failCount = [c \in Contacts |-> 0]
  /\ up = DOMAIN Me
  /\ job = [g \in Callers |-> [at |-> "idle", to |-> Me[Self]]]
  /\ sample = {}
  /\ lost = [c \in Contacts |-> 0]

At(g, place) == job[g].at = place
Goto(g, place) == job' = [job EXCEPT ![g].at = place]

Call(g, c) ==
  /\ At(g, "idle")
  /\ job' = [job EXCEPT ![g] = [at |-> "call", to |-> c]]
  /\ UNCHANGED <<table, failCount, up, lost>>

\* The loop pings by address, whatever the relay of the contact.
Reaches(g) == job[g].to.id \in up /\ ~(g = Reval /\ job[g].to \in Relayed)

\* DialRpc returns an answer: n.rt.Update(m.From)
Answered(g) ==
  /\ At(g, "call") /\ Reaches(g)
  /\ table' = Updated(table, Me[job[g].to.id])
  /\ Goto(g, "answered")
  /\ UNCHANGED <<failCount, up, sample, lost>>

\* bug: a success takes back one failure
SucceedLess(g) ==
  /\ At(g, "answered")
  /\ failCount' = [failCount EXCEPT ![Me[job[g].to.id]] = @ - 2]
  /\ Goto(g, "ok")
  /\ UNCHANGED <<table, up, sample, lost>>

\* onRpcSuccess(m.From): under the contact the peer claims, not the one called.
Succeed(g) ==
  /\ At(g, "answered")
  /\ failCount' = [failCount EXCEPT ![Me[job[g].to.id]] = 0]
  /\ Goto(g, "ok")
  /\ UNCHANGED <<table, up, sample, lost>>

\* bug: a failure counts 3
FailsAtOnce(g) ==
  LET c == job[g].to
  IN /\ At(g, "call")
     /\ IF Reaches(g) THEN lost[c] < MaxLost[c] /\ lost' = [lost EXCEPT ![c] = @ + 1]
        ELSE UNCHANGED lost
     /\ failCount' = [failCount EXCEPT ![c] = @ + 3]
     /\ Goto(g, IF failCount'[c] >= FailureThreshold THEN "remove" ELSE "failed")
     /\ UNCHANGED <<table, up, sample>>

\* DialRpc returns an error: the first locked section of onRpcFailure.
Fails(g) ==
  LET c == job[g].to
  IN /\ At(g, "call")
     /\ IF Reaches(g) THEN lost[c] < MaxLost[c] /\ lost' = [lost EXCEPT ![c] = @ + 1]
        ELSE UNCHANGED lost
     /\ failCount' = [failCount EXCEPT ![c] = @ + 2]
     /\ Goto(g, IF failCount'[c] >= FailureThreshold THEN "remove" ELSE "failed")
     /\ UNCHANGED <<table, up, sample>>

Remove(g) ==
  /\ At(g, "remove")
  /\ table' = Removed(table, job[g].to)
  /\ Goto(g, "clear")
  /\ UNCHANGED <<failCount, up, sample, lost>>

ClearCount(g) ==
  /\ At(g, "clear")
  /\ failCount' = [failCount EXCEPT ![job[g].to] = 0]
  /\ Goto(g, "failed")
  /\ UNCHANGED <<table, up, sample, lost>>

Back(g) ==
  /\ job[g].at \in {"ok", "failed"}
  /\ Goto(g, "idle")
  /\ UNCHANGED <<table, failCount, up, sample, lost>>

Accounting(g) == Succeed(g) \/ Remove(g) \/ ClearCount(g)

\* A request arrives (handleConn, or over the relay), or Bootstrap has pinged
\* a peer: the table is updated and nothing is counted.
Heard(c) ==
  /\ c \in Visitors /\ c.id \in up
  /\ table' = Updated(table, c)
  /\ UNCHANGED <<failCount, up, job, sample, lost>>

\* A peer stops answering.  It may do so in the middle of a call.
Stops(n) ==
  /\ n \in up \cap Mortal
  /\ up' = up \ {n}
  /\ UNCHANGED <<table, failCount, job, sample, lost>>

Environment == (\E c \in Contacts : Heard(c)) \/ (\E n \in DOMAIN Me : Stops(n))

-----------------------------------------------------------------------------
\* revalidateLoop: one ping after the other

RevalTick(t) ==
  /\ sample = {} /\ At(Reval, "idle")
  /\ sample' = Closest(table, t, Alpha)
  /\ UNCHANGED <<table, failCount, up, job, lost>>

RevalPing(c) ==
  /\ c \in sample /\ Call(Reval, c)
  /\ sample' = sample \ {c}

Pinging == Answered(Reval) \/ Fails(Reval) \/ Accounting(Reval) \/ Back(Reval)

Revalidate ==
  \/ \E t \in Goals : RevalTick(t)
  \/ \E c \in Contacts : RevalPing(c)
  \/ Pinging

-----------------------------------------------------------------------------
WorkerStep(g) ==
  \/ \E c \in Contacts : Call(g, c) /\ UNCHANGED sample
  \/ Answered(g) \/ Fails(g) \/ Accounting(g) \/ Back(g)

PeersNext == (\E g \in Workers : WorkerStep(g)) \/ Revalidate \/ Environment

PeersSpec == PeersInit /\ [][PeersNext]_pvars

(***************************************************************************)
(* A call ends, because DialRpc has a timeout, and what follows it is      *)
(* done.  The loop goes on, and as it draws a new random target at every   *)
(* tick, every target comes up again and again.  Nobody has to call, to    *)
(* ask or to stop.                                                         *)
(***************************************************************************)
CallFairness(g) == WF_pvars(Answered(g) \/ Fails(g) \/ Accounting(g) \/ Back(g))
RevalFairness ==
  /\ WF_pvars(\E c \in Contacts : RevalPing(c))
  /\ \A t \in Goals : SF_pvars(RevalTick(t))
-----------------------------------------------------------------------------
PeersTypeOK ==
  /\ table \in Tables
  /\ failCount \in [Contacts -> Nat]
  /\ up \subseteq DOMAIN Me
  /\ job \in [Callers -> [at : Places, to : Contacts]]
  /\ sample \subseteq Contacts
  /\ lost \in [Contacts -> Nat] /\ \A c \in Contacts : lost[c] <= MaxLost[c]

(***************************************************************************)
(* The routing table stays well formed under every interleaving of calls,  *)
(* removals and incoming requests, also when a peer changes its address.   *)
(***************************************************************************)
TableWellFormed == WellFormed(table)

(***************************************************************************)
(* One lost call costs no peer its place (FailureThreshold is 3 and a      *)
(* failure counts 2): a goroutine removes a peer that is up only when two  *)
(* calls to that contact were lost, however their accounting interleaved,  *)
(* or when it has a relay and the pings of the loop do not use it.         *)
(***************************************************************************)
OneLostCallForgiven ==
  [][\A g \in Callers :
       Remove(g) /\ job[g].to.id \in up /\ job[g].to \notin Relayed => lost[job[g].to] >= 2]_pvars

(***************************************************************************)
(* A peer that has stopped leaves the routing table, although it takes two *)
(* failures in a row to remove it and the loop samples only a few peers.   *)
(***************************************************************************)
StoppedPeersLeave ==
  \A n \in DOMAIN Me : n \notin up ~> n \notin {c.id : c \in Known(table)}
=============================================================================
