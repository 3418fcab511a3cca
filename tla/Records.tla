------------------------------ MODULE Records -------------------------------
(***************************************************************************)
(* The records the nodes keep under one key of the DHT, in practice the    *)
(* provider records of one CID (internal/node: node.go, client.go,         *)
(* server.go, providers.go).  A node that has the block publishes a record *)
(* that names itself: Node.Store keeps it with Origin set and sends copies *)
(* to some peers.  Copies also spread through lookups, whose result the    *)
(* node that asks stores for a full lifetime.                              *)
(*                                                                         *)
(* storeMu makes each access to a node's map one atomic step.  RPCs are    *)
(* synchronous calls that are handled once or fail, at the caller, without *)
(* having been handled; a handler that runs after its caller has given up  *)
(* is the same as one that runs before, since the caller keeps nothing.    *)
(*                                                                         *)
(* A unit of time is hours (RecordTTL is 24 h, RepublishInterval 12 h) and *)
(* calls take seconds, so time passes only when no call is in progress and *)
(* no timer is due (Tick).                                                 *)
(***************************************************************************)
EXTENDS Naturals, FiniteSets

CONSTANTS
  Nodes,
  Providers,           \* the nodes that may have the block
  Seekers,             \* the nodes that may look the key up
  RecordTTL,
  RepublishInterval,
  Replicas,
  NoNode               \* no value

ASSUME RecordsAssumption ==
  /\ Providers \subseteq Nodes /\ Seekers \subseteq Nodes
  /\ NoNode \notin Nodes
  /\ RecordTTL \in Nat /\ RepublishInterval \in Nat /\ Replicas \in Nat
  /\ 0 < RepublishInterval /\ RepublishInterval < RecordTTL

VARIABLES
  value,     \* the provider named by each node's record, if it has one
  ttl,       \* what is left of the record's lifetime
  origin,    \* kvRecord.Origin
  timer,     \* time to the next tick of each node's republishLoop
  stage,     \* where each goroutine that calls Node.Store is
  item,      \* the value it stores
  todo,      \* the peers it has still to call
  asked,     \* lookups: visited
  look,      \* lookups: what each seeker is doing
  found,     \* lookups: the answer that will be stored
  stale,     \* nodes where FindValue has read an expired record to delete it
  replicas   \* bookkeeping: the copies of each provider's last publication

\* The goroutines that call Node.Store for the key: a handler of the HTTP API,
\* the block store or the reprovider, and the republishing loop.
Writers == Nodes \X {"put", "republish"}

NodeOf(w) == w[1]

recVars  == <<value, ttl, origin>>
pubVars  == <<stage, item, todo>>
lookVars == <<asked, look, found>>
vars     == <<recVars, timer, pubVars, lookVars, stale, replicas>>

Init ==
  /\ value = [n \in Nodes |-> NoNode]
  /\ ttl = [n \in Nodes |-> 0]
  /\ origin = [n \in Nodes |-> FALSE]
  /\ timer \in [Nodes -> 1 .. RepublishInterval]
  /\ stage = [w \in Writers |-> "idle"]
  /\ item = [w \in Writers |-> NoNode]
  /\ todo = [w \in Writers |-> {}]
  /\ asked = [n \in Nodes |-> {}]
  /\ look = [n \in Nodes |-> "idle"]
  /\ found = [n \in Nodes |-> NoNode]
  /\ stale = {}
  /\ replicas = [n \in Nodes |-> {}]

-----------------------------------------------------------------------------
\* The map of one node

Present(n) == value[n] # NoNode

Fresh(n) == Present(n) /\ ttl[n] > 0

Expired(n) == Present(n) /\ ttl[n] = 0

SetRecord(n, v, isOrigin) ==
  /\ value' = [value EXCEPT ![n] = v]
  /\ ttl' = [ttl EXCEPT ![n] = RecordTTL]
  /\ origin' = [origin EXCEPT ![n] = isOrigin]

Delete(n) ==
  /\ value' = [value EXCEPT ![n] = NoNode]
  /\ ttl' = [ttl EXCEPT ![n] = 0]
  /\ origin' = [origin EXCEPT ![n] = FALSE]

\* Bookkeeping: node n holds another record than the one published to it.
NoReplica(n) == [p \in Nodes |-> replicas[p] \ {n}]

-----------------------------------------------------------------------------
\* Node.Store: put the record locally, look for peers, call each of them.  The
\* lookup may return any peers, the node itself among them (Lookup models it).

StoreLocally(w, v) ==
  LET n == NodeOf(w) IN
  /\ SetRecord(n, v, TRUE)
  /\ replicas' = [NoReplica(n) EXCEPT ![n] = {}]
  /\ \E peers \in SUBSET Nodes :
       /\ Cardinality(peers) <= Replicas
       /\ todo' = [todo EXCEPT ![w] = peers]
  /\ stage' = [stage EXCEPT ![w] = "send"]
  /\ item' = [item EXCEPT ![w] = v]
  /\ UNCHANGED <<timer, lookVars, stale>>

\* Bound: one call in progress at each node.
PutProviderRecord(n) ==
  /\ n \in Providers /\ stage[<<n, "put">>] = "idle"
  /\ StoreLocally(<<n, "put">>, n)

HandleStoreAsOrigin(n, v) == SetRecord(n, v, TRUE)   \* bug: Origin copied from Store

\* The handler of the Store RPC at node n.
HandleStore(n, v) == SetRecord(n, v, FALSE)

SendStore(w, peer) ==
  /\ stage[w] = "send" /\ peer \in todo[w]
  /\ HandleStore(peer, item[w])
  /\ todo' = [todo EXCEPT ![w] = @ \ {peer}]
  /\ replicas' = [NoReplica(peer) EXCEPT ![NodeOf(w)] = @ \cup {peer}]
  /\ UNCHANGED <<timer, stage, item, lookVars, stale>>

SendFails(w, peer) ==
  /\ stage[w] = "send" /\ peer \in todo[w]
  /\ todo' = [todo EXCEPT ![w] = @ \ {peer}]
  /\ UNCHANGED <<recVars, timer, stage, item, lookVars, stale, replicas>>

StoreReturns(w) ==
  /\ stage[w] = "send" /\ todo[w] = {}
  /\ stage' = [stage EXCEPT ![w] = "idle"]
  /\ item' = [item EXCEPT ![w] = NoNode]
  /\ UNCHANGED <<recVars, timer, todo, lookVars, stale, replicas>>

\* DeleteProviderRecord deletes whatever the node holds under the key.
DeleteProviderRecord(n) ==
  /\ n \in Providers
  /\ Delete(n)
  /\ replicas' = NoReplica(n)
  /\ UNCHANGED <<timer, pubVars, lookVars, stale>>

-----------------------------------------------------------------------------
\* republishLoop: take the records that are due under the read lock, then
\* store each of them again, without looking whether it is still there.

DueAnyRecord(n) == ttl[n] <= RepublishInterval  \* bug: the Origin test dropped

DueWhenExpired(n) == origin[n] /\ ttl[n] = 0    \* bug: the interval is not allowed for

Due(n) == origin[n] /\ ttl[n] <= RepublishInterval

RepublishTick(n) ==
  LET w == <<n, "republish">> IN
  /\ timer[n] = 0 /\ stage[w] = "idle"
  /\ timer' = [timer EXCEPT ![n] = RepublishInterval]
  /\ IF Due(n)
     THEN /\ stage' = [stage EXCEPT ![w] = "due"]
          /\ item' = [item EXCEPT ![w] = value[n]]
     ELSE UNCHANGED <<stage, item>>
  /\ UNCHANGED <<recVars, todo, lookVars, stale, replicas>>

Republish(n) ==
  /\ stage[<<n, "republish">>] = "due"
  /\ StoreLocally(<<n, "republish">>, item[<<n, "republish">>])

-----------------------------------------------------------------------------
\* Get and GetClosest: ask peers, the node itself possibly among them, and
\* store the first answer of a round; Get returns then, GetClosest goes on.

StartLookup(n) ==
  /\ n \in Seekers /\ look[n] = "idle"
  /\ look' = [look EXCEPT ![n] = "ask"]
  /\ UNCHANGED <<recVars, timer, pubVars, asked, found, stale, replicas>>

\* The handler of FindValue at node n reads the record first.  An expired one
\* it deletes later (DropStale), under a lock of its own.  Bound: one deletion
\* pending at each node.
FindValue(n, peer) ==
  /\ look[n] = "ask" /\ peer \notin asked[n]
  /\ asked' = [asked EXCEPT ![n] = @ \cup {peer}]
  /\ IF Fresh(peer)
     THEN /\ found' = [found EXCEPT ![n] = value[peer]]
          /\ look' = [look EXCEPT ![n] = "answered"]
     ELSE UNCHANGED <<found, look>>
  /\ stale' = IF Expired(peer) THEN stale \cup {peer} ELSE stale
  /\ UNCHANGED <<recVars, timer, pubVars, replicas>>

DropStale(n) ==
  /\ n \in stale
  /\ stale' = stale \ {n}
  /\ Delete(n)
  /\ replicas' = NoReplica(n)
  /\ UNCHANGED <<timer, pubVars, lookVars>>

Cache(n) ==
  /\ look[n] = "answered"
  /\ SetRecord(n, found[n], FALSE)
  /\ found' = [found EXCEPT ![n] = NoNode]
  /\ look' = [look EXCEPT ![n] = "ask"]
  /\ replicas' = NoReplica(n)
  /\ UNCHANGED <<timer, pubVars, asked, stale>>

LookupReturns(n) ==
  /\ look[n] = "ask"
  /\ look' = [look EXCEPT ![n] = "idle"]
  /\ asked' = [asked EXCEPT ![n] = {}]
  /\ UNCHANGED <<recVars, timer, pubVars, found, stale, replicas>>

-----------------------------------------------------------------------------

\* bug: records of other nodes are kept
GcExpiredOwn(n) ==
  /\ Expired(n) /\ origin[n]
  /\ Delete(n)
  /\ replicas' = NoReplica(n)
  /\ UNCHANGED <<timer, pubVars, lookVars, stale>>

\* gcLoop, every minute.
GcExpired(n) ==
  /\ Expired(n)
  /\ Delete(n)
  /\ replicas' = NoReplica(n)
  /\ UNCHANGED <<timer, pubVars, lookVars, stale>>

\* The process of node n ends and is started again: the map is not saved.
Restart(n) ==
  LET own == {<<n, "put">>, <<n, "republish">>} IN
  /\ Delete(n)
  /\ timer' = [timer EXCEPT ![n] = RepublishInterval]
  /\ stage' = [w \in Writers |-> IF w \in own THEN "idle" ELSE stage[w]]
  /\ item' = [w \in Writers |-> IF w \in own THEN NoNode ELSE item[w]]
  /\ todo' = [w \in Writers |-> IF w \in own THEN {} ELSE todo[w]]
  /\ asked' = [asked EXCEPT ![n] = {}]
  /\ look' = [look EXCEPT ![n] = "idle"]
  /\ found' = [found EXCEPT ![n] = NoNode]
  /\ stale' = stale \ {n}
  /\ replicas' = NoReplica(n)

Less(x) == IF x = 0 THEN 0 ELSE x - 1

\* Between two units of time nothing is in progress.
Quiet ==
  /\ \A w \in Writers : stage[w] = "idle"
  /\ \A n \in Nodes : look[n] = "idle"
  /\ stale = {}

Tick ==
  /\ Quiet
  /\ \A n \in Nodes : timer[n] > 0
  /\ ttl' = [n \in Nodes |-> Less(ttl[n])]
  /\ timer' = [n \in Nodes |-> timer[n] - 1]
  /\ UNCHANGED <<value, origin, pubVars, lookVars, stale, replicas>>

StoreStep(w) ==
  \/ \E peer \in Nodes : SendStore(w, peer) \/ SendFails(w, peer)
  \/ StoreReturns(w)

LookStep(n) ==
  (\E peer \in Nodes : FindValue(n, peer)) \/ Cache(n) \/ LookupReturns(n)

Next ==
  \/ \E n \in Nodes :
       \/ PutProviderRecord(n) \/ DeleteProviderRecord(n)
       \/ RepublishTick(n) \/ Republish(n)
       \/ StartLookup(n) \/ LookStep(n) \/ DropStale(n)
       \/ GcExpired(n) \/ Restart(n)
  \/ \E w \in Writers : StoreStep(w)
  \/ Tick

Spec == Init /\ [][Next]_vars

\* Goroutines that can run do, every loop goes round, and time passes: calls
\* end, so nothing keeps it from passing for ever.
FairSpec ==
  /\ Spec
  /\ \A n \in Nodes :
       WF_vars(RepublishTick(n) \/ Republish(n)) /\ WF_vars(LookStep(n))
       /\ WF_vars(DropStale(n)) /\ WF_vars(GcExpired(n))
  /\ \A w \in Writers : WF_vars(StoreStep(w))
  /\ SF_vars(Tick)

-----------------------------------------------------------------------------
\* Properties

\* Every variable has its type; a call under way has something to store, and
\* a lookup stores nothing but an answer.
TypeOK ==
  /\ value \in [Nodes -> Providers \cup {NoNode}]
  /\ ttl \in [Nodes -> 0 .. RecordTTL]
  /\ origin \in [Nodes -> BOOLEAN]
  /\ timer \in [Nodes -> 0 .. RepublishInterval]
  /\ stage \in [Writers -> {"idle", "due", "send"}]
  /\ item \in [Writers -> Providers \cup {NoNode}]
  /\ \A w \in Writers : stage[w] = "idle" <=> item[w] = NoNode
  /\ todo \in [Writers -> SUBSET Nodes]
  /\ asked \in [Nodes -> SUBSET Nodes]
  /\ look \in [Nodes -> {"idle", "ask", "answered"}]
  /\ found \in [Nodes -> Providers \cup {NoNode}]
  /\ \A n \in Nodes : look[n] = "answered" <=> found[n] # NoNode
  /\ stale \subseteq Nodes
  /\ replicas \in [Nodes -> SUBSET Nodes]

\* Only a provider republishes, and only the record that names itself: copies
\* are never kept alive by the nodes they were sent to.
OriginsAreOwn ==
  /\ \A n \in Nodes : origin[n] => value[n] = n
  /\ \A n \in Nodes, kind \in {"put", "republish"} :
       stage[<<n, kind>>] # "idle" => item[<<n, kind>>] = n

\* Publishing n again, or about to.
Publishing(n) == \E kind \in {"put", "republish"} : stage[<<n, kind>>] # "idle"

\* The record that a node republishes never expires at the node itself nor,
\* by expiry, at the peers that took its last publication.
PublishedStaysFresh ==
  \A n \in Nodes : origin[n] /\ ~Publishing(n) =>
    /\ ttl[n] > 0
    /\ \A peer \in replicas[n] : value[peer] = n /\ ttl[peer] > 0

\* Why PublishedStaysFresh holds: a record of its own that the loop is not
\* about to store again outlives the next tick, and the copies outlive it.
OutlivesTick ==
  \A n \in Nodes :
    origin[n] /\ stage[<<n, "republish">>] # "due" => ttl[n] > timer[n]

CopiesOutlive ==
  \A n \in Nodes : \A peer \in replicas[n] :
    value[peer] = n /\ (origin[n] => ttl[peer] >= ttl[n])

FreshInv == TypeOK /\ OriginsAreOwn /\ OutlivesTick /\ CopiesOutlive

\* When a provider has withdrawn its record for good and no lookup goes on,
\* every copy of it disappears.
Withdrawn(n) == ~origin[n] /\ ~Publishing(n) /\ \A m \in Nodes : look[m] = "idle"

CopiesDisappear ==
  \A n \in Providers : <>[]Withdrawn(n) => <>[](\A m \in Nodes : value[m] # n)
=============================================================================
