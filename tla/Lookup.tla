------------------------------- MODULE Lookup -------------------------------
(***************************************************************************)
(* The lookups of a node (internal/node/client.go): IterativeFindNode, Get *)
(* and GetClosest ask the nearest contacts they know in batches of Alpha,  *)
(* one goroutine per contact, and learn more contacts from the answers;    *)
(* and the loop that revalidates the routing table beside them.            *)
(*                                                                         *)
(* A list of contacts, which the code keeps sorted by distance, is a set   *)
(* here.  Two contacts of one peer are equally near: the sort may put      *)
(* either first, and where that matters either is possible.                *)
(***************************************************************************)
EXTENDS Peers

CONSTANTS
  Topologies    \* records of nodes, the contacts each other node answers, by
                \* identifier, and holders, the nodes with a record for the key

\* One goroutine per contact asked; nodes answer with contacts that occur.
ASSUME LookupAssumption ==
  /\ Workers = Contacts /\ IsFiniteSet(Contacts)
  /\ \A t \in Topologies, c \in Contacts : c.id # Self => t.nodes[c.id] \subseteq Contacts

VARIABLES
  kind,       \* which function runs
  goal,       \* the identifier it looks up
  place,      \* where it is; "off" in a node that makes no lookup
  list,       \* shortlist, or cands
  batch,      \* the contacts of this round the loop has not looked at
  visited,    \* the addresses asked
  progress,   \* FindNode: an answer of this round brought something nearer
  found,      \* Get, GetClosest: an answer of this round has the value
  values,     \* Get, GetClosest: a value has been found
  cached,     \* the node's own map has a record for the key
  knows,      \* the answers of the other nodes
  learned,    \* history: all contacts this lookup had in its list
  cut,        \* history: those it dropped because the list was too long
  best,       \* history: the nearest contacts when the round began
  replied     \* history: the contacts whose answer was used

lookupVars == <<kind, goal, place, list, batch, visited, progress, found,
                values, cached, knows, learned, cut, best, replied>>
lvars == <<table, failCount, up, job, sample, lost, kind, goal, place, list,
           batch, visited, progress, found, values, cached, knows, learned,
           cut, best, replied>>

Kinds == {"FindNode", "Get", "GetClosest"}

LookupInit ==
  /\ PeersInit
  /\ kind = "FindNode" /\ goal = Self /\ place \in {"idle", "off"}
  /\ list = {} /\ batch = {} /\ visited = {}
  /\ progress = FALSE /\ found = FALSE /\ values = FALSE
  /\ cached \in BOOLEAN
  /\ knows \in Topologies
  /\ learned = {} /\ cut = {} /\ best = {} /\ replied = {}
-----------------------------------------------------------------------------
\* Sorted lists as sets

NearestOf(S, t) == {c \in S : ~ \E d \in S : Nearer(t, d.id, c.id)}

\* What may be the first n of S sorted by distance to t.
FirstOf(S, t, n) ==
  {F \in SUBSET S :
     /\ Cardinality(F) = IF Cardinality(S) < n THEN Cardinality(S) ELSE n
     /\ \A c \in F, d \in S \ F : ~Nearer(t, d.id, c.id)}

\* bug: one contact too many is dropped
StrippedOneMore(S, t, seen) ==
  LET fresh == {c \in S : c.addr \notin seen}
  IN {fresh \ N : N \in FirstOf(fresh, t, 1)}

\* uniqAndSortByDist: the sorted list loses its visited prefix.  A visited
\* contact as near as the first one not visited may stand before or after it.
Stripped(S, t, seen) ==
  LET fresh  == {c \in S : c.addr \notin seen}
      prefix == {c \in S \ fresh : \A d \in fresh : Nearer(t, c.id, d.id)}
      ties   == {c \in S \ fresh : c.id \in {d.id : d \in NearestOf(fresh, t)}}
  IN {S \ (prefix \cup T) : T \in SUBSET ties}

\* bestDist(S) < bestDist(U)
BetterBest(S, U, t) ==
  S # {} /\ \A d \in NearestOf(U, t) : \A c \in NearestOf(S, t) : Nearer(t, c.id, d.id)

-----------------------------------------------------------------------------
\* The loop

StartLookup(k, t) ==
  /\ place = "idle"
  /\ kind' = k /\ goal' = t
  /\ list' = IF k = "Get" /\ cached THEN {}
             ELSE Closest(table, t, IF k = "GetClosest" THEN Alpha ELSE KBucketK)
  /\ learned' = list'
  /\ values' = (k # "FindNode" /\ cached)
  /\ place' = IF k # "FindNode" /\ list' = {} THEN "ended" ELSE "round"
  /\ UNCHANGED <<pvars, batch, visited, progress, found, cached, knows, cut,
                 best, replied>>

BeginRound ==
  /\ place = "round"
  /\ batch' \in FirstOf(list, goal, Alpha)
  /\ progress' = FALSE /\ found' = FALSE
  /\ best' = NearestOf(list, goal)
  /\ place' = "spawn"
  /\ UNCHANGED <<pvars, kind, goal, list, visited, values, cached, knows,
                 learned, cut, replied>>

\* One turn of the loop over the batch, nearest first.
Skip(c) ==
  /\ place = "spawn" /\ c \in NearestOf(batch, goal) /\ c.addr \in visited
  /\ batch' = batch \ {c}
  /\ UNCHANGED <<pvars, kind, goal, place, list, visited, progress, found,
                 values, cached, knows, learned, cut, best, replied>>

\* bug: a contact asked is not marked
SpawnUnmarked(c) ==
  /\ place = "spawn" /\ c \in NearestOf(batch, goal) /\ c.addr \notin visited
  /\ batch' = batch \ {c}
  /\ UNCHANGED visited
  /\ Call(c, c) /\ UNCHANGED sample
  /\ UNCHANGED <<kind, goal, place, list, progress, found, values, cached,
                 knows, learned, cut, best, replied>>

Spawn(c) ==
  /\ place = "spawn" /\ c \in NearestOf(batch, goal) /\ c.addr \notin visited
  /\ batch' = batch \ {c}
  /\ visited' = visited \cup {c.addr}
  /\ Call(c, c) /\ UNCHANGED sample
  /\ UNCHANGED <<kind, goal, place, list, progress, found, values, cached,
                 knows, learned, cut, best, replied>>

\* wg.Wait has returned: what each function does between two rounds.
RoundOver ==
  /\ place = "spawn" /\ batch = {} /\ \A c \in Contacts : At(c, "idle")

FindNodeTurns ==
  /\ RoundOver /\ kind = "FindNode"
  /\ IF progress /\ Cardinality(list) < KBucketK
     THEN place' = "round" /\ UNCHANGED <<list, cut>>
     ELSE /\ place' = "ended"
          /\ list' \in FirstOf(list, goal, KBucketK)
          /\ cut' = cut \cup (list \ list')
  /\ UNCHANGED <<pvars, kind, goal, batch, visited, progress, found, values,
                 cached, knows, learned, best, replied>>

ValueTurns ==
  /\ RoundOver /\ kind # "FindNode"
  /\ cached' = (cached \/ found) /\ values' = (values \/ found)
  /\ \E S \in Stripped(list, goal, visited) : list' \in FirstOf(S, goal, KBucketK)
                                            /\ cut' = cut \cup (S \ list')
  /\ place' = IF list' = {} \/ (kind = "Get" /\ found) THEN "ended" ELSE "round"
  /\ UNCHANGED <<pvars, kind, goal, batch, visited, progress, found, knows,
                 learned, best, replied>>

-----------------------------------------------------------------------------
\* The goroutines, one per contact asked

InCall(c) == (Answered(c) \/ Fails(c) \/ Accounting(c)) /\ UNCHANGED lookupVars

Nodes(c) == IF c.id = Self THEN Closest(table, goal, KBucketK) ELSE knows.nodes[c.id]

\* bug: the last answer decides about progress
MergeNodesLastWins(c) ==
  /\ kind = "FindNode" /\ At(c, "ok") /\ Back(c)
  /\ list' \in Stripped(list \cup Nodes(c), goal, visited)
  /\ progress' = BetterBest(list', list, goal)
  /\ learned' = learned \cup Nodes(c) /\ replied' = replied \cup {c}
  /\ UNCHANGED <<kind, goal, place, batch, visited, found, values, cached,
                 knows, cut, best>>

\* The section of mu in IterativeFindNode.
MergeNodes(c) ==
  /\ kind = "FindNode" /\ At(c, "ok") /\ Back(c)
  /\ list' \in Stripped(list \cup Nodes(c), goal, visited)
  /\ progress' = (progress \/ BetterBest(list', list, goal))
  /\ learned' = learned \cup Nodes(c) /\ replied' = replied \cup {c}
  /\ UNCHANGED <<kind, goal, place, batch, visited, found, values, cached,
                 knows, cut, best>>

\* bug: the answer replaces the candidates
MergeValueReplaces(c) ==
  /\ kind # "FindNode" /\ At(c, "ok") /\ Back(c)
  /\ IF c.id \in knows.holders \/ (c.id = Self /\ cached)
     THEN found' = TRUE /\ UNCHANGED <<list, learned>>
     ELSE /\ list' = Nodes(c) /\ learned' = learned \cup Nodes(c)
          /\ UNCHANGED found
  /\ replied' = replied \cup {c}
  /\ UNCHANGED <<kind, goal, place, batch, visited, progress, values, cached,
                 knows, cut, best>>

\* The sections of mu in Get and GetClosest: a value, or more contacts.
MergeValue(c) ==
  /\ kind # "FindNode" /\ At(c, "ok") /\ Back(c)
  /\ IF c.id \in knows.holders \/ (c.id = Self /\ cached)
     THEN found' = TRUE /\ UNCHANGED <<list, learned>>
     ELSE /\ list' = list \cup Nodes(c) /\ learned' = learned \cup Nodes(c)
          /\ UNCHANGED found
  /\ replied' = replied \cup {c}
  /\ UNCHANGED <<kind, goal, place, batch, visited, progress, values, cached,
                 knows, cut, best>>

\* bug: a failed call is made again
GivesUpNever(c) ==
  /\ At(c, "failed") /\ Goto(c, "call")
  /\ UNCHANGED <<table, failCount, up, sample, lost, lookupVars>>

GivesUp(c) == At(c, "failed") /\ Back(c) /\ UNCHANGED lookupVars

Worker(c) == InCall(c) \/ MergeNodes(c) \/ MergeValue(c) \/ GivesUp(c)

(***************************************************************************)
(* uniqAndSortByDist reads visited under mu, the loop writes it without:   *)
(* the Go runtime may end the program when it notices the two together.    *)
(***************************************************************************)
MapRace ==
  /\ place = "spawn" /\ kind = "FindNode"
  /\ \E c \in batch : c.addr \notin visited
  /\ \E c \in Contacts : At(c, "ok")
  /\ place' = "crashed"
  /\ UNCHANGED <<pvars, kind, goal, list, batch, visited, progress, found,
                 values, cached, knows, learned, cut, best, replied>>
-----------------------------------------------------------------------------
Loop ==
  \/ BeginRound \/ FindNodeTurns \/ ValueTurns
  \/ \E c \in batch : Skip(c) \/ Spawn(c)

Next ==
  /\ place # "crashed"
  /\ \/ \E k \in Kinds, t \in Goals : StartLookup(k, t)
     \/ Loop
     \/ \E c \in Contacts : Worker(c)
     \/ MapRace
     \/ (Revalidate \/ Environment) /\ UNCHANGED lookupVars

Spec == LookupInit /\ [][Next]_lvars

(***************************************************************************)
(* Goroutines that can go on do, and a call ends: DialRpc has a timeout.   *)
(* Nobody has to ask, to call us, to stop or to revalidate.                *)
(***************************************************************************)
Fairness ==
  /\ WF_lvars(place # "crashed" /\ Loop)
  /\ \A c \in Contacts : WF_lvars(place # "crashed" /\ Worker(c))
-----------------------------------------------------------------------------
TypeOK ==
  /\ PeersTypeOK
  /\ kind \in Kinds /\ goal \in NodeID
  /\ place \in {"off", "idle", "round", "spawn", "ended", "crashed"}
  /\ list \cup batch \cup learned \cup cut \cup best \cup replied \subseteq Contacts
  /\ visited \subseteq {c.addr : c \in Contacts}
  /\ {progress, found, values, cached} \subseteq BOOLEAN

Ended(ks) == place = "ended" /\ kind \in ks

(***************************************************************************)
(* IterativeFindNode returns every contact it learned of, except those it  *)
(* asked and, when the list is full, those that are not nearer.  Whatever  *)
(* the order of the answers, sorting and stripping lose nothing else.      *)
(***************************************************************************)
ResultMissesOnlyAsked ==
  Ended({"FindNode"}) =>
    \A c \in learned \ list :
      \/ c.addr \in visited
      \/ Cardinality(list) = KBucketK /\ \A r \in list : ~Nearer(goal, c.id, r.id)

(***************************************************************************)
(* IterativeFindNode does not stop on good news: as long as it sees no     *)
(* progress, its list has no contact to ask that is nearer than all it had *)
(* when the round began.  The test for progress is made once per answer,   *)
(* against a list that earlier answers have changed.                       *)
(***************************************************************************)
NewsIsFollowed ==
  place \in {"spawn", "ended"} /\ kind = "FindNode" /\ ~progress =>
    \A c \in list : c.addr \notin visited => \E b \in best : ~Nearer(goal, c.id, b.id)

(***************************************************************************)
(* Get and GetClosest report "not found" only when no peer that answered   *)
(* has the value, and every contact they learned of has been asked, except *)
(* those cut off because the list was longer than KBucketK.                *)
(***************************************************************************)
NotFoundIsExhaustive ==
  Ended({"Get", "GetClosest"}) /\ ~values =>
    /\ \A c \in replied : c.id \notin knows.holders
    /\ \A c \in learned \ cut : c.addr \in visited

(***************************************************************************)
(* A node that looks identifiers up is one of Peers: what Peers says of    *)
(* the routing table and of the failure counts is true of it.              *)
(***************************************************************************)
ImplementsPeers == PeersSpec

(***************************************************************************)
(* A lookup ends, unless the program does, however peers fail meanwhile.   *)
(***************************************************************************)
LookupEnds == (place = "round") ~> (place \in {"ended", "crashed"})
=============================================================================
