---------------------------- MODULE LookupProofs ----------------------------
(***************************************************************************)
(* Proofs about the lookups of a node: a node that looks identifiers up is *)
(* one of Peers, for contacts, topologies and batches of any size, and its *)
(* results leave out no contact without a reason.                          *)
(***************************************************************************)
EXTENDS Lookup, PeersProofs, FiniteSetTheorems

-----------------------------------------------------------------------------
\* Lists of contacts

LEMMA FirstOfMembers ==
  ASSUME NEW S, NEW t, NEW n, NEW F \in FirstOf(S, t, n)
  PROVE  /\ F \subseteq S
         /\ \A c \in F, d \in S \ F : ~Nearer(t, d.id, c.id)
BY DEF FirstOf

\* Only a full list leaves contacts out.
LEMMA FirstOfDropsWhenFull ==
  ASSUME NEW S, IsFiniteSet(S), NEW t, NEW n \in Nat, NEW F \in FirstOf(S, t, n),
         S \ F # {}
  PROVE  Cardinality(F) = n
<1>1. F \subseteq S /\ Cardinality(F) = IF Cardinality(S) < n THEN Cardinality(S) ELSE n
  BY DEF FirstOf
<1>2. Cardinality(F) # Cardinality(S)
  BY <1>1, FS_Subset
<1> QED
  BY <1>1, <1>2

\* Stripping a list takes visited contacts only.
LEMMA StrippedMembers ==
  ASSUME NEW S, NEW t, NEW seen, NEW R \in Stripped(S, t, seen)
  PROVE  R \subseteq S /\ \A c \in S \ R : c.addr \in seen
BY DEF Stripped

LEMMA NearestMembers == ASSUME NEW S, NEW t PROVE NearestOf(S, t) \subseteq S
BY DEF NearestOf

-----------------------------------------------------------------------------
\* Distances

\* A nonempty set of numbers has a least member.
LEMMA LeastNumber ==
  ASSUME NEW S \in SUBSET Nat, S # {}
  PROVE  \E n \in S : \A m \in S : n <= m
<1> DEFINE Below(n) == 0..n
           T == {Below(n) : n \in S}
           R == StrictSubsetOrdering(Nat)
<1>1. IsWellFoundedOn(R, FiniteSubsetsOf(Nat))
  BY FS_StrictSubsetOrderingWellFounded
<1>2. T \subseteq FiniteSubsetsOf(Nat) /\ T # {}
  <2>1. \A n \in S : IsFiniteSet(0..n)
    BY FS_Interval
  <2>2. ASSUME NEW n \in S PROVE Below(n) \in FiniteSubsetsOf(Nat)
    BY <2>1 DEF FiniteSubsetsOf
  <2> HIDE DEF Below
  <2> QED
    BY <2>2
<1>3. PICK x \in T : \A y \in T : ~(<<y, x>> \in R)
  <2> HIDE DEF T, R
  <2> QED
    BY <1>1, <1>2, WFMin
<1>4. PICK n \in S : x = Below(n)
  OBVIOUS
<1>5. ASSUME NEW m \in S, m < n PROVE FALSE
  <2>1. Below(m) \subseteq Below(n) /\ Below(m) # Below(n)
    <3>1. n \in Below(n) /\ n \notin Below(m)
      BY <1>5
    <3> QED
      BY <1>5, <3>1
  <2>2. Below(m) \in SUBSET Nat /\ Below(n) \in SUBSET Nat
    OBVIOUS
  <2> HIDE DEF Below
  <2>3. <<Below(m), Below(n)>> \in R
    BY <2>1, <2>2 DEF StrictSubsetOrdering
  <2> QED
    BY <1>3, <1>4, <2>3
<1> QED
  BY <1>5

\* Nearer is a strict weak order: what is nearer than c is nearer than b, or b
\* is nearer than c.  The first bit in which a and b differ decides.
LEMMA NearerIsWeakOrder ==
  ASSUME NEW t \in NodeID, NEW a \in NodeID, NEW b \in NodeID, NEW c \in NodeID,
         Nearer(t, a, c)
  PROVE  Nearer(t, a, b) \/ Nearer(t, b, c)
<1>1. PICK i \in 1..IdBits : /\ a[i] = t[i] /\ c[i] # t[i]
                            /\ \A j \in 1..(i - 1) : a[j] = c[j]
  BY DEF Nearer
<1>2. CASE \A j \in 1..(i - 1) : a[j] = b[j]
  <2>1. \A j \in 1..(i - 1) : b[j] = c[j]
    BY <1>1, <1>2
  <2> QED
    BY <1>1, <1>2, <2>1 DEF Nearer
<1>3. CASE \E j \in 1..(i - 1) : a[j] # b[j]
  <2> DEFINE D == {j \in 1..(i - 1) : a[j] # b[j]}
  <2>1. D \in SUBSET Nat /\ D # {}
    BY <1>3
  <2>2. PICK j \in D : \A m \in D : j <= m
    <3> HIDE DEF D
    <3> QED
      BY <2>1, LeastNumber
  <2>3. j \in 1..IdBits /\ j \in 1..(i - 1) /\ a[j] # b[j] /\ a[j] = c[j]
    BY <1>1, RoutingAssumption
  <2>4. ASSUME NEW m \in 1..(j - 1) PROVE a[m] = b[m] /\ b[m] = c[m]
    <3>1. m \in 1..(i - 1) /\ m \notin D
      BY <2>2, <2>3, RoutingAssumption
    <3> QED
      BY <1>1, <3>1
  <2>5. a[j] \in {0, 1} /\ b[j] \in {0, 1} /\ t[j] \in {0, 1}
    BY <2>3 DEF NodeID
  <2>6. CASE b[j] = t[j]
    BY <2>3, <2>4, <2>6 DEF Nearer
  <2>7. CASE b[j] # t[j]
    BY <2>3, <2>4, <2>5, <2>7 DEF Nearer
  <2> QED
    BY <2>6, <2>7
<1> QED
  BY <1>2, <1>3

\* And no two identifiers are each nearer than the other.
LEMMA NearerIsAsymmetric ==
  ASSUME NEW t \in NodeID, NEW a \in NodeID, NEW b \in NodeID, Nearer(t, a, b)
  PROVE  ~Nearer(t, b, a)
<1>1. PICK i \in 1..IdBits : /\ a[i] = t[i] /\ b[i] # t[i]
                            /\ \A j \in 1..(i - 1) : a[j] = b[j]
  BY DEF Nearer
<1> SUFFICES ASSUME NEW k \in 1..IdBits, b[k] = t[k], a[k] # t[k],
                    \A j \in 1..(k - 1) : b[j] = a[j]
             PROVE  FALSE
  BY DEF Nearer
<1>2. i < k \/ k < i \/ i = k
  BY RoutingAssumption
<1> QED
  BY <1>1, <1>2, RoutingAssumption

\* In a finite list no contact is nearer than the nearest.
LEMMA NothingNearerThanNearest ==
  ASSUME NEW S \in SUBSET Contacts, IsFiniteSet(S), NEW t \in NodeID, NEW c \in S
  PROVE  \E b \in NearestOf(S, t) : ~Nearer(t, c.id, b.id)
<1>0. \A d \in S : d.id \in NodeID
  BY RoutingAssumption
<1> DEFINE Before(d) == {e \in S : Nearer(t, e.id, d.id)}
           T == {Before(d) : d \in S}
           R == StrictSubsetOrdering(S)
<1>1. IsWellFoundedOn(R, SUBSET S)
  BY FS_StrictSubsetOrderingWellFounded, FS_FiniteSubsetsOfFinite
<1>2. T \subseteq SUBSET S /\ T # {}
  OBVIOUS
<1>3. PICK x \in T : \A y \in T : ~(<<y, x>> \in R)
  <2> HIDE DEF T, R
  <2> QED
    BY <1>1, <1>2, WFMin
<1>4. PICK b \in S : x = Before(b)
  OBVIOUS
<1>5. ASSUME NEW d \in S, Nearer(t, d.id, b.id) PROVE FALSE
  <2>1. ASSUME NEW e \in S, Nearer(t, e.id, d.id) PROVE Nearer(t, e.id, b.id)
    <3>1. Nearer(t, e.id, b.id) \/ Nearer(t, b.id, d.id)
      BY <1>0, <2>1, NearerIsWeakOrder
    <3>2. ~Nearer(t, b.id, d.id)
      BY <1>0, <1>5, NearerIsAsymmetric
    <3> QED
      BY <3>1, <3>2
  <2>2. ~Nearer(t, d.id, d.id)
    BY <1>0, NearerIsAsymmetric
  <2>3. Before(d) \subseteq Before(b) /\ Before(d) # Before(b)
    BY <1>5, <2>1, <2>2
  <2>4. <<Before(d), Before(b)>> \in R
    BY <2>3 DEF StrictSubsetOrdering
  <2> QED
    BY <1>3, <1>4, <2>4
<1> QED
  BY <1>5 DEF NearestOf

-----------------------------------------------------------------------------
\* A node that looks identifiers up is one of Peers

LookupInv == TypeOK /\ TableWellFormed /\ knows \in Topologies

LEMMA NodesAreContacts ==
  ASSUME LookupInv, NEW c \in Contacts
  PROVE  Nodes(c) \subseteq Contacts
<1>1. CASE c.id = Self
  <2>1. Sound(table)
    BY DEF LookupInv, TypeOK, PeersTypeOK, TableWellFormed, Sound
  <2>2. Nodes(c) = Closest(table, goal, KBucketK)
    BY <1>1 DEF Nodes
  <2> QED
    BY <2>1, <2>2, ClosestKnown
<1>2. CASE c.id # Self
  BY <1>2, LookupAssumption DEF LookupInv, Nodes
<1> QED
  BY <1>1, <1>2

LEMMA WorkerIsPeer ==
  ASSUME NEW c \in Contacts, Worker(c)
  PROVE  PeersNext
<1> USE LookupAssumption
<1>1. Answered(c) \/ Fails(c) \/ Accounting(c) \/ Back(c)
  BY DEF Worker, InCall, MergeNodes, MergeValue, GivesUp
<1> QED
  BY <1>1 DEF PeersNext, WorkerStep

\* Every step of a node is a step of Peers, or none of its business.
LEMMA StepIsPeers ==
  ASSUME LookupInv, [Next]_lvars
  PROVE  [PeersNext]_pvars
<1>1. ASSUME NEW k \in Kinds, NEW t \in Goals, StartLookup(k, t) PROVE UNCHANGED pvars
  BY <1>1 DEF StartLookup
<1>2. CASE BeginRound \/ FindNodeTurns \/ ValueTurns
  BY <1>2 DEF BeginRound, FindNodeTurns, ValueTurns
<1>3. ASSUME NEW c \in batch, Skip(c) PROVE UNCHANGED pvars
  BY <1>3 DEF Skip
<1>4. ASSUME NEW c \in batch, Spawn(c) PROVE PeersNext
  <2>1. c \in Workers /\ c \in Contacts
    BY LookupAssumption DEF LookupInv, TypeOK
  <2>2. Call(c, c) /\ UNCHANGED sample
    BY <1>4 DEF Spawn
  <2> QED
    BY <2>1, <2>2 DEF PeersNext, WorkerStep
<1>5. ASSUME NEW c \in Contacts, Worker(c) PROVE PeersNext
  BY <1>5, WorkerIsPeer
<1>6. CASE MapRace
  BY <1>6 DEF MapRace
<1>7. CASE Revalidate \/ Environment
  BY <1>7 DEF PeersNext
<1>8. CASE UNCHANGED lvars
  BY <1>8 DEF lvars, pvars
<1> QED
  BY <1>1, <1>2, <1>3, <1>4, <1>5, <1>6, <1>7, <1>8 DEF Next, Loop

LEMMA LookupInit_Inv == LookupInit => LookupInv
<1> SUFFICES ASSUME LookupInit PROVE LookupInv
  OBVIOUS
<1>1. TableInv
  BY TableInit DEF LookupInit
<1>2. Self \in NodeID
  BY RoutingAssumption
<1> QED
  BY <1>1, <1>2 DEF LookupInit, LookupInv, TypeOK, TableInv, Kinds

LEMMA LookupNext_Inv == LookupInv /\ [Next]_lvars => LookupInv'
<1> SUFFICES ASSUME LookupInv, [Next]_lvars PROVE LookupInv'
  OBVIOUS
<1>1. TableInv'
  <2>1. TableInv /\ [PeersNext]_pvars
    BY StepIsPeers DEF LookupInv, TypeOK, TableInv
  <2> QED
    BY <2>1, TableNext
<1>2. Sound(table)
  BY DEF LookupInv, TypeOK, PeersTypeOK, TableWellFormed, Sound
<1> DEFINE Rest ==
      /\ kind \in Kinds /\ goal \in NodeID
      /\ place \in {"off", "idle", "round", "spawn", "ended", "crashed"}
      /\ list \cup batch \cup learned \cup cut \cup best \cup replied \subseteq Contacts
      /\ visited \subseteq {c.addr : c \in Contacts}
      /\ {progress, found, values, cached} \subseteq BOOLEAN
      /\ knows \in Topologies
<1>3. Rest
  BY DEF LookupInv, TypeOK
<1>4. ASSUME NEW k \in Kinds, NEW t \in Goals, StartLookup(k, t) PROVE Rest'
  <2>1. list' \subseteq Contacts
    BY <1>2, <1>4, ClosestKnown DEF StartLookup
  <2>2. t \in NodeID
    BY PeersAssumption
  <2> QED
    BY <1>3, <1>4, <2>1, <2>2 DEF StartLookup
<1>5. ASSUME BeginRound PROVE Rest'
  <2>1. batch' \subseteq list /\ best' \subseteq list
    BY <1>5, FirstOfMembers, NearestMembers DEF BeginRound
  <2> QED
    BY <1>3, <1>5, <2>1 DEF BeginRound
<1>6. ASSUME FindNodeTurns PROVE Rest'
  <2>1. list' \subseteq list /\ cut' \subseteq cut \cup list
    BY <1>6, FirstOfMembers DEF FindNodeTurns
  <2> QED
    BY <1>3, <1>6, <2>1 DEF FindNodeTurns
<1>7. ASSUME ValueTurns PROVE Rest'
  <2>1. PICK S \in Stripped(list, goal, visited) :
          list' \in FirstOf(S, goal, KBucketK) /\ cut' = cut \cup (S \ list')
    BY <1>7 DEF ValueTurns
  <2>2. list' \subseteq list /\ cut' \subseteq cut \cup list
    BY <2>1, FirstOfMembers, StrippedMembers
  <2> QED
    BY <1>3, <1>7, <2>2 DEF ValueTurns
<1>8. ASSUME NEW c \in batch, Skip(c) PROVE Rest'
  BY <1>3, <1>8 DEF Skip
<1>9. ASSUME NEW c \in batch, Spawn(c) PROVE Rest'
  BY <1>3, <1>9 DEF Spawn
<1>10. ASSUME NEW c \in Contacts, InCall(c) \/ GivesUp(c) PROVE Rest'
  BY <1>3, <1>10 DEF InCall, GivesUp, lookupVars
<1>11. ASSUME NEW c \in Contacts, MergeNodes(c) PROVE Rest'
  <2>1. list' \subseteq list \cup Nodes(c)
    BY <1>11, StrippedMembers DEF MergeNodes
  <2>2. progress' \in BOOLEAN
    BY <1>3, <1>11 DEF MergeNodes, BetterBest
  <2> QED
    BY <1>3, <1>11, <2>1, <2>2, NodesAreContacts DEF MergeNodes
<1>12. ASSUME NEW c \in Contacts, MergeValue(c) PROVE Rest'
  <2>1. Nodes(c) \subseteq Contacts
    BY NodesAreContacts
  <2>2. /\ list' \subseteq list \cup Nodes(c) /\ learned' \subseteq learned \cup Nodes(c)
        /\ found' \in BOOLEAN
    BY <1>3, <1>12 DEF MergeValue
  <2> QED
    BY <1>3, <1>12, <2>1, <2>2 DEF MergeValue
<1>13. ASSUME MapRace PROVE Rest'
  BY <1>3, <1>13 DEF MapRace
<1>14. ASSUME UNCHANGED lookupVars PROVE Rest'
  BY <1>3, <1>14 DEF lookupVars
<1>15. UNCHANGED lvars => UNCHANGED lookupVars
  BY DEF lvars, lookupVars
<1>16. Rest'
  BY <1>4, <1>5, <1>6, <1>7, <1>8, <1>9, <1>10, <1>11, <1>12, <1>13, <1>14, <1>15
  DEF Next, Loop, Worker
<1> QED
  BY <1>1, <1>16 DEF LookupInv, TypeOK, TableInv

(***************************************************************************)
(* The lists of a lookup hold contacts, for contacts, answers and batches  *)
(* of any number.                                                          *)
(***************************************************************************)
THEOREM LookupTypeCorrect == Spec => []TypeOK
<1>1. LookupInv => TypeOK
  BY DEF LookupInv
<1> QED
  BY LookupInit_Inv, LookupNext_Inv, <1>1, PTL DEF Spec

(***************************************************************************)
(* A node that looks identifiers up is one of Peers: no lookup, whatever   *)
(* it is told, does more to the routing table and the failure counts than  *)
(* the goroutines of Peers do.                                             *)
(***************************************************************************)
THEOREM LookupImplementsPeers == Spec => ImplementsPeers
<1>1. LookupInit => PeersInit
  BY DEF LookupInit
<1>2. LookupInv /\ [Next]_lvars => [PeersNext]_pvars
  BY StepIsPeers
<1> QED
  BY LookupInit_Inv, LookupNext_Inv, <1>1, <1>2, PTL DEF Spec, ImplementsPeers, PeersSpec

(***************************************************************************)
(* What follows for the lookups: they keep the routing table well formed.  *)
(***************************************************************************)
THEOREM LookupKeepsTable == Spec => []TableWellFormed
BY LookupImplementsPeers, TableStaysWellFormed, PTL DEF ImplementsPeers

(***************************************************************************)
(* And no contact loses its place in the table for one lost call.          *)
(***************************************************************************)
THEOREM LookupForgives ==
  ASSUME FailureThreshold >= 3
  PROVE  Spec => OneLostCallForgiven
BY LookupImplementsPeers, OneLostCallIsForgiven, PTL DEF ImplementsPeers

-----------------------------------------------------------------------------
\* What a lookup returns

\* Goroutines work only while their round lasts.
Quiet == place \notin {"spawn", "crashed"} => \A c \in Contacts : At(c, "idle")

Idle == place \in {"off", "idle"} => kind = "FindNode" /\ learned = {} /\ replied = {} /\ ~found

(***************************************************************************)
(* In all rounds, what was learned and is not in the list has been asked,  *)
(* or cut by Get and GetClosest; and no answer of a peer without the value *)
(* has made them believe that they have it, or the other way round.        *)
(***************************************************************************)
Searching ==
  /\ kind = "FindNode" /\ place # "ended" => \A c \in learned \ list : c.addr \in visited
  /\ kind # "FindNode" =>
       /\ \A c \in learned \ (list \cup cut) : c.addr \in visited
       /\ ~values /\ ~found => \A c \in replied : c.id \notin knows.holders
       /\ place = "round" /\ found => values
       /\ place = "ended" /\ ~values => list = {} /\ ~found

ResultInv == Quiet /\ Idle /\ Searching /\ ResultMissesOnlyAsked

LEMMA ResultInit == LookupInit => ResultInv
<1> SUFFICES ASSUME LookupInit PROVE ResultInv
  OBVIOUS
<1>1. \A c \in Contacts : At(c, "idle")
  BY LookupAssumption DEF LookupInit, PeersInit, At, Callers
<1> QED
  BY <1>1 DEF LookupInit, ResultInv, Quiet, Idle, Searching, ResultMissesOnlyAsked, Ended

\* The loop of revalidateLoop and the other nodes leave the goroutines alone.
LEMMA OthersKeepQuiet ==
  ASSUME LookupInv, Revalidate \/ Environment, NEW c \in Contacts, At(c, "idle")
  PROVE  At(c, "idle")'
<1>1. c \in Callers /\ c # Reval /\ job \in [Callers -> [at : Places, to : Contacts]]
  BY LookupAssumption, PeersAssumption DEF LookupInv, TypeOK, PeersTypeOK, Callers
<1>2. job'[c] = job[c]
  <2>1. CASE Environment
    BY <2>1 DEF Environment, Heard, Stops
  <2>2. CASE Pinging
    BY <1>1, <2>2 DEF Pinging, Answered, Fails, Accounting, Succeed, Remove, ClearCount, Back, Goto
  <2>3. ASSUME NEW t \in Goals, RevalTick(t) PROVE job'[c] = job[c]
    BY <2>3 DEF RevalTick
  <2>4. ASSUME NEW d \in Contacts, RevalPing(d) PROVE job'[c] = job[c]
    BY <1>1, <2>4 DEF RevalPing, Call
  <2> QED
    BY <2>1, <2>2, <2>3, <2>4 DEF Revalidate
<1> QED
  BY <1>2 DEF At

\* A goroutine that does something is not idle, so that the round lasts.
LEMMA WorkerInRound ==
  ASSUME Quiet, NEW c \in Contacts, Worker(c), place # "crashed"
  PROVE  place = "spawn" /\ place' = "spawn"
<1>1. ~At(c, "idle")
  BY DEF Worker, InCall, MergeNodes, MergeValue, GivesUp, At,
         Answered, Fails, Accounting, Succeed, Remove, ClearCount, Back
<1>2. place' = place
  BY DEF Worker, InCall, MergeNodes, MergeValue, GivesUp, lookupVars
<1> QED
  BY <1>1, <1>2 DEF Quiet

LEMMA SearchTurns ==
  ASSUME LookupInv, ResultInv, FindNodeTurns \/ ValueTurns
  PROVE  ResultInv'
<1>1. Quiet' /\ Idle'
  <2>1. \A c \in Contacts : At(c, "idle")'
    BY DEF FindNodeTurns, ValueTurns, RoundOver, At, pvars
  <2>2. place' \notin {"off", "idle"}
    BY DEF FindNodeTurns, ValueTurns
  <2> QED
    BY <2>1, <2>2 DEF Quiet, Idle
<1>2. ASSUME FindNodeTurns, place' = "ended"
      PROVE  Searching' /\ ResultMissesOnlyAsked'
  <2>1. /\ list' \in FirstOf(list, goal, KBucketK) /\ kind = "FindNode" /\ place = "spawn"
        /\ UNCHANGED <<learned, visited, goal, kind>>
    BY <1>2 DEF FindNodeTurns, RoundOver
  <2>2. IsFiniteSet(list)
    BY LookupAssumption, FS_Subset DEF LookupInv, TypeOK
  <2>3. KBucketK \in Nat
    BY RoutingAssumption
  <2>4. ASSUME NEW c \in learned \ list'
        PROVE  \/ c.addr \in visited
               \/ Cardinality(list') = KBucketK /\ \A r \in list' : ~Nearer(goal, c.id, r.id)
    <3>1. CASE c \in list
      BY <2>1, <2>2, <2>3, <2>4, <3>1, FirstOfMembers, FirstOfDropsWhenFull
    <3>2. CASE c \notin list
      BY <2>1, <2>4, <3>2 DEF ResultInv, Searching
    <3> QED
      BY <3>1, <3>2
  <2> QED
    BY <1>2, <2>1, <2>4 DEF Searching, ResultMissesOnlyAsked, Ended
<1>3. ASSUME FindNodeTurns, place' # "ended"
      PROVE  Searching' /\ ResultMissesOnlyAsked'
  <2>1. kind = "FindNode" /\ place = "spawn" /\ UNCHANGED <<learned, visited, list, kind>>
    BY <1>3 DEF FindNodeTurns, RoundOver
  <2> QED
    BY <1>3, <2>1 DEF ResultInv, Searching, ResultMissesOnlyAsked, Ended
<1>4. ASSUME ValueTurns PROVE Searching' /\ ResultMissesOnlyAsked'
  <2>1. /\ kind # "FindNode" /\ place' \in {"ended", "round"} /\ values' = (values \/ found)
        /\ place' = "ended" => list' = {} \/ found
        /\ UNCHANGED <<kind, learned, visited, found, replied, knows>>
    BY <1>4 DEF ValueTurns
  <2>2. PICK S \in Stripped(list, goal, visited) :
          list' \in FirstOf(S, goal, KBucketK) /\ cut' = cut \cup (S \ list')
    BY <1>4 DEF ValueTurns
  <2>3. ASSUME NEW c \in learned' \ (list' \cup cut') PROVE c.addr \in visited'
    <3>1. c \notin S /\ c \in learned \ cut
      BY <2>1, <2>2, <2>3
    <3>2. CASE c \in list
      BY <2>1, <2>2, <3>1, <3>2, StrippedMembers
    <3>3. CASE c \notin list
      BY <2>1, <3>1, <3>3 DEF ResultInv, Searching
    <3> QED
      BY <3>2, <3>3
  <2> QED
    BY <2>1, <2>3 DEF ResultInv, Searching, ResultMissesOnlyAsked, Ended
<1> QED
  BY <1>1, <1>2, <1>3, <1>4 DEF ResultInv

LEMMA SearchMerges ==
  ASSUME LookupInv, ResultInv, place # "crashed", NEW c \in Contacts, Worker(c)
  PROVE  ResultInv'
<1>1. place = "spawn" /\ place' = "spawn"
  BY WorkerInRound DEF ResultInv
<1>2. Quiet' /\ Idle' /\ ResultMissesOnlyAsked'
  BY <1>1 DEF Quiet, Idle, ResultMissesOnlyAsked, Ended
<1>3. ASSUME InCall(c) \/ GivesUp(c) PROVE Searching'
  BY <1>3, <1>1 DEF InCall, GivesUp, lookupVars, ResultInv, Searching
<1>4. ASSUME MergeNodes(c) PROVE Searching'
  <2>1. /\ list' \in Stripped(list \cup Nodes(c), goal, visited) /\ kind = "FindNode"
        /\ learned' = learned \cup Nodes(c) /\ UNCHANGED <<kind, visited>>
    BY <1>4 DEF MergeNodes
  <2>2. ASSUME NEW d \in learned' \ list' PROVE d.addr \in visited
    <3>1. CASE d \in list \cup Nodes(c)
      BY <2>1, <2>2, <3>1, StrippedMembers
    <3>2. CASE d \notin list \cup Nodes(c)
      BY <1>1, <2>1, <2>2, <3>2 DEF ResultInv, Searching
    <3> QED
      BY <3>1, <3>2
  <2> QED
    BY <2>1, <2>2 DEF Searching
<1>5. ASSUME MergeValue(c) PROVE Searching'
  <2>1. kind # "FindNode" /\ replied' = replied \cup {c} /\ UNCHANGED <<kind, visited, values, knows, cut>>
    BY <1>5 DEF MergeValue
  <2>2. CASE c.id \in knows.holders \/ (c.id = Self /\ cached)
    <3>1. found' = TRUE /\ UNCHANGED <<list, learned>>
      BY <1>5, <2>2 DEF MergeValue
    <3> QED
      BY <1>1, <2>1, <3>1 DEF ResultInv, Searching
  <2>3. CASE ~(c.id \in knows.holders \/ (c.id = Self /\ cached))
    <3>1. /\ list' = list \cup Nodes(c) /\ learned' = learned \cup Nodes(c)
          /\ UNCHANGED found
      BY <1>5, <2>3 DEF MergeValue
    <3>2. \A d \in learned' \ (list' \cup cut') : d.addr \in visited'
      BY <2>1, <3>1 DEF ResultInv, Searching
    <3> QED
      BY <1>1, <2>1, <2>3, <3>1, <3>2 DEF ResultInv, Searching
  <2> QED
    BY <2>2, <2>3
<1> QED
  BY <1>2, <1>3, <1>4, <1>5 DEF Worker, ResultInv

LEMMA ResultNext == LookupInv /\ ResultInv /\ [Next]_lvars => ResultInv'
<1> SUFFICES ASSUME LookupInv, ResultInv, [Next]_lvars PROVE ResultInv'
  OBVIOUS
<1> USE DEF ResultInv, Quiet, Idle, Searching, ResultMissesOnlyAsked, Ended
<1>1. ASSUME NEW k \in Kinds, NEW t \in Goals, StartLookup(k, t) PROVE ResultInv'
  <2>1. /\ place = "idle" /\ kind' = k /\ learned' = list' /\ place' \in {"ended", "round"}
        /\ place' = "ended" => kind' # "FindNode" /\ list' = {}
        /\ UNCHANGED <<job, visited, found, replied>>
    BY <1>1 DEF StartLookup, pvars
  <2> QED
    BY <2>1 DEF At
<1>2. ASSUME BeginRound PROVE ResultInv'
  <2>1. /\ place = "round" /\ place' = "spawn" /\ found' = FALSE
        /\ UNCHANGED <<kind, list, visited, values, knows, learned, cut, replied>>
    BY <1>2 DEF BeginRound
  <2> QED
    BY <2>1
<1>3. ASSUME NEW c \in batch, Skip(c) \/ Spawn(c) PROVE ResultInv'
  <2>1. /\ place = "spawn" /\ visited \subseteq visited'
        /\ UNCHANGED <<kind, place, list, found, values, knows, learned, cut, replied>>
    BY <1>3 DEF Skip, Spawn
  <2> QED
    BY <2>1
<1>4. ASSUME FindNodeTurns \/ ValueTurns PROVE ResultInv'
  BY <1>4, SearchTurns
<1>5. ASSUME place # "crashed", NEW c \in Contacts, Worker(c) PROVE ResultInv'
  BY <1>5, SearchMerges
<1>6. ASSUME MapRace PROVE ResultInv'
  <2>1. /\ place' = "crashed"  /\ place = "spawn"
        /\ UNCHANGED <<kind, list, visited, found, values, knows, learned, cut, replied>>
    BY <1>6 DEF MapRace
  <2> QED
    BY <2>1
<1>7. ASSUME Revalidate \/ Environment, UNCHANGED lookupVars PROVE ResultInv'
  <2>1. UNCHANGED <<kind, goal, place, list, visited, found, values, knows, learned, cut, replied>>
    BY <1>7 DEF lookupVars
  <2>2. Quiet'
    BY <1>7, <2>1, OthersKeepQuiet
  <2> QED
    BY <2>1, <2>2
<1>8. ASSUME UNCHANGED lvars PROVE ResultInv'
  BY <1>8 DEF lvars, At
<1> HIDE DEF ResultInv
<1> QED
  BY <1>1, <1>2, <1>3, <1>4, <1>5, <1>6, <1>7, <1>8 DEF Next, Loop

(***************************************************************************)
(* IterativeFindNode loses no contact but those it asked and those that    *)
(* are not nearer than a full list, in whatever order the answers come.    *)
(***************************************************************************)
THEOREM FindNodeLosesOnlyAsked == Spec => []ResultMissesOnlyAsked
<1>1. ResultInv => ResultMissesOnlyAsked
  BY DEF ResultInv
<1> QED
  BY LookupInit_Inv, LookupNext_Inv, ResultInit, ResultNext, <1>1, PTL DEF Spec

(***************************************************************************)
(* When Get and GetClosest find nothing, no peer that answered has it, and *)
(* all they learned of, and did not cut off, has been asked.               *)
(***************************************************************************)
THEOREM NotFoundMeansAsked == Spec => []NotFoundIsExhaustive
<1>1. ResultInv => NotFoundIsExhaustive
  BY DEF ResultInv, Searching, NotFoundIsExhaustive, Ended
<1> QED
  BY LookupInit_Inv, LookupNext_Inv, ResultInit, ResultNext, <1>1, PTL DEF Spec

-----------------------------------------------------------------------------
\* When a lookup stops

(***************************************************************************)
(* NewsIsFollowed is not inductive: a contact that has been asked may be   *)
(* the nearest of the list, and the next answer is compared with it.  What *)
(* holds in every step is the same of all contacts of the list.            *)
(***************************************************************************)
NoNews ==
  place \in {"spawn", "ended"} /\ kind = "FindNode" /\ ~progress =>
    \A c \in list : \E b \in best : ~Nearer(goal, c.id, b.id)

\* Without progress an answer has brought nothing nearer than what was there.
LEMMA MergeWithoutProgress ==
  ASSUME LookupInv, NoNews, place = "spawn", NEW c \in Contacts, MergeNodes(c), ~progress',
         NEW e \in list'
  PROVE  \E b \in best : ~Nearer(goal, e.id, b.id)
<1>1. list \subseteq Contacts /\ list' \subseteq Contacts /\ best \subseteq Contacts /\ goal \in NodeID
  <2>1. list' \subseteq list \cup Nodes(c)
    BY StrippedMembers DEF MergeNodes
  <2> QED
    BY <2>1, NodesAreContacts DEF LookupInv, TypeOK
<1>2. ~progress /\ kind = "FindNode" /\ ~BetterBest(list', list, goal)
  BY DEF MergeNodes
<1>3. PICK d \in NearestOf(list, goal), f \in NearestOf(list', goal) : ~Nearer(goal, f.id, d.id)
  BY <1>2 DEF BetterBest
<1>4. d \in list /\ f \in list' /\ ~Nearer(goal, e.id, f.id)
  BY DEF NearestOf
<1>5. PICK b \in best : ~Nearer(goal, d.id, b.id)
  BY <1>2, <1>4 DEF NoNews
<1>6. {e.id, f.id, d.id, b.id} \subseteq NodeID
  BY <1>1, <1>4, RoutingAssumption
<1> QED
  BY <1>1, <1>3, <1>4, <1>5, <1>6, NearerIsWeakOrder

LEMMA NoNewsNext == LookupInv /\ ResultInv /\ NoNews /\ [Next]_lvars => NoNews'
<1> SUFFICES ASSUME LookupInv, ResultInv, NoNews, [Next]_lvars PROVE NoNews'
  OBVIOUS
<1>1. ASSUME NEW k \in Kinds, NEW t \in Goals, StartLookup(k, t) PROVE NoNews'
  BY <1>1 DEF StartLookup, NoNews
<1>2. ASSUME BeginRound PROVE NoNews'
  <2>1. list \in SUBSET Contacts /\ IsFiniteSet(list) /\ goal \in NodeID
    BY LookupAssumption, FS_Subset DEF LookupInv, TypeOK
  <2>2. \A c \in list : \E b \in NearestOf(list, goal) : ~Nearer(goal, c.id, b.id)
    BY <2>1, NothingNearerThanNearest
  <2> QED
    BY <1>2, <2>2 DEF BeginRound, NoNews
<1>3. ASSUME NEW c \in batch, Skip(c) \/ Spawn(c) PROVE NoNews'
  BY <1>3 DEF Skip, Spawn, NoNews
<1>4. ASSUME FindNodeTurns PROVE NoNews'
  <2>1. place = "spawn" /\ UNCHANGED <<kind, goal, progress, best>>
    BY <1>4 DEF FindNodeTurns, RoundOver
  <2>2. list' \subseteq list
    BY <1>4, FirstOfMembers DEF FindNodeTurns
  <2> QED
    BY <2>1, <2>2 DEF NoNews
<1>5. ASSUME ValueTurns PROVE NoNews'
  BY <1>5 DEF ValueTurns, RoundOver, NoNews
<1>6. ASSUME place # "crashed", NEW c \in Contacts, Worker(c) PROVE NoNews'
  <2>1. place = "spawn" /\ place' = "spawn"
    BY <1>6, WorkerInRound DEF ResultInv
  <2>2. CASE MergeNodes(c)
    <3>1. UNCHANGED <<kind, goal, best>>
      BY <2>2 DEF MergeNodes
    <3> QED
      BY <2>1, <2>2, <3>1, MergeWithoutProgress DEF NoNews
  <2>3. CASE MergeValue(c)
    BY <2>3 DEF MergeValue, NoNews
  <2>4. CASE InCall(c) \/ GivesUp(c)
    BY <2>4 DEF InCall, GivesUp, lookupVars, NoNews
  <2> QED
    BY <1>6, <2>2, <2>3, <2>4 DEF Worker
<1>7. ASSUME MapRace PROVE NoNews'
  BY <1>7 DEF MapRace, NoNews
<1>8. ASSUME UNCHANGED lookupVars PROVE NoNews'
  BY <1>8 DEF lookupVars, NoNews
<1>9. ASSUME UNCHANGED lvars PROVE UNCHANGED lookupVars
  BY <1>9 DEF lvars, lookupVars
<1> QED
  BY <1>1, <1>2, <1>3, <1>4, <1>5, <1>6, <1>7, <1>8, <1>9 DEF Next, Loop

(***************************************************************************)
(* IterativeFindNode does not stop on good news: a round that ends without *)
(* progress has left it no contact to ask that is nearer than what it had  *)
(* when the round began, whatever the order in which the answers came.     *)
(***************************************************************************)
THEOREM NoNewsIsLost == Spec => []NewsIsFollowed
<1>1. LookupInit => NoNews
  BY DEF LookupInit, NoNews
<1>2. NoNews => NewsIsFollowed
  BY DEF NoNews, NewsIsFollowed
<1> QED
  BY LookupInit_Inv, LookupNext_Inv, ResultInit, ResultNext, NoNewsNext, <1>1, <1>2, PTL DEF Spec
=============================================================================
