---------------------------- MODULE PeersProofs ----------------------------
(***************************************************************************)
(* Proofs about the routing table and the accounting of failures, for      *)
(* identifiers and buckets of any length and any number of goroutines.     *)
(***************************************************************************)
EXTENDS Peers, SequenceTheorems, TLAPS

-----------------------------------------------------------------------------
\* Lists of contacts

\* No two contacts of a list are of one peer.
Distinct(list) == \A i, j \in DOMAIN list : list[i].id = list[j].id => i = j

LEMMA IdsOf ==
  ASSUME NEW S, NEW list \in Seq(S), NEW id
  PROVE  id \in Ids(list) <=> \E i \in 1..Len(list) : list[i].id = id
BY DEF Ids

\* What is left of a list without one of its members.
LEMMA WithoutMember ==
  ASSUME NEW S, NEW list \in Seq(S), NEW id \in Ids(list)
  PROVE  \E i \in 1..Len(list) :
           /\ list[i].id = id
           /\ Without(list, id) \in Seq(S)
           /\ Len(Without(list, id)) = Len(list) - 1
           /\ \A k \in 1..(Len(list) - 1) :
                Without(list, id)[k] = IF k < i THEN list[k] ELSE list[k + 1]
<1> DEFINE i == Position(list, id)
<1>1. i \in 1..Len(list) /\ list[i].id = id
  BY IdsOf DEF Position
<1> HIDE DEF i
<1>2. Without(list, id) = SubSeq(list, 1, i - 1) \o SubSeq(list, i + 1, Len(list))
  BY DEF Without, i
<1>3. /\ SubSeq(list, 1, i - 1) \in Seq(S)
      /\ Len(SubSeq(list, 1, i - 1)) = i - 1
      /\ \A k \in 1..(i - 1) : SubSeq(list, 1, i - 1)[k] = list[k]
  <2>1. i - 1 \in 0..Len(list)
    BY <1>1
  <2> QED
    BY <1>1, <2>1
<1>4. /\ SubSeq(list, i + 1, Len(list)) \in Seq(S)
      /\ Len(SubSeq(list, i + 1, Len(list))) = Len(list) - i
      /\ \A k \in 1..(Len(list) - i) : SubSeq(list, i + 1, Len(list))[k] = list[i + k]
  BY <1>1
<1> DEFINE a == SubSeq(list, 1, i - 1)
           b == SubSeq(list, i + 1, Len(list))
<1>5. /\ a \o b \in Seq(S) /\ Len(a \o b) = Len(list) - 1
      /\ \A k \in 1..(Len(list) - 1) : (a \o b)[k] = IF k < i THEN list[k] ELSE list[k + 1]
  <2> HIDE DEF a, b
  <2>1. /\ a \in Seq(S) /\ Len(a) = i - 1 /\ \A k \in 1..(i - 1) : a[k] = list[k]
        /\ b \in Seq(S) /\ Len(b) = Len(list) - i /\ \A k \in 1..(Len(list) - i) : b[k] = list[i + k]
    BY <1>3, <1>4 DEF a, b
  <2>2. a \o b \in Seq(S) /\ Len(a \o b) = Len(a) + Len(b)
        /\ \A k \in 1..(Len(a) + Len(b)) : (a \o b)[k] = IF k <= Len(a) THEN a[k] ELSE b[k - Len(a)]
    BY <2>1, ConcatProperties
  <2>3. ASSUME NEW k \in 1..(Len(list) - 1)
        PROVE  (a \o b)[k] = IF k < i THEN list[k] ELSE list[k + 1]
    <3>1. CASE k < i
      BY <1>1, <2>1, <2>2, <3>1
    <3>2. CASE ~(k < i)
      <4>1. k - (i - 1) \in 1..(Len(list) - i) /\ i + (k - (i - 1)) = k + 1 /\ k \in 1..(Len(a) + Len(b)) /\ ~(k <= Len(a))
        BY <1>1, <2>1, <3>2
      <4>2. (a \o b)[k] = b[k - Len(a)] /\ b[k - Len(a)] = list[k + 1]
        BY <2>1, <2>2, <4>1
      <4> QED
        BY <3>2, <4>2
    <3> QED
      BY <3>1, <3>2
  <2> QED
    BY <1>1, <2>1, <2>2, <2>3
<1> QED
  BY <1>1, <1>2, <1>5

\* A list loses nothing but the peer, and keeps its contacts distinct.
LEMMA WithoutList ==
  ASSUME NEW S, NEW list \in Seq(S), Distinct(list), NEW id
  PROVE  /\ Without(list, id) \in Seq(S)
         /\ Len(Without(list, id)) <= Len(list)
         /\ id \in Ids(list) => Len(Without(list, id)) < Len(list)
         /\ Distinct(Without(list, id))
         /\ \A k \in DOMAIN Without(list, id) :
              /\ Without(list, id)[k].id # id
              /\ \E j \in DOMAIN list : Without(list, id)[k] = list[j]
<1>1. CASE id \notin Ids(list)
  BY <1>1, IdsOf DEF Without
<1>2. CASE id \in Ids(list)
  <2> DEFINE w == Without(list, id)
  <2>1. PICK i \in 1..Len(list) :
          /\ list[i].id = id /\ w \in Seq(S) /\ Len(w) = Len(list) - 1
          /\ \A k \in 1..(Len(list) - 1) : w[k] = IF k < i THEN list[k] ELSE list[k + 1]
    BY <1>2, WithoutMember
  <2> HIDE DEF w
  <2>2. DOMAIN w = 1..(Len(list) - 1) /\ DOMAIN list = 1..Len(list)
    BY <2>1
  <2>3. ASSUME NEW k \in DOMAIN w
        PROVE  /\ w[k] = list[IF k < i THEN k ELSE k + 1]
               /\ (IF k < i THEN k ELSE k + 1) \in DOMAIN list \ {i}
    BY <2>1, <2>2
  <2>4. ASSUME NEW k \in DOMAIN w
        PROVE  w[k].id # id /\ \E j \in DOMAIN list : w[k] = list[j]
    BY <2>1, <2>2, <2>3 DEF Distinct
  <2>5. ASSUME NEW k \in DOMAIN w, NEW l \in DOMAIN w, w[k].id = w[l].id
        PROVE  k = l
    <3>1. (IF k < i THEN k ELSE k + 1) = (IF l < i THEN l ELSE l + 1)
      BY <2>3, <2>5 DEF Distinct
    <3> QED
      BY <2>2, <3>1
  <2> QED
    BY <2>1, <2>4, <2>5 DEF Distinct, w
<1> QED
  BY <1>1, <1>2

\* What a list may be and the list with one more contact.
LEMMA AppendList ==
  ASSUME NEW S, NEW list \in Seq(S), Distinct(list), NEW c \in S,
         \A k \in DOMAIN list : list[k].id # c.id
  PROVE  /\ Append(list, c) \in Seq(S)
         /\ Len(Append(list, c)) = Len(list) + 1
         /\ Distinct(Append(list, c))
         /\ \A k \in DOMAIN Append(list, c) :
              Append(list, c)[k] = c \/ \E j \in DOMAIN list : Append(list, c)[k] = list[j]
<1> DEFINE l == Append(list, c)
<1>1. /\ l \in Seq(S) /\ Len(l) = Len(list) + 1
      /\ \A k \in 1..Len(list) : l[k] = list[k]
      /\ l[Len(list) + 1] = c
  BY AppendProperties
<1> HIDE DEF l
<1>2. DOMAIN l = 1..(Len(list) + 1) /\ DOMAIN list = 1..Len(list)
  BY <1>1
<1> QED
  BY <1>1, <1>2 DEF Distinct, l

\* Bucket.Touch keeps a list of distinct contacts, and not more of them than
\* KBucketK; all of them are the new one or were in the list.
LEMMA TouchList ==
  ASSUME NEW S, NEW list \in Seq(S), Distinct(list), Len(list) <= KBucketK, NEW c \in S
  PROVE  /\ Touch(list, c) \in Seq(S)
         /\ Len(Touch(list, c)) <= KBucketK
         /\ Distinct(Touch(list, c))
         /\ \A k \in DOMAIN Touch(list, c) :
              Touch(list, c)[k] = c \/ \E j \in DOMAIN list : Touch(list, c)[k] = list[j]
<1> USE RoutingAssumption
<1>1. CASE c.id \in Ids(list)
  <2> DEFINE w == Without(list, c.id)
  <2>1. /\ w \in Seq(S) /\ Len(w) < Len(list) /\ Distinct(w)
        /\ \A k \in DOMAIN w : w[k].id # c.id /\ \E j \in DOMAIN list : w[k] = list[j]
    BY <1>1, WithoutList
  <2>2. Touch(list, c) = Append(w, c)
    BY <1>1 DEF Touch
  <2> HIDE DEF w
  <2>3. /\ Append(w, c) \in Seq(S) /\ Len(Append(w, c)) = Len(w) + 1 /\ Distinct(Append(w, c))
        /\ \A k \in DOMAIN Append(w, c) :
             Append(w, c)[k] = c \/ \E j \in DOMAIN w : Append(w, c)[k] = w[j]
    BY <2>1, AppendList
  <2>4. Len(w) \in Nat /\ Len(list) \in Nat
    BY <2>1
  <2> QED
    BY <2>1, <2>2, <2>3, <2>4
<1>2. CASE c.id \notin Ids(list) /\ Len(list) < KBucketK
  <2>1. \A k \in DOMAIN list : list[k].id # c.id
    BY <1>2 DEF Ids
  <2>2. Touch(list, c) = Append(list, c)
    BY <1>2 DEF Touch
  <2> QED
    BY <1>2, <2>1, <2>2, AppendList
<1>3. CASE c.id \notin Ids(list) /\ ~(Len(list) < KBucketK)
  <2> DEFINE t == Tail(list)
  <2>1. list # <<>> /\ Len(list) = KBucketK
    BY <1>3
  <2>2. /\ t \in Seq(S) /\ Len(t) = Len(list) - 1
        /\ \A i \in 1..Len(t) : t[i] = list[i + 1]
    BY <2>1, HeadTailProperties
  <2>3. Touch(list, c) = Append(t, c)
    BY <1>3 DEF Touch
  <2> HIDE DEF t
  <2>4. DOMAIN t = 1..Len(t) /\ DOMAIN list = 1..Len(list) /\ Len(list) \in Nat
    BY <2>2
  <2>5. Distinct(t) /\ \A k \in DOMAIN t : t[k].id # c.id /\ \E j \in DOMAIN list : t[k] = list[j]
    <3>1. \A k \in DOMAIN t : k + 1 \in DOMAIN list /\ t[k] = list[k + 1]
      BY <2>2, <2>4
    <3>2. \A k \in DOMAIN t : t[k].id # c.id /\ \E j \in DOMAIN list : t[k] = list[j]
      BY <1>3, <3>1 DEF Ids
    <3>3. \A i, j \in DOMAIN t : t[i].id = t[j].id => i + 1 = j + 1
      BY <3>1 DEF Distinct
    <3>4. \A i, j \in DOMAIN t : i + 1 = j + 1 => i = j
      BY <2>2, <2>4
    <3> QED
      BY <3>2, <3>3, <3>4 DEF Distinct
  <2>6. /\ Append(t, c) \in Seq(S) /\ Len(Append(t, c)) = Len(t) + 1 /\ Distinct(Append(t, c))
        /\ \A k \in DOMAIN Append(t, c) :
             Append(t, c)[k] = c \/ \E j \in DOMAIN t : Append(t, c)[k] = t[j]
    BY <2>2, <2>5, AppendList
  <2> QED
    BY <2>1, <2>2, <2>3, <2>4, <2>5, <2>6
<1> QED
  BY <1>1, <1>2, <1>3

-----------------------------------------------------------------------------
\* The table

Sound(t) == t \in Tables /\ WellFormed(t)

LEMMA BucketLists ==
  ASSUME NEW t, Sound(t), NEW b \in Buckets
  PROVE  /\ t[b] \in Seq(Contacts) /\ Len(t[b]) <= KBucketK
         /\ Distinct(t[b])
         /\ \A i \in DOMAIN t[b] : t[b][i].id # Self /\ BucketIndex(t[b][i].id) = b
BY DEF Sound, Tables, WellFormed, Distinct

\* What a bucket may be replaced by.
LEMMA BucketReplaced ==
  ASSUME NEW t, Sound(t), NEW b, NEW l \in Seq(Contacts),
         Len(l) <= KBucketK, Distinct(l),
         \A i \in DOMAIN l : l[i].id # Self /\ BucketIndex(l[i].id) = b
  PROVE  Sound([t EXCEPT ![b] = l])
<1> DEFINE u == [t EXCEPT ![b] = l]
<1>1. t \in [Buckets -> Seq(Contacts)]
  BY DEF Sound, Tables
<1>2. u \in [Buckets -> Seq(Contacts)]
  BY <1>1
<1>3. \A n \in Buckets : u[n] = IF n = b THEN l ELSE t[n]
  BY <1>1
<1> HIDE DEF u
<1>4. ASSUME NEW n \in Buckets
      PROVE  /\ Len(u[n]) <= KBucketK
             /\ \A i \in DOMAIN u[n] : u[n][i].id # Self /\ BucketIndex(u[n][i].id) = n
             /\ \A i, j \in DOMAIN u[n] : u[n][i].id = u[n][j].id => i = j
  <2>1. CASE n = b
    BY <1>3, <2>1 DEF Distinct
  <2>2. CASE n # b
    BY <1>3, <2>2 DEF Sound, WellFormed
  <2> QED
    BY <2>1, <2>2
<1> QED
  BY <1>2, <1>4 DEF Sound, Tables, WellFormed, u

LEMMA UpdatedSound ==
  ASSUME NEW t, Sound(t), NEW c \in Contacts
  PROVE  Sound(Updated(t, c))
<1>1. CASE c.id = Self
  BY <1>1 DEF Updated
<1>2. CASE c.id # Self
  <2> DEFINE b == BucketIndex(c.id)
  <2>1. Updated(t, c) = [t EXCEPT ![b] = Touch(t[b], c)]
    BY <1>2 DEF Updated
  <2>2. CASE b \in Buckets
    <3>1. /\ t[b] \in Seq(Contacts) /\ Len(t[b]) <= KBucketK /\ Distinct(t[b])
          /\ \A i \in DOMAIN t[b] : t[b][i].id # Self /\ BucketIndex(t[b][i].id) = b
      BY <2>2, BucketLists
    <3> DEFINE l == Touch(t[b], c)
    <3>2. /\ l \in Seq(Contacts) /\ Len(l) <= KBucketK /\ Distinct(l)
          /\ \A k \in DOMAIN l : l[k] = c \/ \E j \in DOMAIN t[b] : l[k] = t[b][j]
      BY <3>1, TouchList
    <3>3. b = BucketIndex(c.id)
      OBVIOUS
    <3> HIDE DEF l, b
    <3>4. \A i \in DOMAIN l : l[i].id # Self /\ BucketIndex(l[i].id) = b
      BY <1>2, <3>1, <3>2, <3>3
    <3>5. Sound([t EXCEPT ![b] = l])
      BY <3>2, <3>4, BucketReplaced, Zenon
    <3> QED
      BY <2>1, <3>5 DEF l
  <2>3. CASE b \notin Buckets
    <3> HIDE DEF b
    <3>1. t \in [Buckets -> Seq(Contacts)]
      BY DEF Sound, Tables
    <3>2. [t EXCEPT ![b] = Touch(t[b], c)] = t
      BY <2>3, <3>1
    <3> QED
      BY <2>1, <3>2
  <2> QED
    BY <2>2, <2>3
<1> QED
  BY <1>1, <1>2

LEMMA RemovedSound ==
  ASSUME NEW t, Sound(t), NEW c \in Contacts
  PROVE  Sound(Removed(t, c))
<1> DEFINE b == BucketIndex(c.id)
<1>1. Removed(t, c) = [t EXCEPT ![b] = Without(t[b], c.id)]
  BY DEF Removed
<1> HIDE DEF b
<1>2. CASE b \in Buckets
  <2>1. /\ t[b] \in Seq(Contacts) /\ Len(t[b]) <= KBucketK /\ Distinct(t[b])
        /\ \A i \in DOMAIN t[b] : t[b][i].id # Self /\ BucketIndex(t[b][i].id) = b
    BY <1>2, BucketLists
  <2> DEFINE l == Without(t[b], c.id)
  <2>2. /\ l \in Seq(Contacts) /\ Len(l) <= Len(t[b]) /\ Distinct(l)
        /\ \A k \in DOMAIN l : \E j \in DOMAIN t[b] : l[k] = t[b][j]
    BY <2>1, WithoutList
  <2> HIDE DEF l
  <2>3. Len(l) <= KBucketK
    <3>1. Len(l) \in Nat /\ Len(t[b]) \in Nat
      BY <2>1, <2>2
    <3> QED
      BY <2>1, <2>2, <3>1, RoutingAssumption
  <2>4. \A i \in DOMAIN l : l[i].id # Self /\ BucketIndex(l[i].id) = b
    BY <2>1, <2>2
  <2>5. Sound([t EXCEPT ![b] = l])
    BY <2>2, <2>3, <2>4, BucketReplaced, Zenon
  <2> QED
    BY <1>1, <2>5 DEF l
<1>3. CASE b \notin Buckets
  <2>1. t \in [Buckets -> Seq(Contacts)]
    BY DEF Sound, Tables
  <2>2. [t EXCEPT ![b] = Without(t[b], c.id)] = t
    BY <1>3, <2>1
  <2> QED
    BY <1>1, <2>2
<1> QED
  BY <1>2, <1>3

LEMMA ClosestKnown ==
  ASSUME NEW t, Sound(t), NEW target, NEW max
  PROVE  Closest(t, target, max) \subseteq Contacts
<1>1. ASSUME NEW r PROVE Members(t, Around(target, r)) \subseteq Contacts
  <2>1. \A b \in Buckets : t[b] \in Seq(Contacts)
    BY BucketLists
  <2>2. Around(target, r) \subseteq Buckets
    BY DEF Around
  <2>3. \A b \in Buckets : \A i \in DOMAIN t[b] : t[b][i] \in Contacts
    BY <2>1
  <2> QED
    BY <2>2, <2>3 DEF Members
<1> QED
  BY <1>1 DEF Closest

-----------------------------------------------------------------------------
\* Type correctness and the table

TableInv == PeersTypeOK /\ TableWellFormed

LEMMA TableInit == PeersInit => TableInv
<1> SUFFICES ASSUME PeersInit PROVE TableInv
  OBVIOUS
<1> USE PeersAssumption
<1>1. Me[Self] \in Contacts
  OBVIOUS
<1>2. table \in Tables /\ TableWellFormed
  BY DEF PeersInit, TableWellFormed
<1>3. job \in [Callers -> [at : Places, to : Contacts]]
  BY <1>1 DEF PeersInit, Places
<1> QED
  BY <1>2, <1>3 DEF PeersInit, PeersTypeOK, TableInv

LEMMA TableNext == TableInv /\ [PeersNext]_pvars => TableInv'
<1> SUFFICES ASSUME TableInv, [PeersNext]_pvars PROVE TableInv'
  OBVIOUS
<1> USE PeersAssumption
<1> USE DEF TableInv, TableWellFormed, PeersTypeOK
<1>0. Sound(table)
  BY DEF Sound
<1>1. ASSUME NEW g \in Callers, NEW c \in Contacts, Call(g, c), sample' \subseteq Contacts PROVE TableInv'
  BY <1>1 DEF Call, Places
<1>2. ASSUME NEW g \in Callers, Answered(g) PROVE TableInv'
  <2>1. Me[job[g].to.id] \in Contacts
    OBVIOUS
  <2>2. Sound(table')
    BY <1>0, <1>2, <2>1, UpdatedSound DEF Answered
  <2> QED
    BY <1>2, <2>2 DEF Answered, Goto, Places, Sound
<1>3. ASSUME NEW g \in Callers, Fails(g) PROVE TableInv'
  <2> DEFINE c == job[g].to
  <2>1. c \in Contacts
    OBVIOUS
  <2>2. failCount' \in [Contacts -> Nat]
    BY <1>3 DEF Fails
  <2>3. lost' \in [Contacts -> Nat] /\ \A d \in Contacts : lost'[d] <= MaxLost[d]
    <3>1. CASE Reaches(g)
      <4>1. lost[c] < MaxLost[c] /\ lost' = [lost EXCEPT ![c] = @ + 1]
        BY <1>3, <3>1 DEF Fails
      <4>2. lost \in [Contacts -> Nat] /\ MaxLost \in [Contacts -> Nat]
            /\ \A d \in Contacts : lost[d] <= MaxLost[d]
        OBVIOUS
      <4> HIDE DEF c, TableInv, PeersTypeOK
      <4>3. \A d \in Contacts : lost'[d] = IF d = c THEN lost[c] + 1 ELSE lost[d]
        BY <4>1, <4>2
      <4>4. lost' \in [Contacts -> Nat]
        BY <2>1, <4>1, <4>2
      <4>5. lost[c] \in Nat /\ MaxLost[c] \in Nat /\ lost[c] + 1 <= MaxLost[c]
        BY <2>1, <4>1, <4>2
      <4> QED
        BY <4>2, <4>3, <4>4, <4>5
    <3>2. CASE ~Reaches(g)
      BY <1>3, <3>2 DEF Fails
    <3> QED
      BY <3>1, <3>2
  <2>4. job' \in [Callers -> [at : Places, to : Contacts]]
    BY <1>3 DEF Fails, Goto, Places
  <2>5. UNCHANGED <<table, up, sample>>
    BY <1>3 DEF Fails
  <2> QED
    BY <2>2, <2>3, <2>4, <2>5
<1>4. ASSUME NEW g \in Callers, Succeed(g) PROVE TableInv'
  BY <1>4 DEF Succeed, Goto, Places
<1>5. ASSUME NEW g \in Callers, Remove(g) PROVE TableInv'
  <2>1. Sound(table')
    BY <1>0, <1>5, RemovedSound DEF Remove
  <2> QED
    BY <1>5, <2>1 DEF Remove, Goto, Places, Sound
<1>6. ASSUME NEW g \in Callers, ClearCount(g) PROVE TableInv'
  BY <1>6 DEF ClearCount, Goto, Places
<1>7. ASSUME NEW g \in Callers, Back(g) PROVE TableInv'
  BY <1>7 DEF Back, Goto, Places
<1>8. ASSUME NEW c \in Contacts, Heard(c) PROVE TableInv'
  <2>1. Sound(table')
    BY <1>0, <1>8, UpdatedSound DEF Heard
  <2> QED
    BY <1>8, <2>1 DEF Heard, Sound
<1>9. ASSUME NEW n \in DOMAIN Me, Stops(n) PROVE TableInv'
  BY <1>9 DEF Stops
<1>10. ASSUME NEW t \in Goals, RevalTick(t) PROVE TableInv'
  BY <1>0, <1>10, ClosestKnown DEF RevalTick
<1>11. ASSUME NEW c \in Contacts, RevalPing(c) PROVE TableInv'
  BY <1>1, <1>11 DEF RevalPing, Callers
<1>12. CASE UNCHANGED pvars
  BY <1>12 DEF pvars
<1> QED
  <2>1. ASSUME NEW g \in Callers, Answered(g) \/ Fails(g) \/ Accounting(g) \/ Back(g) PROVE TableInv'
    BY <1>2, <1>3, <1>4, <1>5, <1>6, <1>7, <2>1 DEF Accounting
  <2>2. ASSUME NEW g \in Workers, WorkerStep(g) PROVE TableInv'
    BY <1>1, <2>1, <2>2 DEF WorkerStep, Callers
  <2>3. CASE Revalidate
    BY <1>10, <1>11, <2>1, <2>3 DEF Revalidate, Pinging, Callers
  <2>4. CASE Environment
    BY <1>8, <1>9, <2>4 DEF Environment
  <2> QED
    BY <1>12, <2>2, <2>3, <2>4 DEF PeersNext

(***************************************************************************)
(* The table, the counters and the jobs of the goroutines have their types *)
(* for any number of goroutines and any contacts; what is pinged is known. *)
(***************************************************************************)
THEOREM TypeCorrect == PeersSpec => []PeersTypeOK
<1>1. TableInv => PeersTypeOK
  BY DEF TableInv
<1> QED
  BY TableInit, TableNext, <1>1, PTL DEF PeersSpec

(***************************************************************************)
(* Updates of answered calls and incoming requests, evictions and removals *)
(* keep the table well formed, in whatever order they come.                *)
(***************************************************************************)
THEOREM TableStaysWellFormed == PeersSpec => []TableWellFormed
<1>1. TableInv => TableWellFormed
  BY DEF TableInv
<1> QED
  BY TableInit, TableNext, <1>1, PTL DEF PeersSpec

-----------------------------------------------------------------------------
\* Failures

(***************************************************************************)
(* A contact that does not need a relay and whose node is up has failed    *)
(* only because its calls were lost, twice when it is about to be removed. *)
(***************************************************************************)
Counted ==
  \A c \in Contacts \ Relayed : c.id \in up =>
    /\ failCount[c] <= 2 * lost[c]
    /\ \A g \in Callers : At(g, "remove") /\ job[g].to = c => lost[c] >= 2

LEMMA CountedInit == PeersInit => Counted
<1> SUFFICES ASSUME PeersInit PROVE Counted
  OBVIOUS
<1>1. \A c \in Contacts : failCount[c] = 0 /\ lost[c] = 0
  BY DEF PeersInit
<1>2. \A g \in Callers : ~At(g, "remove")
  BY DEF PeersInit, At
<1> QED
  BY <1>1, <1>2 DEF Counted

LEMMA CountedNext ==
  ASSUME FailureThreshold >= 3
  PROVE  PeersTypeOK /\ Counted /\ [PeersNext]_pvars => Counted'
<1> SUFFICES ASSUME PeersTypeOK, Counted, [PeersNext]_pvars PROVE Counted'
  OBVIOUS
<1> USE PeersAssumption
<1> USE DEF PeersTypeOK
<1>1. ASSUME NEW g \in Callers, NEW c \in Contacts, Call(g, c) PROVE Counted'
  BY <1>1 DEF Call, Counted, At
<1>2. ASSUME NEW g \in Callers, Answered(g) PROVE Counted'
  BY <1>2 DEF Answered, Counted, At, Goto
<1>3. ASSUME NEW g \in Callers, Fails(g) PROVE Counted'
  <2> SUFFICES ASSUME NEW c \in Contacts \ Relayed, c.id \in up'
               PROVE  /\ failCount'[c] <= 2 * lost'[c]
                      /\ \A h \in Callers : At(h, "remove")' /\ job'[h].to = c => lost'[c] >= 2
    BY DEF Counted
  <2>1. c.id \in up
    BY <1>3 DEF Fails
  <2>2. /\ failCount[c] <= 2 * lost[c]
        /\ \A h \in Callers : At(h, "remove") /\ job[h].to = c => lost[c] >= 2
    BY <2>1 DEF Counted
  <2>3. failCount[c] \in Nat /\ lost[c] \in Nat
    OBVIOUS
  <2>4. CASE job[g].to = c
    <3>1. Reaches(g)
      BY <2>1, <2>4 DEF Reaches
    <3>2. failCount'[c] = failCount[c] + 2 /\ lost'[c] = lost[c] + 1
      BY <1>3, <2>4, <3>1 DEF Fails
    <3>3. \A h \in Callers \ {g} : job'[h] = job[h]
      BY <1>3 DEF Fails, Goto
    <3>4. job'[g].at = "remove" => failCount'[c] >= 3
      BY <1>3, <2>4, <3>2, <2>3 DEF Fails, Goto
    <3>5. job'[g].at = "remove" => lost'[c] >= 2
      BY <2>2, <2>3, <3>2, <3>4
    <3> QED
      BY <2>2, <2>3, <3>2, <3>3, <3>5 DEF At
  <2>5. CASE job[g].to # c
    <3>1. failCount'[c] = failCount[c] /\ lost'[c] = lost[c]
      <4>1. CASE Reaches(g)
        BY <1>3, <2>5, <4>1 DEF Fails
      <4>2. CASE ~Reaches(g)
        BY <1>3, <2>5, <4>2 DEF Fails
      <4> QED
        BY <4>1, <4>2
    <3>2. job'[g].to = job[g].to /\ \A h \in Callers \ {g} : job'[h] = job[h]
      BY <1>3 DEF Fails, Goto
    <3> QED
      BY <2>2, <2>5, <3>1, <3>2 DEF At
  <2> QED
    BY <2>4, <2>5
<1>4. ASSUME NEW g \in Callers, Succeed(g) PROVE Counted'
  BY <1>4 DEF Succeed, Counted, At, Goto
<1>5. ASSUME NEW g \in Callers, Remove(g) PROVE Counted'
  BY <1>5 DEF Remove, Counted, At, Goto
<1>6. ASSUME NEW g \in Callers, ClearCount(g) PROVE Counted'
  BY <1>6 DEF ClearCount, Counted, At, Goto
<1>7. ASSUME NEW g \in Callers, Back(g) PROVE Counted'
  BY <1>7 DEF Back, Counted, At, Goto
<1>8. ASSUME NEW c \in Contacts, Heard(c) PROVE Counted'
  BY <1>8 DEF Heard, Counted, At
<1>9. ASSUME NEW n \in DOMAIN Me, Stops(n) PROVE Counted'
  BY <1>9 DEF Stops, Counted, At
<1>10. ASSUME NEW t \in Goals, RevalTick(t) PROVE Counted'
  BY <1>10 DEF RevalTick, Counted, At
<1>11. CASE UNCHANGED pvars
  BY <1>11 DEF pvars, Counted, At
<1> QED
  <2>1. ASSUME NEW g \in Callers, Answered(g) \/ Fails(g) \/ Accounting(g) \/ Back(g) PROVE Counted'
    BY <1>2, <1>3, <1>4, <1>5, <1>6, <1>7, <2>1 DEF Accounting
  <2>2. ASSUME NEW g \in Workers, WorkerStep(g) PROVE Counted'
    BY <1>1, <2>1, <2>2 DEF WorkerStep, Callers
  <2>3. CASE Revalidate
    BY <1>1, <1>10, <2>1, <2>3 DEF Revalidate, RevalPing, Pinging, Callers
  <2>4. CASE Environment
    BY <1>8, <1>9, <2>4 DEF Environment
  <2> QED
    BY <1>11, <2>2, <2>3, <2>4 DEF PeersNext

(***************************************************************************)
(* With the threshold of the configuration, no interleaving of the         *)
(* accounting of any number of calls removes a peer that is up for one     *)
(* lost call: two calls to that contact have been lost.                    *)
(***************************************************************************)
THEOREM OneLostCallIsForgiven ==
  ASSUME FailureThreshold >= 3
  PROVE  PeersSpec => OneLostCallForgiven
<1> DEFINE Forgiven ==
      \A g \in Callers :
        Remove(g) /\ job[g].to.id \in up /\ job[g].to \notin Relayed => lost[job[g].to] >= 2
<1>1. PeersTypeOK /\ Counted /\ [PeersNext]_pvars => [Forgiven]_pvars
  BY DEF PeersTypeOK, Counted, Remove
<1>2. PeersInit => PeersTypeOK /\ Counted
  BY TableInit, CountedInit DEF TableInv
<1>3. PeersTypeOK /\ Counted /\ [PeersNext]_pvars => Counted'
  BY CountedNext
<1>4. PeersSpec => []PeersTypeOK
  BY TypeCorrect
<1>5. PeersSpec => [][Forgiven]_pvars
  BY <1>1, <1>2, <1>3, <1>4, PTL DEF PeersSpec
<1> QED
  BY <1>5 DEF OneLostCallForgiven
=============================================================================
