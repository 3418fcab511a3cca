---------------------------- MODULE RecordsProofs ----------------------------
(***************************************************************************)
(* Proofs about the records of a key, for any number of nodes and any      *)
(* lifetime that is longer than the interval of the republishing loop.     *)
(***************************************************************************)
EXTENDS Records, TLAPS

\* The ways a step can write to the maps of the nodes.
LEMMA WriterTyped ==
  /\ \A w \in Writers : NodeOf(w) \in Nodes
  /\ \A n \in Nodes : /\ <<n, "put">> \in Writers /\ <<n, "republish">> \in Writers
                      /\ NodeOf(<<n, "put">>) = n /\ NodeOf(<<n, "republish">>) = n
  BY DEF Writers, NodeOf

LEMMA NoReplicaTyped ==
  ASSUME replicas \in [Nodes -> SUBSET Nodes], NEW n \in Nodes
  PROVE  NoReplica(n) \in [Nodes -> SUBSET Nodes]
  BY DEF NoReplica

-----------------------------------------------------------------------------
\* Type correctness

LEMMA TypeInit == Init => TypeOK
  BY RecordsAssumption DEF Init, TypeOK

LEMMA StoreLocallyTyped ==
  ASSUME TypeOK, NEW w \in Writers, NEW v \in Providers, StoreLocally(w, v)
  PROVE  TypeOK'
<1> USE RecordsAssumption, WriterTyped, NoReplicaTyped DEF StoreLocally, TypeOK
<1>1. replicas' \in [Nodes -> SUBSET Nodes]
  OBVIOUS
<1>2. todo' \in [Writers -> SUBSET Nodes]
  OBVIOUS
<1> QED
  BY <1>1, <1>2 DEF SetRecord, lookVars

\* A record that is due is one of the node's own, so there is a value to store:
\* type correctness rests on OriginsAreOwn.
LEMMA TypeNext == TypeOK /\ OriginsAreOwn /\ [Next]_vars => TypeOK'
<1> SUFFICES ASSUME TypeOK, OriginsAreOwn, [Next]_vars PROVE TypeOK'
  OBVIOUS
<1> USE RecordsAssumption, WriterTyped, NoReplicaTyped
    DEF recVars, pubVars, lookVars, SetRecord, Delete
<1>1. ASSUME NEW n \in Nodes, PutProviderRecord(n) PROVE TypeOK'
  BY <1>1, StoreLocallyTyped DEF PutProviderRecord
<1>2. ASSUME NEW n \in Nodes, DeleteProviderRecord(n) PROVE TypeOK'
  BY <1>2 DEF DeleteProviderRecord, TypeOK
<1>3. ASSUME NEW n \in Nodes, RepublishTick(n) PROVE TypeOK'
  <2> DEFINE w == <<n, "republish">>
  <2>1. w \in Writers /\ (Due(n) => value[n] = n)
    BY DEF Due, OriginsAreOwn
  <2>2. timer' \in [Nodes -> 0 .. RepublishInterval]
    BY <1>3 DEF RepublishTick, TypeOK
  <2>3. CASE Due(n)
    <3>1. /\ stage' = [stage EXCEPT ![w] = "due"] /\ item' = [item EXCEPT ![w] = value[n]]
          /\ value[n] \in Providers
      BY <1>3, <2>1, <2>3 DEF RepublishTick, TypeOK
    <3> QED
      BY <1>3, <2>1, <2>2, <3>1 DEF RepublishTick, TypeOK
  <2>4. CASE ~Due(n)
    BY <1>3, <2>2, <2>4 DEF RepublishTick, TypeOK
  <2> QED
    BY <2>3, <2>4
<1>4. ASSUME NEW n \in Nodes, Republish(n) PROVE TypeOK'
  <2>1. item[<<n, "republish">>] \in Providers
    BY <1>4 DEF Republish, TypeOK
  <2> QED
    BY <1>4, <2>1, StoreLocallyTyped DEF Republish
<1>5. ASSUME NEW n \in Nodes, StartLookup(n) PROVE TypeOK'
  BY <1>5 DEF StartLookup, TypeOK
<1>6. ASSUME NEW n \in Nodes, NEW peer \in Nodes, FindValue(n, peer) PROVE TypeOK'
  <2>1. asked' \in [Nodes -> SUBSET Nodes] /\ stale' \subseteq Nodes
    BY <1>6 DEF FindValue, TypeOK
  <2>2. CASE Fresh(peer)
    <3>1. found' = [found EXCEPT ![n] = value[peer]] /\ look' = [look EXCEPT ![n] = "answered"]
      BY <1>6, <2>2 DEF FindValue
    <3>2. value[peer] \in Providers
      BY <2>2 DEF Fresh, Present, TypeOK
    <3> QED
      BY <1>6, <2>1, <3>1, <3>2 DEF FindValue, TypeOK
  <2>3. CASE ~Fresh(peer)
    BY <1>6, <2>1, <2>3 DEF FindValue, TypeOK
  <2> QED
    BY <2>2, <2>3
<1>7. ASSUME NEW n \in Nodes, Cache(n) PROVE TypeOK'
  BY <1>7 DEF Cache, TypeOK
<1>8. ASSUME NEW n \in Nodes, LookupReturns(n) PROVE TypeOK'
  BY <1>8 DEF LookupReturns, TypeOK
<1>9. ASSUME NEW n \in Nodes, DropStale(n) PROVE TypeOK'
  BY <1>9 DEF DropStale, TypeOK
<1>10. ASSUME NEW n \in Nodes, GcExpired(n) PROVE TypeOK'
  BY <1>10 DEF GcExpired, TypeOK
<1>11. ASSUME NEW w \in Writers, NEW peer \in Nodes, SendStore(w, peer) PROVE TypeOK'
  <2>1. item[w] \in Providers
    BY <1>11 DEF SendStore, TypeOK
  <2>2. replicas' \in [Nodes -> SUBSET Nodes]
    BY <1>11 DEF SendStore, TypeOK
  <2> QED
    BY <1>11, <2>1, <2>2 DEF SendStore, HandleStore, TypeOK
<1>12. ASSUME NEW w \in Writers, NEW peer \in Nodes, SendFails(w, peer) PROVE TypeOK'
  BY <1>12 DEF SendFails, TypeOK
<1>13. ASSUME NEW w \in Writers, StoreReturns(w) PROVE TypeOK'
  BY <1>13 DEF StoreReturns, TypeOK
<1>14. CASE Tick
  <2>1. ttl' \in [Nodes -> 0 .. RecordTTL]
    <3>1. ASSUME NEW n \in Nodes PROVE Less(ttl[n]) \in 0 .. RecordTTL
      <4>1. RecordTTL \in Nat /\ ttl[n] \in 0 .. RecordTTL
        BY DEF TypeOK
      <4>2. CASE ttl[n] = 0
        BY <4>1, <4>2 DEF Less
      <4>3. CASE ttl[n] # 0
        BY <4>1, <4>3 DEF Less
      <4> QED
        BY <4>2, <4>3
    <3> QED
      BY <1>14, <3>1 DEF Tick
  <2>2. timer' \in [Nodes -> 0 .. RepublishInterval]
    <3> \A n \in Nodes : timer[n] - 1 \in 0 .. RepublishInterval
      BY <1>14 DEF Tick, TypeOK
    <3> QED
      BY <1>14 DEF Tick
  <2> QED
    BY <1>14, <2>1, <2>2 DEF Tick, TypeOK
<1>15. CASE UNCHANGED vars
  BY <1>15 DEF vars, TypeOK
<1>16. ASSUME NEW n \in Nodes, Restart(n) PROVE TypeOK'
  BY <1>16 DEF Restart, TypeOK
<1> QED
  BY <1>1, <1>2, <1>3, <1>4, <1>5, <1>6, <1>7, <1>8, <1>9, <1>10, <1>11, <1>12, <1>13,
     <1>14, <1>15, <1>16 DEF Next, LookStep, StoreStep

-----------------------------------------------------------------------------
\* Origins

LEMMA OriginsInit == Init => OriginsAreOwn
  BY WriterTyped DEF Init, OriginsAreOwn

LEMMA OriginsNext == TypeOK /\ OriginsAreOwn /\ [Next]_vars => OriginsAreOwn'
<1> SUFFICES ASSUME TypeOK, OriginsAreOwn, [Next]_vars PROVE OriginsAreOwn'
  OBVIOUS
<1> USE WriterTyped DEF TypeOK, OriginsAreOwn, recVars, pubVars, lookVars, SetRecord, Delete
<1>1. ASSUME NEW n \in Nodes, NEW kind \in {"put", "republish"}, StoreLocally(<<n, kind>>, n)
      PROVE  OriginsAreOwn'
  <2> <<n, kind>> \in Writers /\ NodeOf(<<n, kind>>) = n
    OBVIOUS
  <2> QED
    BY <1>1 DEF StoreLocally
<1>2. ASSUME NEW n \in Nodes, PutProviderRecord(n) PROVE OriginsAreOwn'
  BY <1>1, <1>2 DEF PutProviderRecord
<1>3. ASSUME NEW n \in Nodes, Republish(n) PROVE OriginsAreOwn'
  <2> item[<<n, "republish">>] = n
    BY <1>3 DEF Republish
  <2> QED
    BY <1>1, <1>3 DEF Republish
<1>4. ASSUME NEW n \in Nodes, RepublishTick(n) PROVE OriginsAreOwn'
  <2>1. CASE Due(n)
    <3>1. /\ value[n] = n
          /\ stage' = [stage EXCEPT ![<<n, "republish">>] = "due"]
          /\ item' = [item EXCEPT ![<<n, "republish">>] = n]
      BY <1>4, <2>1 DEF RepublishTick, Due
    <3> QED
      BY <1>4, <3>1 DEF RepublishTick
  <2>2. CASE ~Due(n)
    BY <1>4, <2>2 DEF RepublishTick
  <2> QED
    BY <2>1, <2>2
<1>5. ASSUME NEW n \in Nodes,
             DeleteProviderRecord(n) \/ Cache(n) \/ DropStale(n) \/ GcExpired(n)
      PROVE  OriginsAreOwn'
  BY <1>5 DEF DeleteProviderRecord, Cache, DropStale, GcExpired
<1>6. ASSUME NEW n \in Nodes, NEW peer \in Nodes,
             StartLookup(n) \/ FindValue(n, peer) \/ LookupReturns(n)
      PROVE  OriginsAreOwn'
  BY <1>6 DEF StartLookup, FindValue, LookupReturns
<1>7. ASSUME NEW w \in Writers, NEW peer \in Nodes, SendStore(w, peer) PROVE OriginsAreOwn'
  BY <1>7 DEF SendStore, HandleStore
<1>8. ASSUME NEW w \in Writers, NEW peer \in Nodes, SendFails(w, peer) PROVE OriginsAreOwn'
  BY <1>8 DEF SendFails
<1>9. ASSUME NEW w \in Writers, StoreReturns(w) PROVE OriginsAreOwn'
  BY <1>9 DEF StoreReturns
<1>10. CASE Tick
  BY <1>10 DEF Tick
<1>11. CASE UNCHANGED vars
  BY <1>11 DEF vars
<1>12. ASSUME NEW n \in Nodes, Restart(n) PROVE OriginsAreOwn'
  BY <1>12 DEF Restart
<1> QED
  BY <1>2, <1>3, <1>4, <1>5, <1>6, <1>7, <1>8, <1>9, <1>10, <1>11, <1>12
  DEF Next, LookStep, StoreStep

LEMMA Typed == Spec => [](TypeOK /\ OriginsAreOwn)
  BY TypeInit, OriginsInit, TypeNext, OriginsNext, PTL DEF Spec

\* Every variable keeps its type, and a call that is under way has a value to
\* store (Node.Store, republishLoop, GetClosest).
THEOREM TypeCorrect == Spec => []TypeOK
  BY Typed, PTL

\* A node republishes only the record that names itself (kvRecord.Origin).
THEOREM OriginsStayOwn == Spec => []OriginsAreOwn
  BY Typed, PTL

-----------------------------------------------------------------------------
\* The lifetimes

\* What the steps do to a record that counts as published.
LEMMA FreshInit == Init => OutlivesTick /\ CopiesOutlive
  BY DEF Init, OutlivesTick, CopiesOutlive

\* The node that stores gets a full lifetime, and has no copies out yet.
LEMMA StoreLocallyFresh ==
  ASSUME FreshInv, NEW n \in Nodes, NEW kind \in {"put", "republish"},
         StoreLocally(<<n, kind>>, n)
  PROVE  OutlivesTick' /\ CopiesOutlive'
<1>1. /\ <<n, kind>> \in Writers /\ NodeOf(<<n, kind>>) = n
      /\ \A m \in Nodes : <<m, "republish">> \in Writers
  BY WriterTyped
<1> USE <1>1, RecordsAssumption DEF FreshInv, TypeOK, StoreLocally, SetRecord
<1>2. ASSUME NEW m \in Nodes, origin'[m], stage'[<<m, "republish">>] # "due"
      PROVE  ttl'[m] > timer'[m]
  <2>1. CASE m = n
    BY <2>1
  <2>2. CASE m # n
    BY <1>2, <2>2 DEF OutlivesTick
  <2> QED
    BY <2>1, <2>2
<1>3. ASSUME NEW m \in Nodes, NEW peer \in replicas'[m]
      PROVE  value'[peer] = m /\ (origin'[m] => ttl'[peer] >= ttl'[m])
  <2>1. m # n /\ peer # n /\ peer \in replicas[m] /\ peer \in Nodes
    BY <1>3 DEF NoReplica
  <2> QED
    BY <2>1 DEF CopiesOutlive
<1> QED
  BY <1>2, <1>3 DEF OutlivesTick, CopiesOutlive

\* A peer that takes a copy holds no record of its own any more.
LEMMA SendStoreFresh ==
  ASSUME FreshInv, NEW w \in Writers, NEW peer \in Nodes, SendStore(w, peer)
  PROVE  OutlivesTick' /\ CopiesOutlive'
<1>1. NodeOf(w) \in Nodes /\ item[w] = NodeOf(w)
  <2>1. PICK n \in Nodes, kind \in {"put", "republish"} : w = <<n, kind>>
    BY DEF Writers
  <2>2. stage[<<n, kind>>] # "idle"
    BY <2>1 DEF SendStore
  <2> QED
    BY <2>1, <2>2 DEF NodeOf, FreshInv, OriginsAreOwn
<1> USE <1>1, RecordsAssumption DEF FreshInv, TypeOK, SendStore, HandleStore, SetRecord
<1>2. OutlivesTick'
  BY DEF OutlivesTick
<1>3. ASSUME NEW m \in Nodes, NEW q \in replicas'[m]
      PROVE  value'[q] = m /\ (origin'[m] => ttl'[q] >= ttl'[m])
  <2>1. CASE q = peer
    <3> m = NodeOf(w)
      BY <1>3, <2>1 DEF NoReplica
    <3> QED
      BY <2>1
  <2>2. CASE q # peer
    <3>1. q \in replicas[m] /\ q \in Nodes
      BY <1>3, <2>2 DEF NoReplica
    <3> QED
      BY <2>2, <3>1 DEF CopiesOutlive
  <2> QED
    BY <2>1, <2>2
<1> QED
  BY <1>2, <1>3 DEF CopiesOutlive

\* A step that takes the record of node n away, or puts a copy in its place.
LEMMA OverwriteFresh ==
  ASSUME FreshInv, NEW n \in Nodes, NEW v, NEW t \in 0 .. RecordTTL,
         value' = [value EXCEPT ![n] = v], ttl' = [ttl EXCEPT ![n] = t],
         origin' = [origin EXCEPT ![n] = FALSE], replicas' = NoReplica(n),
         UNCHANGED <<timer, stage>>
  PROVE  OutlivesTick' /\ CopiesOutlive'
<1> USE DEF FreshInv, TypeOK
<1>1. OutlivesTick'
  BY DEF OutlivesTick
<1>2. ASSUME NEW m \in Nodes, NEW q \in replicas'[m]
      PROVE  value'[q] = m /\ (origin'[m] => ttl'[q] >= ttl'[m])
  <2>1. q \in replicas[m] /\ q \in Nodes /\ q # n
    BY <1>2 DEF NoReplica
  <2> QED
    BY <2>1 DEF CopiesOutlive
<1> QED
  BY <1>1, <1>2 DEF CopiesOutlive

\* Time passes for a record and its copies alike, and only between two ticks.
LEMMA TickFresh == ASSUME FreshInv, Tick PROVE OutlivesTick' /\ CopiesOutlive'
<1> USE DEF FreshInv, TypeOK, Tick, Less
<1>1. ASSUME NEW n \in Nodes, origin[n] PROVE ttl'[n] > timer'[n]
  <2>1. stage[<<n, "republish">>] = "idle"
    BY WriterTyped DEF Quiet
  <2> QED
    BY <1>1, <2>1 DEF OutlivesTick
<1>2. ASSUME NEW n \in Nodes, NEW peer \in replicas[n]
      PROVE  value[peer] = n /\ (origin[n] => ttl'[peer] >= ttl'[n])
  BY DEF CopiesOutlive
<1> QED
  BY <1>1, <1>2 DEF OutlivesTick, CopiesOutlive

LEMMA FreshNext == FreshInv /\ [Next]_vars => OutlivesTick' /\ CopiesOutlive'
<1> SUFFICES ASSUME FreshInv, [Next]_vars PROVE OutlivesTick' /\ CopiesOutlive'
  OBVIOUS
<1>1. ASSUME NEW n \in Nodes, PutProviderRecord(n) PROVE OutlivesTick' /\ CopiesOutlive'
  BY <1>1, StoreLocallyFresh DEF PutProviderRecord
<1>2. ASSUME NEW n \in Nodes, Republish(n) PROVE OutlivesTick' /\ CopiesOutlive'
  <2> item[<<n, "republish">>] = n
    BY <1>2, WriterTyped DEF Republish, FreshInv, TypeOK, OriginsAreOwn
  <2> QED
    BY <1>2, StoreLocallyFresh DEF Republish
<1>3. ASSUME NEW n \in Nodes, RepublishTick(n) PROVE OutlivesTick' /\ CopiesOutlive'
  <2>1. CopiesOutlive'
    BY <1>3 DEF RepublishTick, FreshInv, CopiesOutlive, recVars
  <2>2. ASSUME NEW m \in Nodes, origin[m], stage'[<<m, "republish">>] # "due"
        PROVE  ttl[m] > timer'[m]
    <3>1. CASE m = n
      <4> ~Due(n)
        BY <1>3, <2>2, <3>1, WriterTyped DEF RepublishTick, FreshInv, TypeOK
      <4> QED
        BY <1>3, <2>2, <3>1, RecordsAssumption DEF RepublishTick, FreshInv, TypeOK, Due
    <3>2. CASE m # n
      BY <1>3, <2>2, <3>2, WriterTyped DEF RepublishTick, FreshInv, TypeOK, OutlivesTick
    <3> QED
      BY <3>1, <3>2
  <2> QED
    BY <1>3, <2>1, <2>2 DEF RepublishTick, OutlivesTick, recVars
<1>4. ASSUME NEW n \in Nodes, DeleteProviderRecord(n) \/ DropStale(n) \/ GcExpired(n)
      PROVE  OutlivesTick' /\ CopiesOutlive'
  BY <1>4, OverwriteFresh, RecordsAssumption
  DEF DeleteProviderRecord, DropStale, GcExpired, Delete, pubVars
<1>5. ASSUME NEW n \in Nodes, Cache(n) PROVE OutlivesTick' /\ CopiesOutlive'
  <2>1. /\ value' = [value EXCEPT ![n] = found[n]]
        /\ ttl' = [ttl EXCEPT ![n] = RecordTTL] /\ RecordTTL \in 0 .. RecordTTL
        /\ origin' = [origin EXCEPT ![n] = FALSE] /\ replicas' = NoReplica(n)
        /\ UNCHANGED <<timer, stage>>
    BY <1>5, RecordsAssumption DEF Cache, SetRecord, pubVars
  <2> QED
    BY <2>1, OverwriteFresh
<1>6. ASSUME NEW w \in Writers, NEW peer \in Nodes, SendStore(w, peer)
      PROVE  OutlivesTick' /\ CopiesOutlive'
  BY <1>6, SendStoreFresh
<1>7. ASSUME NEW w \in Writers, StoreReturns(w) PROVE OutlivesTick' /\ CopiesOutlive'
  BY <1>7, WriterTyped DEF StoreReturns, FreshInv, TypeOK, OutlivesTick, CopiesOutlive, recVars
<1>8. CASE Tick
  BY <1>8, TickFresh
<1>9. ASSUME UNCHANGED <<recVars, timer, stage, replicas>>
      PROVE  OutlivesTick' /\ CopiesOutlive'
  BY <1>9 DEF FreshInv, OutlivesTick, CopiesOutlive, recVars
<1>10. ASSUME NEW n \in Nodes, NEW peer \in Nodes, NEW w \in Writers,
              \/ StartLookup(n) \/ FindValue(n, peer) \/ LookupReturns(n)
              \/ SendFails(w, peer) \/ UNCHANGED vars
       PROVE  UNCHANGED <<recVars, timer, stage, replicas>>
  BY <1>10 DEF StartLookup, FindValue, LookupReturns, SendFails, vars, pubVars, recVars
<1>11. CASE UNCHANGED vars
  BY <1>9, <1>11 DEF vars, pubVars, recVars
<1>12. ASSUME NEW n \in Nodes, Restart(n) PROVE OutlivesTick' /\ CopiesOutlive'
  <2>1. ~origin'[n] /\ \A m \in Nodes \ {n} :
          /\ stage'[<<m, "republish">>] = stage[<<m, "republish">>]
          /\ timer'[m] = timer[m] /\ ttl'[m] = ttl[m] /\ origin'[m] = origin[m]
    BY <1>12, WriterTyped DEF Restart, Delete, FreshInv, TypeOK
  <2>2. ASSUME NEW m \in Nodes, NEW q \in replicas'[m]
        PROVE  value'[q] = m /\ (origin'[m] => ttl'[q] >= ttl'[m])
    <3>1. q \in replicas[m] /\ q \in Nodes /\ q # n
      BY <1>12, <2>2 DEF Restart, NoReplica, FreshInv, TypeOK
    <3> QED
      BY <1>12, <2>1, <3>1 DEF Restart, Delete, FreshInv, TypeOK, CopiesOutlive
  <2> QED
    BY <2>1, <2>2 DEF FreshInv, OutlivesTick, CopiesOutlive
<1> QED
  BY <1>1, <1>2, <1>3, <1>4, <1>5, <1>6, <1>7, <1>8, <1>9, <1>10, <1>11, <1>12, WriterTyped
  DEF Next, LookStep, StoreStep

\* The invariant says what is needed at the times the property speaks of.
LEMMA FreshImplies == FreshInv => PublishedStaysFresh
<1> SUFFICES ASSUME FreshInv, NEW n \in Nodes, origin[n], ~Publishing(n)
             PROVE  /\ ttl[n] > 0
                    /\ \A peer \in replicas[n] : value[peer] = n /\ ttl[peer] > 0
  BY DEF PublishedStaysFresh
<1>1. stage[<<n, "republish">>] = "idle"
  BY DEF Publishing
<1>2. ttl[n] > 0
  BY <1>1 DEF FreshInv, TypeOK, OutlivesTick
<1> QED
  BY <1>2 DEF FreshInv, TypeOK, CopiesOutlive

\* Republication every interval keeps the record that a node publishes, and the
\* copies its peers took, from expiring (republishLoop, gcLoop), whatever the
\* number of nodes, provided that the interval is shorter than the lifetime.
THEOREM PublishedStays == Spec => []PublishedStaysFresh
<1>1. Init => FreshInv
  BY TypeInit, OriginsInit, FreshInit DEF FreshInv
<1>2. FreshInv /\ [Next]_vars => FreshInv'
  BY TypeNext, OriginsNext, FreshNext DEF FreshInv
<1> QED
  BY <1>1, <1>2, FreshImplies, PTL DEF Spec
=============================================================================
