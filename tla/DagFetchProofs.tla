--------------------------- MODULE DagFetchProofs ---------------------------
(***************************************************************************)
(* Proofs about DagBuild and DagFetch, for every set of files, chunk size, *)
(* fanout, inline span and capacity of the semaphore.                      *)
(*                                                                         *)
(* What a block holds is defined without recursion, as membership in a set *)
(* of facts that bear each other out (Holds), and a level of the DAG tiles *)
(* a part of the file (Tiles).  BuildInv says that the builder keeps its   *)
(* levels tiling what has been read; Inv adds what the calls of fetchRange *)
(* rely on.  A lemma about one call moving on, one about it returning and  *)
(* one about it starting another carry Inv through all steps.              *)
(*                                                                         *)
(* The sequential readers are recursive functions on the blocks put.  That *)
(* they are defined, and find in each block what it holds, is ReadersInv,  *)
(* an invariant of the builder, which puts a block after its children.     *)
(***************************************************************************)
EXTENDS DagFetch, FiniteSetTheorems, SequenceTheorems, TLAPS

-----------------------------------------------------------------------------
\* Numbers

(***************************************************************************)
(* Induction over the numbers as a fact about a set of them: what has 0,   *)
(* and with n also n + 1, has them all.  The intervals 0..n are finite, so *)
(* that one of those that end outside of the set is the shortest.          *)
(***************************************************************************)
LEMMA SetInduction ==
  ASSUME NEW S \in SUBSET Nat, 0 \in S, \A n \in S : n + 1 \in S
  PROVE  S = Nat
<1> SUFFICES ASSUME NEW k \in Nat \ S PROVE FALSE
  OBVIOUS
<1> DEFINE UpTo(n) == 0..n
           T == {UpTo(n) : n \in Nat \ S}
           R == StrictSubsetOrdering(Nat)
<1>1. IsWellFoundedOn(R, FiniteSubsetsOf(Nat))
  BY FS_StrictSubsetOrderingWellFounded
<1>2. T \subseteq FiniteSubsetsOf(Nat) /\ T # {}
  <2>1. \A n \in Nat : IsFiniteSet(0..n)
    BY FS_Interval
  <2>2. ASSUME NEW n \in Nat PROVE UpTo(n) \in FiniteSubsetsOf(Nat)
    BY <2>1 DEF FiniteSubsetsOf
  <2> HIDE DEF UpTo
  <2> QED
    BY <2>2
<1>3. PICK x \in T : \A y \in T : ~(<<y, x>> \in R)
  <2> HIDE DEF T, R
  <2> QED
    BY <1>1, <1>2, WFMin
<1>4. PICK n \in Nat \ S : x = UpTo(n)
  OBVIOUS
<1>5. n # 0 /\ n - 1 \in Nat /\ (n - 1) + 1 = n
  OBVIOUS
<1>6. n - 1 \in Nat \ S
  BY <1>5
<1>7. UpTo(n - 1) \subseteq UpTo(n) /\ UpTo(n - 1) # UpTo(n)
  <2>1. n \in UpTo(n) /\ n \notin UpTo(n - 1)
    BY <1>5
  <2> QED
    BY <1>5, <2>1
<1>8. UpTo(n - 1) \in SUBSET Nat /\ UpTo(n) \in SUBSET Nat
  OBVIOUS
<1> HIDE DEF UpTo
<1> QED
  BY <1>3, <1>4, <1>6, <1>7, <1>8 DEF StrictSubsetOrdering

\* The same within an interval.
LEMMA IntervalInduction ==
  ASSUME NEW m \in Nat, NEW S \in SUBSET (0..m), 0 \in S, \A n \in S : n < m => n + 1 \in S
  PROVE  S = 0..m
<1> DEFINE U == S \cup {n \in Nat : n > m}
<1>0. \A n \in S : n \in Nat /\ n <= m
  OBVIOUS
<1>1. U \in SUBSET Nat /\ 0 \in U
  BY <1>0
<1>2. ASSUME NEW n \in U PROVE n + 1 \in U
  BY <1>0
<1>3. U = Nat
  <2> HIDE DEF U
  <2> QED
    BY <1>1, <1>2, SetInduction
<1>4. ASSUME NEW n \in 0..m PROVE n \in S
  <2>1. n \in U
    <3> HIDE DEF U
    <3> QED
      BY <1>3
  <2> QED
    BY <2>1
<1> QED
  BY <1>4

\* The sums of a sequence are what their recursive definition says.
LEMMA SumToEquations ==
  ASSUME NEW s \in Seq(Nat)
  PROVE  /\ SumTo(s)[0] = 0
         /\ \A i \in 1..Len(s) : SumTo(s)[i] = SumTo(s)[i - 1] + s[i]
<1> DEFINE Sums(n) == {f \in [0..n -> Nat] :
                         f[0] = 0 /\ \A i \in 1..n : f[i] = f[i - 1] + s[i]}
           S == {n \in Nat : n <= Len(s) => Sums(n) # {}}
           Step(f) == [i \in 0..Len(s) |-> IF i = 0 THEN 0 ELSE f[i - 1] + s[i]]
<1>1. 0 \in S
  <2>1. [i \in 0..0 |-> 0] \in Sums(0)
    OBVIOUS
  <2> QED
    BY <2>1
<1>2. ASSUME NEW n \in S PROVE n + 1 \in S
  <2> SUFFICES ASSUME n + 1 <= Len(s) PROVE Sums(n + 1) # {}
    <3> HIDE DEF Sums
    <3> QED
      OBVIOUS
  <2>1. PICK f \in Sums(n) : TRUE
    <3> HIDE DEF Sums
    <3> QED
      OBVIOUS
  <2>2. s[n + 1] \in Nat
    OBVIOUS
  <2> DEFINE g == [i \in 0..(n + 1) |-> IF i = n + 1 THEN f[n] + s[n + 1] ELSE f[i]]
  <2>3. g \in [0..(n + 1) -> Nat] /\ g[0] = 0
    BY <2>2
  <2>4. ASSUME NEW i \in 1..(n + 1) PROVE g[i] = g[i - 1] + s[i]
    <3>1. CASE i = n + 1
      BY <3>1
    <3>2. CASE i # n + 1
      BY <3>2
    <3> QED
      BY <3>1, <3>2
  <2> QED
    BY <2>3, <2>4
<1>3. S = Nat
  <2> HIDE DEF S
  <2>1. S \in SUBSET Nat
    BY DEF S
  <2> QED
    BY <1>1, <1>2, <2>1, SetInduction
<1>4. PICK f \in Sums(Len(s)) : TRUE
  <2> HIDE DEF Sums
  <2>1. Len(s) \in S
    <3> HIDE DEF S
    <3> QED
      BY <1>3
  <2> QED
    BY <2>1
<1>5. f = Step(f)
  OBVIOUS
<1>6. SumTo(s) = Step(SumTo(s))
  <2>1. SumTo(s) = CHOOSE g : g = Step(g)
    BY DEF SumTo
  <2> HIDE DEF Step
  <2> QED
    BY <1>5, <2>1
<1>7. ASSUME NEW g, g = Step(g)
      PROVE  g[0] = 0 /\ \A i \in 1..Len(s) : g[i] = g[i - 1] + s[i]
  <2>1. Len(s) \in Nat
    OBVIOUS
  <2>2. g[0] = Step(g)[0] /\ \A i \in 1..Len(s) : g[i] = Step(g)[i]
    <3> HIDE DEF Step
    <3> QED
      BY <1>7
  <2>3. Step(g)[0] = 0 /\ \A i \in 1..Len(s) : Step(g)[i] = g[i - 1] + s[i]
    BY <2>1
  <2> HIDE DEF Step
  <2> QED
    BY <2>2, <2>3
<1> QED
  <2> HIDE DEF Step
  <2> QED
    BY <1>6, <1>7

\* When positions advance by the members of a sequence, they are its sums.
LEMMA PositionsAreSums ==
  ASSUME NEW s \in Seq(Nat), NEW x \in Nat, NEW st \in [0..Len(s) -> Nat], st[0] = x,
         \A i \in 1..Len(s) : st[i] = st[i - 1] + s[i]
  PROVE  \A i \in 0..Len(s) : x + SumTo(s)[i] = st[i] /\ SumTo(s)[i] \in Nat
<1> DEFINE S == {n \in Nat : n <= Len(s) => x + SumTo(s)[n] = st[n] /\ SumTo(s)[n] \in Nat}
<1>1. 0 \in S
  BY SumToEquations
<1>2. ASSUME NEW n \in S PROVE n + 1 \in S
  <2> SUFFICES ASSUME n + 1 <= Len(s)
               PROVE  x + SumTo(s)[n + 1] = st[n + 1] /\ SumTo(s)[n + 1] \in Nat
    OBVIOUS
  <2>1. SumTo(s)[n + 1] = SumTo(s)[n] + s[n + 1] /\ st[n + 1] = st[n] + s[n + 1]
    BY SumToEquations
  <2> QED
    BY <2>1
<1>3. S = Nat
  <2> HIDE DEF S
  <2>1. S \in SUBSET Nat
    BY DEF S
  <2> QED
    BY <1>1, <1>2, <2>1, SetInduction
<1> QED
  <2> TAKE i \in 0..Len(s)
  <2>1. i \in S
    BY <1>3
  <2> QED
    BY <2>1

-----------------------------------------------------------------------------
\* What a block holds

(***************************************************************************)
(* A block holds the bytes x + 1 to y of a file f when its payload is that *)
(* slice, or when its children hold adjoining slices from x to y, each as  *)
(* long as its span.  R is a set of such facts that bear each other out.   *)
(***************************************************************************)
Kids(b) == [i \in DOMAIN b.cids |-> Pair(b.cids[i], b.spans[i])]

Adjoining(st, row, x, y) ==
  /\ st \in [0..Len(row) -> Nat] /\ st[0] = x /\ st[Len(row)] = y
  /\ \A i \in 1..Len(row) : st[i] = st[i - 1] + row[i].span

Sliced(f, R) ==
  \A b, x, y : <<b, x, y>> \in R =>
    /\ x \in Nat /\ y \in Nat /\ x <= y /\ y <= Len(f)
    /\ \/ b.type = "data" /\ b.payload = SubSeq(f, x + 1, y)
       \/ /\ b.type = "node" /\ b.size = y - x
          /\ \E st : /\ Adjoining(st, Kids(b), x, y)
                     /\ \A i \in 1..Len(b.cids) : <<b.cids[i], st[i - 1], st[i]>> \in R

Holds(f, b, x, y) == \E R : Sliced(f, R) /\ <<b, x, y>> \in R

\* The members of a row of pairs hold adjoining slices from x to y.
Tiles(f, row, x, y) ==
  \E st : /\ Adjoining(st, row, x, y)
          /\ \A i \in 1..Len(row) : Holds(f, row[i].cid, st[i - 1], st[i])

\* A block that holds a slice holds one of the file, and a leaf holds its payload.
LEMMA HoldsSlice ==
  ASSUME NEW f, NEW b, NEW x, NEW y, Holds(f, b, x, y)
  PROVE  /\ x \in Nat /\ y \in Nat /\ x <= y /\ y <= Len(f)
         /\ b.type = "data" => b.payload = SubSeq(f, x + 1, y)
         /\ b.type \in {"data", "node"}
BY DEF Holds, Sliced

\* The children of a node that holds a slice tile it, and its size is that of the slice.
LEMMA NodeHolds ==
  ASSUME NEW S, NEW f, NEW b, NEW x, NEW y, Holds(f, b, x, y), b.type = "node", b.cids \in Seq(S)
  PROVE  b.size = y - x /\ Tiles(f, Kids(b), x, y)
<1>1. PICK R : Sliced(f, R) /\ <<b, x, y>> \in R
  BY DEF Holds
<1>2. PICK st : /\ Adjoining(st, Kids(b), x, y)
                /\ \A i \in 1..Len(b.cids) : <<b.cids[i], st[i - 1], st[i]>> \in R
  BY <1>1 DEF Sliced
<1>3. b.size = y - x
  BY <1>1 DEF Sliced
<1>4. Len(Kids(b)) = Len(b.cids) /\ \A i \in 1..Len(b.cids) : Kids(b)[i].cid = b.cids[i]
  BY DEF Kids, Pair
<1>5. \A i \in 1..Len(b.cids) : Holds(f, b.cids[i], st[i - 1], st[i])
  BY <1>1, <1>2 DEF Holds
<1> QED
  BY <1>2, <1>3, <1>4, <1>5 DEF Tiles

\* A leaf made of a slice holds it.
LEMMA LeafHolds ==
  ASSUME NEW f, NEW x \in Nat, NEW y \in Nat, x <= y, y <= Len(f)
  PROVE  Holds(f, Leaf(SubSeq(f, x + 1, y)), x, y)
<1> DEFINE b == Leaf(SubSeq(f, x + 1, y))
           R == {<<b, x, y>>}
<1>1. b.type = "data" /\ b.payload = SubSeq(f, x + 1, y)
  BY DEF Leaf
<1> HIDE DEF b
<1>2. Sliced(f, R)
  BY <1>1 DEF Sliced
<1> QED
  BY <1>2 DEF Holds, b

\* A node whose children tile a slice holds it.
LEMMA TilesMakeNode ==
  ASSUME NEW f, NEW b, NEW x, NEW y, NEW row, row = Kids(b), Len(row) = Len(b.cids),
         \A i \in 1..Len(row) : row[i].cid = b.cids[i],
         Len(row) \in Nat, x \in Nat, y \in Nat, x <= y, y <= Len(f),
         b.type = "node", b.size = y - x, Tiles(f, row, x, y)
  PROVE  Holds(f, b, x, y)
<1>1. PICK st : /\ Adjoining(st, row, x, y)
                /\ \A i \in 1..Len(row) : Holds(f, row[i].cid, st[i - 1], st[i])
  BY DEF Tiles
<1> DEFINE R(i) == CHOOSE U : Sliced(f, U) /\ <<b.cids[i], st[i - 1], st[i]>> \in U
           All == (UNION {R(i) : i \in 1..Len(row)}) \cup {<<b, x, y>>}
<1>2. \A i \in 1..Len(row) : Sliced(f, R(i)) /\ <<b.cids[i], st[i - 1], st[i]>> \in R(i)
  BY <1>1 DEF Holds
<1>3. \A i \in 1..Len(b.cids) : <<b.cids[i], st[i - 1], st[i]>> \in All
  BY <1>2
<1>4. \A i \in 1..Len(row) : R(i) \subseteq All
  OBVIOUS
<1> HIDE DEF R
<1>5. ASSUME NEW c, NEW u, NEW v, <<c, u, v>> \in All
      PROVE  /\ u \in Nat /\ v \in Nat /\ u <= v /\ v <= Len(f)
             /\ \/ c.type = "data" /\ c.payload = SubSeq(f, u + 1, v)
                \/ /\ c.type = "node" /\ c.size = v - u
                   /\ \E tt : /\ Adjoining(tt, Kids(c), u, v)
                              /\ \A i \in 1..Len(c.cids) : <<c.cids[i], tt[i - 1], tt[i]>> \in All
  <2>1. CASE <<c, u, v>> = <<b, x, y>>
    <3>1. c = b /\ u = x /\ v = y
      BY <2>1
    <3> HIDE DEF All
    <3> QED
      BY <1>1, <1>3, <3>1
  <2>2. CASE \E i \in 1..Len(row) : <<c, u, v>> \in R(i)
    <3>1. PICK k \in 1..Len(row) : <<c, u, v>> \in R(k)
      BY <2>2
    <3>2. Sliced(f, R(k)) /\ R(k) \subseteq All
      BY <1>2, <1>4
    <3> HIDE DEF All
    <3>3. /\ u \in Nat /\ v \in Nat /\ u <= v /\ v <= Len(f)
          /\ \/ c.type = "data" /\ c.payload = SubSeq(f, u + 1, v)
             \/ /\ c.type = "node" /\ c.size = v - u
                /\ \E tt : /\ Adjoining(tt, Kids(c), u, v)
                           /\ \A i \in 1..Len(c.cids) : <<c.cids[i], tt[i - 1], tt[i]>> \in R(k)
      BY <3>1, <3>2 DEF Sliced
    <3> QED
      BY <3>2, <3>3
  <2> QED
    BY <1>5, <2>1, <2>2
<1>6. Sliced(f, All)
  <2> HIDE DEF All
  <2> QED
    BY <1>5 DEF Sliced
<1>7. <<b, x, y>> \in All
  OBVIOUS
<1> HIDE DEF All
<1> QED
  BY <1>6, <1>7 DEF Holds

Rows(S) == Seq([cid : S, span : Nat])

\* The members of a row are pairs of a block and a span.
LEMMA RowMember ==
  ASSUME NEW S, NEW row \in Rows(S)
  PROVE  /\ Len(row) \in Nat /\ DOMAIN row = 1..Len(row)
         /\ \A i \in 1..Len(row) : /\ row[i].cid \in S /\ row[i].span \in Nat
                                  /\ row[i] = Pair(row[i].cid, row[i].span)
<1> DEFINE T == [cid : S, span : Nat]
<1>1. \A i \in 1..Len(row) : row[i] \in T
  <2> HIDE DEF T
  <2>1. row \in Seq(T)
    BY DEF T, Rows
  <2> QED
    BY <2>1, ElementOfSeq
<1>2. \A e \in T : e.cid \in S /\ e.span \in Nat /\ e = Pair(e.cid, e.span)
  BY DEF Pair
<1>3. Len(row) \in Nat /\ DOMAIN row = 1..Len(row)
  BY DEF Rows
<1> HIDE DEF T
<1> QED
  BY <1>1, <1>2, <1>3

\* Positions never go back, and between the first and the last none is left out.
LEMMA PositionsAdvance ==
  ASSUME NEW B, NEW row \in Rows(B), NEW x \in Nat, NEW y \in Nat, NEW st, Adjoining(st, row, x, y)
  PROVE  /\ x <= y
         /\ \A k \in (x + 1)..y : \E i \in 1..Len(row) : k \in (st[i - 1] + 1)..st[i]
<1>0. /\ Len(row) \in Nat /\ st \in [0..Len(row) -> Nat] /\ st[0] = x /\ st[Len(row)] = y
      /\ \A i \in 1..Len(row) : st[i] = st[i - 1] + row[i].span /\ row[i].span \in Nat
  BY RowMember DEF Adjoining
<1> DEFINE S == {n \in 0..Len(row) :
                   /\ x <= st[n]
                   /\ \A k \in (x + 1)..st[n] : \E i \in 1..n : k \in (st[i - 1] + 1)..st[i]}
<1>1. 0 \in S
  BY <1>0
<1>2. ASSUME NEW n \in S, n < Len(row) PROVE n + 1 \in S
  <2>1. /\ n \in Nat /\ n + 1 \in 0..Len(row) /\ x <= st[n]
        /\ \A k \in (x + 1)..st[n] : \E i \in 1..n : k \in (st[i - 1] + 1)..st[i]
    BY <1>0, <1>2
  <2>2. st[n + 1] = st[n] + row[n + 1].span /\ row[n + 1].span \in Nat /\ st[n] \in Nat
    <3>1. n + 1 \in 1..Len(row) /\ (n + 1) - 1 = n /\ n \in 0..Len(row)
      BY <1>2, <2>1
    <3> HIDE DEF S
    <3> QED
      BY <1>0, <3>1
  <2>3. ASSUME NEW k \in (x + 1)..st[n + 1]
        PROVE  \E i \in 1..(n + 1) : k \in (st[i - 1] + 1)..st[i]
    <3> HIDE DEF S
    <3>1. CASE k <= st[n]
      <4>1. k \in (x + 1)..st[n]
        BY <2>2, <2>3, <3>1
      <4>2. PICK i \in 1..n : k \in (st[i - 1] + 1)..st[i]
        BY <2>1, <4>1
      <4> QED
        BY <2>1, <4>2
    <3>2. CASE k > st[n]
      <4>1. k \in (st[(n + 1) - 1] + 1)..st[n + 1]
        BY <2>1, <2>2, <2>3, <3>2
      <4> QED
        BY <2>1, <4>1
    <3> QED
      BY <2>2, <2>3, <3>1, <3>2
  <2>4. x <= st[n + 1]
    BY <2>1, <2>2
  <2> QED
    BY <2>1, <2>3, <2>4
<1>3. S = 0..Len(row)
  <2> HIDE DEF S
  <2>1. S \in SUBSET (0..Len(row))
    BY DEF S
  <2> QED
    BY <1>0, <1>1, <1>2, <2>1, IntervalInduction
<1>4. Len(row) \in S
  <2> HIDE DEF S
  <2> QED
    BY <1>0, <1>3
<1> QED
  BY <1>0, <1>4

\* What a row that is not empty tiles is a part of the file.
LEMMA TilesSlice ==
  ASSUME NEW f, NEW S, NEW row \in Rows(S), row # <<>>, NEW x \in Nat, NEW y \in Nat,
         Tiles(f, row, x, y)
  PROVE  x <= y /\ y <= Len(f)
<1>1. PICK st : /\ Adjoining(st, row, x, y)
                /\ \A i \in 1..Len(row) : Holds(f, row[i].cid, st[i - 1], st[i])
  BY DEF Tiles
<1>2. Len(row) \in 1..Len(row)
  BY DEF Rows
<1>3. y <= Len(f)
  BY <1>1, <1>2, HoldsSlice DEF Adjoining
<1> QED
  BY <1>1, <1>3, PositionsAdvance

\* An empty row tiles nothing.
LEMMA NoRow ==
  ASSUME NEW f
  PROVE  /\ \A x \in Nat : Tiles(f, <<>>, x, x)
         /\ \A x, y : Tiles(f, <<>>, x, y) => x = y
<1>1. ASSUME NEW x \in Nat PROVE Tiles(f, <<>>, x, x)
  <2>1. Adjoining([i \in 0..0 |-> x], <<>>, x, x)
    BY DEF Adjoining
  <2> QED
    BY <2>1 DEF Tiles
<1> QED
  BY <1>1 DEF Tiles, Adjoining

\* A pair whose block holds what comes next extends what a row tiles.
LEMMA TilesAppend ==
  ASSUME NEW f, NEW S, NEW row \in Rows(S), NEW e, NEW x, NEW z, NEW y,
         Tiles(f, row, x, z), Holds(f, e.cid, z, y), y = z + e.span
  PROVE  Tiles(f, Append(row, e), x, y)
<1>1. PICK st : /\ Adjoining(st, row, x, z)
                /\ \A i \in 1..Len(row) : Holds(f, row[i].cid, st[i - 1], st[i])
  BY DEF Tiles
<1> DEFINE new == Append(row, e)
           n == Len(row)
           tt == [i \in 0..(n + 1) |-> IF i = n + 1 THEN y ELSE st[i]]
<1>2. n \in Nat /\ Len(new) = n + 1 /\ new[n + 1] = e /\ \A i \in 1..n : new[i] = row[i]
  BY AppendProperties DEF Rows
<1>3. y \in Nat /\ z \in Nat
  BY HoldsSlice
<1>4. Adjoining(tt, new, x, y)
  <2>1. ASSUME NEW i \in 1..(n + 1) PROVE tt[i] = tt[i - 1] + new[i].span
    <3>1. CASE i = n + 1
      BY <1>1, <1>2, <1>3, <3>1 DEF Adjoining
    <3>2. CASE i # n + 1
      BY <1>1, <1>2, <3>2 DEF Adjoining
    <3> QED
      BY <3>1, <3>2
  <2>2. tt \in [0..(n + 1) -> Nat] /\ tt[0] = x /\ tt[n + 1] = y
    BY <1>1, <1>2, <1>3 DEF Adjoining
  <2> HIDE DEF tt, new
  <2> QED
    BY <1>2, <2>1, <2>2 DEF Adjoining
<1>5. ASSUME NEW i \in 1..(n + 1) PROVE Holds(f, new[i].cid, tt[i - 1], tt[i])
  <2>1. CASE i = n + 1
    BY <1>1, <1>2, <2>1 DEF Adjoining
  <2>2. CASE i # n + 1
    <3>1. i \in 1..n
      BY <1>2, <2>2
    <3> QED
      BY <1>1, <1>2, <3>1
  <2> QED
    BY <2>1, <2>2
<1> HIDE DEF new, tt
<1>6. Tiles(f, new, x, y)
  BY <1>2, <1>4, <1>5 DEF Tiles
<1> QED
  BY <1>6 DEF new

\* A row can be cut in two, and its parts tile adjoining slices.
LEMMA TilesSplit ==
  ASSUME NEW f, NEW S, NEW row \in Rows(S), NEW x, NEW y, Tiles(f, row, x, y), NEW n \in 0..Len(row)
  PROVE  \E z \in Nat : /\ Tiles(f, SubSeq(row, 1, n), x, z)
                        /\ Tiles(f, SubSeq(row, n + 1, Len(row)), z, y)
<1>1. PICK st : /\ Adjoining(st, row, x, y)
                /\ \A i \in 1..Len(row) : Holds(f, row[i].cid, st[i - 1], st[i])
  BY DEF Tiles
<1> DEFINE m == Len(row)
           a == SubSeq(row, 1, n)
           b == SubSeq(row, n + 1, m)
           ta == [i \in 0..n |-> st[i]]
           tb == [i \in 0..(m - n) |-> st[n + i]]
<1>2. /\ m \in Nat /\ n \in Nat /\ n <= m
      /\ Len(a) = n /\ Len(b) = m - n
      /\ \A i \in 1..n : a[i] = row[i]
      /\ \A i \in 1..(m - n) : b[i] = row[n + i]
  BY SubSeqProperties DEF Rows
<1>3. /\ st \in [0..m -> Nat] /\ st[0] = x /\ st[m] = y
      /\ \A i \in 1..m : st[i] = st[i - 1] + row[i].span
  BY <1>1 DEF Adjoining
<1> HIDE DEF a, b
<1>4. Tiles(f, a, x, st[n])
  <2>1. Adjoining(ta, a, x, st[n])
    <3>1. ta \in [0..n -> Nat] /\ ta[0] = x /\ ta[n] = st[n]
      BY <1>2, <1>3
    <3>2. \A i \in 1..n : i \in 1..m /\ i - 1 \in 0..n /\ ta[i - 1] = st[i - 1] /\ ta[i] = st[i]
      BY <1>2
    <3> HIDE DEF ta, m
    <3> QED
      BY <1>2, <1>3, <3>1, <3>2 DEF Adjoining
  <2>2. ASSUME NEW i \in 1..n PROVE Holds(f, a[i].cid, ta[i - 1], ta[i])
    <3>1. i \in 1..m /\ i - 1 \in 0..n
      BY <1>2
    <3> QED
      BY <1>1, <1>2, <3>1
  <2> HIDE DEF ta
  <2> QED
    BY <1>2, <2>1, <2>2 DEF Tiles
<1>5. Tiles(f, b, st[n], y)
  <2>1. Adjoining(tb, b, st[n], y)
    <3>1. tb \in [0..(m - n) -> Nat] /\ tb[0] = st[n] /\ tb[m - n] = y
      BY <1>2, <1>3
    <3>2. ASSUME NEW i \in 1..(m - n) PROVE tb[i] = tb[i - 1] + b[i].span
      <4>1. n + i \in 1..m /\ (n + i) - 1 = n + (i - 1) /\ i - 1 \in 0..(m - n)
        BY <1>2
      <4>2. tb[i] = st[n + i] /\ tb[i - 1] = st[(n + i) - 1]
        BY <4>1
      <4>3. st[n + i] = st[(n + i) - 1] + row[n + i].span
        BY <1>3, <4>1
      <4> QED
        BY <1>2, <4>2, <4>3
    <3> HIDE DEF tb
    <3> QED
      BY <1>2, <3>1, <3>2 DEF Adjoining
  <2>2. ASSUME NEW i \in 1..(m - n) PROVE Holds(f, b[i].cid, tb[i - 1], tb[i])
    <3>1. n + i \in 1..m /\ (n + i) - 1 = n + (i - 1) /\ i - 1 \in 0..(m - n)
      BY <1>2
    <3> QED
      BY <1>1, <1>2, <3>1
  <2> HIDE DEF tb
  <2> QED
    BY <1>2, <2>1, <2>2 DEF Tiles
<1> QED
  BY <1>2, <1>3, <1>4, <1>5 DEF a, b

\* A node over a row of adjoining slices holds what they hold.
LEMMA NodeOfRow ==
  ASSUME NEW f, NEW S, NEW row \in Rows(S), row # <<>>, NEW x \in Nat, NEW y \in Nat,
         Tiles(f, row, x, y)
  PROVE  Holds(f, Node(row), x, y) /\ Node(row).size \in Nat /\ y = x + Node(row).size
<1> DEFINE spans == [i \in DOMAIN row |-> row[i].span]
           b == Node(row)
<1>1. PICK st : /\ Adjoining(st, row, x, y)
                /\ \A i \in 1..Len(row) : Holds(f, row[i].cid, st[i - 1], st[i])
  BY DEF Tiles
<1>2. spans \in Seq(Nat) /\ Len(spans) = Len(row) /\ \A i \in 1..Len(row) : spans[i] = row[i].span
  BY RowMember
<1>3. b.type = "node" /\ b.size = SumTo(spans)[Len(row)] /\ b.spans = spans
      /\ b.cids = [i \in DOMAIN row |-> row[i].cid]
  BY DEF Node
<1> HIDE DEF b
<1>4. x + SumTo(spans)[Len(row)] = y /\ SumTo(spans)[Len(row)] \in Nat
  <2> HIDE DEF spans
  <2>1. st \in [0..Len(spans) -> Nat] /\ st[0] = x /\ st[Len(row)] = y
        /\ \A i \in 1..Len(spans) : st[i] = st[i - 1] + spans[i]
    BY <1>1, <1>2 DEF Adjoining
  <2>2. \A i \in 0..Len(spans) : x + SumTo(spans)[i] = st[i] /\ SumTo(spans)[i] \in Nat
    BY <1>2, <2>1, PositionsAreSums
  <2>3. Len(row) \in 0..Len(spans)
    BY <1>2
  <2> QED
    BY <2>1, <2>2, <2>3
<1>5. row = Kids(b)
  <2>1. DOMAIN b.cids = DOMAIN row
    BY <1>3
  <2>2. \A i \in DOMAIN row : row[i] = Pair(b.cids[i], b.spans[i])
    <3>1. \A i \in DOMAIN row : b.cids[i] = row[i].cid /\ b.spans[i] = row[i].span
      BY <1>3
    <3> QED
      BY <3>1, RowMember
  <2>3. Kids(b) = [i \in DOMAIN row |-> row[i]]
    BY <2>1, <2>2 DEF Kids
  <2> QED
    BY <2>3 DEF Rows
<1>6. Len(b.cids) = Len(row) /\ Len(row) \in Nat /\ \A i \in 1..Len(row) : row[i].cid = b.cids[i]
  BY <1>3 DEF Rows
<1>7. x <= y /\ y <= Len(f)
  BY TilesSlice
<1>8. b.size = y - x /\ b.size \in Nat /\ y = x + b.size
  <2> HIDE DEF spans
  <2> QED
    BY <1>3, <1>4
<1>9. Holds(f, b, x, y)
  BY <1>3, <1>5, <1>6, <1>7, <1>8, TilesMakeNode
<1> QED
  BY <1>8, <1>9 DEF b

-----------------------------------------------------------------------------
\* Building

(***************************************************************************)
(* What has been put can be read back: the nodes' children are in the      *)
(* store and no node has too many, and a manifest, which only a finished   *)
(* add leaves, points to a block that holds all of the file.               *)
(***************************************************************************)
StoreSound ==
  \A b \in store :
    /\ b.type \in {"data", "node", "manifest"}
    /\ b.type = "node" => /\ b.cids \in Seq(store) /\ b.spans \in Seq(Nat)
                          /\ Len(b.spans) = Len(b.cids) /\ Len(b.cids) <= Fanout
    /\ b.type = "manifest" => /\ phase = "done"
                              /\ b.root \in store /\ b.size = Len(file)
                              /\ Holds(file, b.root, 0, Len(file))

Left(n) == SubSeq(file, n + 1, Len(file))

(***************************************************************************)
(* n bytes of the file have been read, and while levels are built, the     *)
(* nodes built and the blocks without a parent hold them between them.     *)
(***************************************************************************)
ReadTo(n) ==
  /\ rest = Left(n)
  /\ phase = "group" => n = Len(file)
  /\ phase \in {"read", "group"} =>
       \E z \in Nat : Tiles(file, next, 0, z) /\ Tiles(file, cur, z, n)

LevelsHold ==
  /\ next \in Rows(store) /\ cur \in Rows(store)
  /\ \E n \in 0..Len(file) : ReadTo(n)
  /\ phase = "read" => next = <<>>
  /\ phase = "group" => cur # <<>>

BuildInv ==
  /\ file \in Files /\ phase \in {"read", "group", "done", "failed"}
  /\ lost \subseteq store
  /\ StoreSound /\ LevelsHold

\* A file is a sequence of bytes.
LEMMA FileIsSeq == file \in Files => file \in Seq(Nat) /\ Len(file) \in Nat
BY BuilderAssumption

\* The members of a slice of a sequence.
LEMMA SliceMembers ==
  ASSUME NEW S, NEW s \in Seq(S), NEW n \in 0..Len(s), NEW m \in n..Len(s)
  PROVE  /\ SubSeq(s, n + 1, m) \in Seq(S) /\ Len(SubSeq(s, n + 1, m)) = m - n
         /\ \A i \in 1..(m - n) : SubSeq(s, n + 1, m)[i] = s[n + i]
<1>1. n + 1 \in Int /\ m \in Int /\ \A i \in (n + 1)..m : s[i] \in S
  OBVIOUS
<1>2. /\ SubSeq(s, n + 1, m) \in Seq(S)
      /\ Len(SubSeq(s, n + 1, m)) = IF n + 1 <= m THEN m - (n + 1) + 1 ELSE 0
      /\ \A i \in 1..(m - (n + 1) + 1) : SubSeq(s, n + 1, m)[i] = s[(n + 1) + i - 1]
  BY <1>1, SubSeqProperties
<1>3. Len(SubSeq(s, n + 1, m)) = m - n
  BY <1>2
<1>4. ASSUME NEW i \in 1..(m - n) PROVE SubSeq(s, n + 1, m)[i] = s[n + i]
  <2>1. i \in 1..(m - (n + 1) + 1) /\ (n + 1) + i - 1 = n + i
    OBVIOUS
  <2> QED
    BY <1>2, <2>1
<1> QED
  BY <1>2, <1>3, <1>4

\* What is left of a sequence after its first n elements.
LEMMA TailMembers ==
  ASSUME NEW s \in Seq(Nat), NEW n \in 0..Len(s)
  PROVE  /\ SubSeq(s, n + 1, Len(s)) \in Seq(Nat) /\ Len(SubSeq(s, n + 1, Len(s))) = Len(s) - n
         /\ \A i \in 1..(Len(s) - n) : SubSeq(s, n + 1, Len(s))[i] = s[n + i]
<1>1. Len(s) \in n..Len(s)
  OBVIOUS
<1> QED
  BY <1>1, SliceMembers

\* What First and After take from the rest of the file, as slices of the file.
LEMMA SliceOfRest ==
  ASSUME file \in Files, NEW n \in 0..Len(file), rest = Left(n), NEW m \in 0..Len(rest)
  PROVE  /\ Len(rest) = Len(file) - n
         /\ SubSeq(rest, 1, m) = SubSeq(file, n + 1, n + m) /\ Len(SubSeq(rest, 1, m)) = m
         /\ SubSeq(rest, m + 1, Len(rest)) = Left(n + m)
<1>1. file \in Seq(Nat) /\ Len(file) \in Nat /\ \A i \in 1..Len(file) : file[i] \in Nat
  BY BuilderAssumption
<1>2. /\ rest \in Seq(Nat) /\ Len(rest) = Len(file) - n
      /\ \A i \in 1..(Len(file) - n) : rest[i] = file[n + i]
  <2>1. /\ SubSeq(file, n + 1, Len(file)) \in Seq(Nat)
        /\ Len(SubSeq(file, n + 1, Len(file))) = Len(file) - n
        /\ \A i \in 1..(Len(file) - n) : SubSeq(file, n + 1, Len(file))[i] = file[n + i]
    BY <1>1, TailMembers
  <2> QED
    BY <2>1 DEF Left
<1>3. n \in Nat /\ m \in Nat /\ n + m \in 0..Len(file) /\ n + m \in n..Len(file)
  BY <1>1, <1>2
<1>4. SubSeq(rest, 1, m) = SubSeq(file, n + 1, n + m) /\ Len(SubSeq(rest, 1, m)) = m
  <2> DEFINE a == SubSeq(rest, 1, m)
             b == SubSeq(file, n + 1, n + m)
  <2>1. a \in Seq(Nat) /\ Len(a) = m /\ \A i \in 1..m : a[i] = rest[i]
    <3>1. 0 \in 0..Len(rest) /\ m \in 0..Len(rest) /\ m - 0 = m
      BY <1>2, <1>3
    <3>2. /\ SubSeq(rest, 0 + 1, m) \in Seq(Nat) /\ Len(SubSeq(rest, 0 + 1, m)) = m - 0
          /\ \A i \in 1..(m - 0) : SubSeq(rest, 0 + 1, m)[i] = rest[0 + i]
      <4>1. rest \in Seq(Nat)
        BY <1>2
      <4> QED
        BY <3>1, <4>1, SliceMembers
    <3>3. 0 + 1 = 1 /\ \A i \in 1..m : 0 + i = i
      BY <1>3
    <3> QED
      BY <3>1, <3>2, <3>3
  <2>2. b \in Seq(Nat) /\ Len(b) = m /\ \A i \in 1..m : b[i] = file[n + i]
    <3>1. n \in 0..Len(file) /\ n + m \in n..Len(file) /\ (n + m) - n = m
      BY <1>3
    <3>2. /\ SubSeq(file, n + 1, n + m) \in Seq(Nat)
          /\ Len(SubSeq(file, n + 1, n + m)) = (n + m) - n
          /\ \A i \in 1..((n + m) - n) : SubSeq(file, n + 1, n + m)[i] = file[n + i]
      <4>1. file \in Seq(Nat)
        BY <1>1
      <4> QED
        BY <3>1, <4>1, SliceMembers
    <3> QED
      BY <3>1, <3>2
  <2>3. \A i \in 1..m : rest[i] = file[n + i]
    <3>1. \A i \in 1..m : i \in 1..(Len(file) - n)
      BY <1>1, <1>2
    <3> QED
      BY <1>2, <3>1
  <2> HIDE DEF a, b
  <2>4. a = b
    BY <2>1, <2>2, <2>3, SeqEqual
  <2> QED
    BY <2>1, <2>4 DEF a, b
<1>5. SubSeq(rest, m + 1, Len(rest)) = Left(n + m)
  <2> DEFINE a == SubSeq(rest, m + 1, Len(rest))
             b == SubSeq(file, (n + m) + 1, Len(file))
             k == Len(file) - (n + m)
  <2>1. a \in Seq(Nat) /\ Len(a) = k /\ \A i \in 1..k : a[i] = rest[m + i]
    <3>1. Len(rest) \in m..Len(rest) /\ Len(rest) - m = k
      BY <1>1, <1>2, <1>3
    <3>2. /\ SubSeq(rest, m + 1, Len(rest)) \in Seq(Nat)
          /\ Len(SubSeq(rest, m + 1, Len(rest))) = Len(rest) - m
          /\ \A i \in 1..(Len(rest) - m) : SubSeq(rest, m + 1, Len(rest))[i] = rest[m + i]
      <4>1. rest \in Seq(Nat) /\ m \in 0..Len(rest)
        BY <1>2
      <4> HIDE DEF k
      <4> QED
        BY <4>1, TailMembers
    <3>3. /\ a \in Seq(Nat) /\ Len(a) = Len(rest) - m
          /\ \A i \in 1..(Len(rest) - m) : a[i] = rest[m + i]
      BY <3>2
    <3>4. Len(rest) - m = k
      BY <3>1
    <3> HIDE DEF a, k
    <3> QED
      BY <3>3, <3>4
  <2>2. b \in Seq(Nat) /\ Len(b) = k /\ \A i \in 1..k : b[i] = file[(n + m) + i]
    <3>1. file \in Seq(Nat) /\ n + m \in 0..Len(file)
      BY <1>1, <1>3
    <3>2. /\ SubSeq(file, (n + m) + 1, Len(file)) \in Seq(Nat)
          /\ Len(SubSeq(file, (n + m) + 1, Len(file))) = Len(file) - (n + m)
          /\ \A i \in 1..(Len(file) - (n + m)) :
               SubSeq(file, (n + m) + 1, Len(file))[i] = file[(n + m) + i]
      BY <3>1, TailMembers
    <3> QED
      BY <3>2
  <2>3. \A i \in 1..k : a[i] = b[i]
    <3> SUFFICES ASSUME NEW i \in 1..k PROVE rest[m + i] = file[(n + m) + i]
      BY <2>1, <2>2
    <3>1. m + i \in 1..(Len(file) - n) /\ n + (m + i) = (n + m) + i
      BY <1>1, <1>3
    <3> QED
      BY <1>2, <3>1
  <2> HIDE DEF a, b, k
  <2>4. a = b
    BY <2>1, <2>2, <2>3, SeqEqual
  <2> QED
    BY <2>4 DEF a, b, Left
<1> QED
  BY <1>2, <1>4, <1>5

\* A row over some blocks is one over more blocks.
LEMMA RowsGrow ==
  ASSUME NEW S, NEW T, S \subseteq T
  PROVE  Rows(S) \subseteq Rows(T) /\ Seq(S) \subseteq Seq(T)
<1> DEFINE A == [cid : S, span : Nat]
           B == [cid : T, span : Nat]
<1>1. A \subseteq B
  OBVIOUS
<1> HIDE DEF A, B
<1>2. Seq(A) \subseteq Seq(B)
  BY <1>1
<1>3. Rows(S) = Seq(A) /\ Rows(T) = Seq(B)
  BY DEF Rows, A, B
<1>4. Seq(S) \subseteq Seq(T)
  OBVIOUS
<1> QED
  BY <1>2, <1>3, <1>4

\* A step that puts the block b, which holds what its type promises.
LEMMA StoreGrows ==
  ASSUME StoreSound, NEW b, store' = store \cup {b}, file' = file,
         phase = "done" => phase' = "done",
         /\ b.type \in {"data", "node", "manifest"}
         /\ b.type = "node" => /\ b.cids \in Seq(store) /\ b.spans \in Seq(Nat)
                               /\ Len(b.spans) = Len(b.cids) /\ Len(b.cids) <= Fanout
         /\ b.type = "manifest" => /\ phase' = "done"
                                   /\ b.root \in store /\ b.size = Len(file)
                                   /\ Holds(file, b.root, 0, Len(file))
  PROVE  StoreSound'
<1>1. store \subseteq store' /\ Seq(store) \subseteq Seq(store')
  BY RowsGrow
<1>2. ASSUME NEW c \in store'
      PROVE  /\ c.type \in {"data", "node", "manifest"}
             /\ c.type = "node" => /\ c.cids \in Seq(store') /\ c.spans \in Seq(Nat)
                                   /\ Len(c.spans) = Len(c.cids) /\ Len(c.cids) <= Fanout
             /\ c.type = "manifest" => /\ phase' = "done"
                                       /\ c.root \in store' /\ c.size = Len(file)
                                       /\ Holds(file, c.root, 0, Len(file))
  <2>1. CASE c = b
    BY <1>1, <2>1
  <2>2. CASE c \in store
    BY <1>1, <2>2 DEF StoreSound
  <2> QED
    BY <1>2, <2>1, <2>2
<1>3. file' = file
  OBVIOUS
<1> QED
  BY <1>2, <1>3 DEF StoreSound

\* Nothing has been read, and nothing is held.
LEMMA BuildInitInv == BuildInit => BuildInv
<1> SUFFICES ASSUME BuildInit PROVE BuildInv
  OBVIOUS
<1>1. file \in Seq(Nat) /\ Len(file) \in Nat
  BY FileIsSeq DEF BuildInit
<1>2. StoreSound /\ lost \subseteq store
  BY DEF BuildInit, StoreSound
<1>3. next \in Rows(store) /\ cur \in Rows(store)
  BY DEF BuildInit, Rows
<1>4. rest = Left(0)
  BY <1>1, SubSeqFull DEF BuildInit, Left
<1>5. Tiles(file, next, 0, 0) /\ Tiles(file, cur, 0, 0)
  BY NoRow DEF BuildInit
<1>6. LevelsHold
  <2>0. ReadTo(0)
    BY <1>4, <1>5 DEF BuildInit, ReadTo
  <2>1. 0 \in 0..Len(file) /\ 0 \in Nat /\ phase = "read" /\ next = <<>>
    BY <1>1 DEF BuildInit
  <2> QED
    BY <1>3, <2>0, <2>1 DEF LevelsHold
<1> QED
  BY <1>2, <1>6 DEF BuildInit, BuildInv

\* A chunk adds a leaf, and the current level tiles what has been read.
LEMMA ReadChunkInv == BuildInv /\ ReadChunk => BuildInv'
<1> SUFFICES ASSUME BuildInv, ReadChunk PROVE BuildInv'
  OBVIOUS
<1> DEFINE chunk == First(ChunkSize, rest)
           b == Leaf(chunk)
           m == Len(chunk)
<1>0. file \in Seq(Nat) /\ Len(file) \in Nat /\ ChunkSize \in Nat \ {0}
  BY FileIsSeq, BuilderAssumption DEF BuildInv
<1>1. PICK n \in 0..Len(file) :
        /\ rest = Left(n)
        /\ \E z \in Nat : Tiles(file, next, 0, z) /\ Tiles(file, cur, z, n)
  BY DEF BuildInv, LevelsHold, ReadTo, ReadChunk
<1>2. PICK z \in Nat : Tiles(file, next, 0, z) /\ Tiles(file, cur, z, n)
  BY <1>1
<1>3. Len(rest) = Len(file) - n /\ rest \in Seq(Nat)
  <2>1. Len(file) \in n..Len(file)
    BY <1>0
  <2> QED
    BY <1>0, <1>1, <2>1, SliceMembers DEF Left
<1>4. m \in 0..Len(rest) /\ m <= ChunkSize /\ chunk = SubSeq(rest, 1, m)
  <2>1. CASE ChunkSize < Len(rest)
    <3>1. ChunkSize \in 0..Len(rest) /\ chunk = SubSeq(rest, 1, ChunkSize)
      BY <1>0, <1>3, <2>1 DEF First
    <3>2. Len(SubSeq(rest, 1, ChunkSize)) = ChunkSize
      BY <1>1, <3>1, SliceOfRest DEF BuildInv
    <3> HIDE DEF chunk
    <3> QED
      BY <1>0, <3>1, <3>2
  <2>2. CASE ~(ChunkSize < Len(rest))
    <3>1. Len(rest) \in 0..Len(rest) /\ chunk = SubSeq(rest, 1, Len(rest)) /\ Len(rest) <= ChunkSize
      BY <1>0, <1>3, <2>2 DEF First
    <3>2. Len(SubSeq(rest, 1, Len(rest))) = Len(rest)
      BY <1>1, <3>1, SliceOfRest DEF BuildInv
    <3> HIDE DEF chunk
    <3> QED
      BY <3>1, <3>2
  <2> QED
    BY <2>1, <2>2
<1>5. /\ store' = store \cup {b} /\ lost' = lost \ {b}
      /\ cur' = Append(cur, Pair(b, m)) /\ rest' = After(ChunkSize, rest)
      /\ phase' = IF m < ChunkSize THEN "group" ELSE "read"
      /\ phase = "read" /\ next' = next /\ file' = file
  BY DEF ReadChunk, Put
<1>6. chunk = SubSeq(file, n + 1, n + m) /\ Left(n + m) = SubSeq(rest, m + 1, Len(rest))
  BY <1>1, <1>4, SliceOfRest DEF BuildInv
<1> HIDE DEF chunk, m
<1>7. n + m \in 0..Len(file) /\ Holds(file, b, n, n + m) /\ m \in Nat
  <2>1. n \in Nat /\ n + m \in Nat /\ n <= n + m /\ n + m <= Len(file)
    BY <1>0, <1>3, <1>4
  <2>2. Holds(file, Leaf(SubSeq(file, n + 1, n + m)), n, n + m)
    BY <2>1, LeafHolds
  <2>3. Holds(file, b, n, n + m)
    BY <1>6, <2>2
  <2>4. n + m \in 0..Len(file) /\ m \in Nat
    BY <1>0, <1>3, <1>4, <2>1
  <2> HIDE DEF b
  <2> QED
    BY <2>3, <2>4
<1>8. rest' = Left(n + m)
  <2>1. CASE m = ChunkSize
    BY <1>5, <1>6, <2>1 DEF After
  <2>2. CASE m # ChunkSize
    <3>1. m = Len(rest) /\ Len(rest) < ChunkSize + 1
      BY <1>0, <1>3, <1>4, <2>2 DEF chunk, First, m
    <3>2. SubSeq(rest, ChunkSize + 1, Len(rest)) = <<>> /\ SubSeq(rest, m + 1, Len(rest)) = <<>>
      BY <1>0, <1>3, <1>4, <3>1, SubSeqEmpty
    <3> QED
      BY <1>5, <1>6, <3>2 DEF After
  <2> QED
    BY <2>1, <2>2
<1>9. m < ChunkSize => n + m = Len(file)
  BY <1>0, <1>3, <1>4 DEF chunk, First, m
<1>10. StoreSound'
  <2>1. b.type = "data"
    BY DEF Leaf
  <2> HIDE DEF b
  <2> QED
    BY <1>5, <2>1, StoreGrows DEF BuildInv
<1>11. next' \in Rows(store') /\ cur' \in Rows(store') /\ cur' # <<>>
  <2>1. cur \in Rows(store') /\ next \in Rows(store')
    BY <1>5, RowsGrow DEF BuildInv, LevelsHold
  <2>2. Pair(b, m) \in [cid : store', span : Nat]
    BY <1>5, <1>7 DEF Pair
  <2> QED
    BY <1>5, <2>1, <2>2, AppendProperties DEF Rows
<1>12. Tiles(file, cur', z, n + m)
  <2>1. Pair(b, m).cid = b /\ Pair(b, m).span = m
    BY DEF Pair
  <2> QED
    BY <1>2, <1>5, <1>7, <2>1, TilesAppend DEF BuildInv, LevelsHold
<1>13. LevelsHold'
  <2>1. PICK k \in 0..Len(file) : k = n + m
    BY <1>7
  <2>2. Tiles(file', next', 0, z) /\ Tiles(file', cur', z, k)
    BY <1>2, <1>5, <1>12, <2>1
  <2>3. next = <<>>
    BY <1>5 DEF BuildInv, LevelsHold
  <2>4. rest' = SubSeq(file', k + 1, Len(file'))
    BY <1>5, <1>8, <2>1 DEF Left
  <2>5. /\ k \in 0..Len(file') /\ phase' \in {"read", "group"} /\ next' = <<>>
        /\ phase' = "group" => k = Len(file')
    BY <1>5, <1>9, <2>1, <2>3
  <2> HIDE DEF b
  <2>6. ReadTo(k)'
    BY <2>2, <2>4, <2>5 DEF ReadTo, Left
  <2> QED
    BY <1>11, <2>5, <2>6 DEF LevelsHold
<1> HIDE DEF b
<1> QED
  BY <1>5, <1>10, <1>13 DEF BuildInv

\* At the end of the file the current level tiles all of it.
LEMMA EndOfFileInv == BuildInv /\ EndOfFile => BuildInv'
<1> SUFFICES ASSUME BuildInv, EndOfFile PROVE BuildInv'
  OBVIOUS
<1>0. /\ file \in Seq(Nat) /\ Len(file) \in Nat
      /\ rest = <<>> /\ phase = "read" /\ phase' = "group" /\ next = <<>>
      /\ UNCHANGED <<file, rest, next>>
  BY FileIsSeq DEF BuildInv, LevelsHold, EndOfFile
<1>1. PICK n \in 0..Len(file) : ReadTo(n)
  BY DEF BuildInv, LevelsHold
<1>2. n = Len(file)
  <2>1. Len(file) \in n..Len(file)
    BY <1>0
  <2>2. Len(rest) = Len(file) - n
    <3>1. rest = SubSeq(file, n + 1, Len(file))
      BY <1>1 DEF ReadTo, Left
    <3>2. file \in Seq(Nat) /\ n \in 0..Len(file) /\ Len(file) \in n..Len(file)
      BY <1>0, <2>1
    <3>3. Len(SubSeq(file, n + 1, Len(file))) = Len(file) - n
      BY <3>2, SliceMembers
    <3> QED
      BY <3>1, <3>3
  <2> QED
    BY <1>0, <2>2
<1>3. PICK z \in Nat : Tiles(file, next, 0, z) /\ Tiles(file, cur, z, n)
  BY <1>0, <1>1 DEF ReadTo
<1>4. rest' = SubSeq(file', n + 1, Len(file'))
  BY <1>0, <1>1 DEF ReadTo, Left
<1>5. CASE cur # <<>>
  <2>1. UNCHANGED <<store, lost, cur>>
    BY <1>5 DEF EndOfFile
  <2>2. ReadTo(n)'
    BY <1>0, <1>2, <1>3, <1>4, <2>1 DEF ReadTo, Left
  <2>3. LevelsHold'
    BY <1>0, <1>5, <2>1, <2>2 DEF BuildInv, LevelsHold
  <2>4. StoreSound'
    BY <1>0, <2>1 DEF BuildInv, StoreSound
  <2> QED
    BY <1>0, <2>1, <2>3, <2>4 DEF BuildInv
<1>6. CASE cur = <<>>
  <2> DEFINE b == Leaf(<<>>)
  <2>1. /\ store' = store \cup {b} /\ lost' = lost \ {b} /\ cur' = <<Pair(b, 0)>>
    BY <1>6 DEF EndOfFile, Put
  <2>2. z = 0 /\ n = 0
    BY <1>0, <1>3, <1>6, NoRow
  <2>3. b.type = "data" /\ b.payload = <<>> /\ Pair(b, 0).cid = b /\ Pair(b, 0).span = 0
    BY DEF Leaf, Pair
  <2>4. Holds(file, b, 0, 0)
    <3>1. SubSeq(file, 0 + 1, 0) = <<>>
      BY SubSeqEmpty
    <3>2. 0 \in Nat /\ 0 <= 0 /\ 0 <= Len(file)
      BY <1>0
    <3>3. Holds(file, Leaf(SubSeq(file, 0 + 1, 0)), 0, 0)
      BY <3>2, LeafHolds
    <3> QED
      BY <3>1, <3>3
  <2>5. Pair(b, 0) \in [cid : {b}, span : Nat]
    BY DEF Pair
  <2> HIDE DEF b
  <2>6. <<Pair(b, 0)>> \in Rows(store')
    <3>1. <<Pair(b, 0)>> \in Rows({b})
      BY <2>5 DEF Rows
    <3> QED
      BY <2>1, <3>1, RowsGrow
  <2>7. Tiles(file, cur', 0, 0)
    <3>1. Adjoining([i \in 0..1 |-> 0], cur', 0, 0)
      BY <2>1, <2>3 DEF Adjoining
    <3> QED
      BY <2>1, <2>3, <2>4, <3>1 DEF Tiles
  <2>8. ReadTo(n)'
    <3>1. Tiles(file, next, 0, 0)
      BY NoRow, <1>0
    <3> QED
      BY <1>0, <1>2, <1>4, <2>2, <2>7, <3>1 DEF ReadTo, Left
  <2>9. LevelsHold'
    <3>1. next' \in Rows(store')
      BY <1>0 DEF Rows
    <3> QED
      BY <1>0, <2>1, <2>6, <2>8, <3>1 DEF LevelsHold
  <2>10. StoreSound'
    BY <1>0, <2>1, <2>3, StoreGrows DEF BuildInv
  <2> QED
    BY <1>0, <2>1, <2>9, <2>10 DEF BuildInv
<1> QED
  BY <1>5, <1>6

\* The children of a node leave the current level, and the node joins the next.
LEMMA PutNodeInv == BuildInv /\ PutNode => BuildInv'
<1> SUFFICES ASSUME BuildInv, PutNode PROVE BuildInv'
  OBVIOUS
<1> DEFINE group == First(Fanout, cur)
           left  == After(Fanout, cur)
           b     == Node(group)
           built == Append(next, Pair(b, b.size))
<1>0. /\ file \in Seq(Nat) /\ Len(file) \in Nat /\ Fanout \in Nat \ {0}
      /\ phase = "group" /\ cur # <<>> /\ cur \in Rows(store) /\ next \in Rows(store)
      /\ Len(cur) \in Nat \ {0}
  BY FileIsSeq, BuilderAssumption, EmptySeq DEF BuildInv, LevelsHold, PutNode, Rows
<1>1. /\ store' = store \cup {b} /\ lost' = lost \ {b}
      /\ cur' = IF left = <<>> THEN built ELSE left
      /\ next' = IF left = <<>> THEN <<>> ELSE built
      /\ UNCHANGED <<file, rest, phase>>
  BY DEF PutNode, Put
<1>2. PICK n \in 0..Len(file) : ReadTo(n)
  BY DEF BuildInv, LevelsHold
<1>3. PICK z \in Nat : Tiles(file, next, 0, z) /\ Tiles(file, cur, z, n)
  BY <1>0, <1>2 DEF ReadTo
<1>4. PICK k \in 1..Len(cur) : /\ group = SubSeq(cur, 1, k) /\ k <= Fanout
                              /\ left = SubSeq(cur, k + 1, Len(cur))
  <2>1. CASE Fanout < Len(cur)
    BY <1>0, <2>1 DEF First, After
  <2>2. CASE ~(Fanout < Len(cur))
    <3>1. left = <<>> /\ SubSeq(cur, Len(cur) + 1, Len(cur)) = <<>>
      BY <1>0, <2>2, SubSeqEmpty DEF After
    <3>2. group = SubSeq(cur, 1, Len(cur)) /\ Len(cur) \in 1..Len(cur) /\ Len(cur) <= Fanout
      BY <1>0, <2>2 DEF First
    <3> QED
      BY <3>1, <3>2
  <2> QED
    BY <2>1, <2>2
<1>5. PICK w \in Nat : Tiles(file, group, z, w) /\ Tiles(file, left, w, n)
  <2>1. k \in 0..Len(cur)
    BY <1>0
  <2> QED
    BY <1>0, <1>3, <1>4, <2>1, TilesSplit
<1>6. group \in Rows(store) /\ left \in Rows(store) /\ Len(group) = k
  <2> DEFINE T == [cid : store, span : Nat]
  <2> HIDE DEF T
  <2>1. cur \in Seq(T)
    BY <1>0 DEF T, Rows
  <2>2. 0 \in 0..Len(cur) /\ k \in 0..Len(cur) /\ Len(cur) \in k..Len(cur) /\ 0 + 1 = 1 /\ k - 0 = k
    BY <1>0
  <2>3. SubSeq(cur, 1, k) \in Seq(T) /\ Len(SubSeq(cur, 1, k)) = k
    BY <2>1, <2>2, SliceMembers
  <2>4. SubSeq(cur, k + 1, Len(cur)) \in Seq(T)
    BY <2>1, <2>2, SliceMembers
  <2> QED
    BY <1>4, <2>3, <2>4 DEF Rows, T
<1> HIDE DEF group, left
<1>7. Holds(file, b, z, w) /\ b.size \in Nat /\ w = z + b.size
  <2>1. group # <<>>
    BY <1>6
  <2> QED
    BY <1>5, <1>6, <2>1, NodeOfRow
<1>8. /\ b.type = "node" /\ b.cids \in Seq(store) /\ b.spans \in Seq(Nat)
      /\ Len(b.spans) = Len(b.cids) /\ Len(b.cids) <= Fanout
  <2>1. /\ b.type = "node" /\ b.cids = [i \in DOMAIN group |-> group[i].cid]
        /\ b.spans = [i \in DOMAIN group |-> group[i].span]
    BY DEF Node
  <2>2. DOMAIN group = 1..k /\ \A i \in 1..k : group[i].cid \in store /\ group[i].span \in Nat
    BY <1>6, RowMember
  <2> HIDE DEF b
  <2> QED
    BY <1>0, <1>4, <2>1, <2>2
<1>9. Pair(b, b.size).cid = b /\ Pair(b, b.size).span = b.size
  BY DEF Pair
<1>10. Pair(b, b.size) \in [cid : {b}, span : Nat]
  <2> HIDE DEF b
  <2> QED
    BY <1>7 DEF Pair
<1> HIDE DEF b
<1>11. built \in Rows(store') /\ built # <<>>
  <2>1. next \in Rows(store')
    BY <1>0, <1>1, RowsGrow
  <2>2. Pair(b, b.size) \in [cid : store', span : Nat]
    BY <1>1, <1>7 DEF Pair
  <2> DEFINE T == [cid : store', span : Nat]
             e == Pair(b, b.size)
  <2>3. next \in Seq(T) /\ e \in T
    BY <2>1, <2>2 DEF Rows
  <2> HIDE DEF T, e
  <2>4. Append(next, e) \in Seq(T) /\ Append(next, e) # <<>>
    BY <2>3, AppendProperties
  <2> QED
    BY <2>4 DEF Rows, T, e
<1>12. Tiles(file, built, 0, w)
  BY <1>0, <1>3, <1>7, <1>9, TilesAppend
<1> HIDE DEF built
<1>13. left \in Rows(store')
  BY <1>1, <1>6, RowsGrow
<1>14. StoreSound'
  BY <1>1, <1>8, StoreGrows DEF BuildInv
<1>15. \E y \in Nat : Tiles(file, next', 0, y) /\ Tiles(file, cur', y, n)
  <2>1. CASE left = <<>>
    <3>1. w = n
      BY <1>5, <2>1, NoRow
    <3>2. Tiles(file, <<>>, 0, 0)
      BY NoRow
    <3> QED
      BY <1>1, <1>12, <2>1, <3>1, <3>2
  <2>2. CASE left # <<>>
    BY <1>1, <1>5, <1>12, <2>2
  <2> QED
    BY <2>1, <2>2
<1>16. ReadTo(n)'
  BY <1>1, <1>2, <1>15 DEF ReadTo, Left
<1>17. LevelsHold'
  <2>1. <<>> \in Rows(store')
    BY DEF Rows
  <2> QED
    BY <1>0, <1>1, <1>11, <1>13, <1>16, <2>1 DEF LevelsHold
<1> QED
  BY <1>1, <1>14, <1>17 DEF BuildInv

\* The last block left tiles the file alone, and becomes the root.
LEMMA PutManifestInv == BuildInv /\ PutManifest => BuildInv'
<1> SUFFICES ASSUME BuildInv, PutManifest PROVE BuildInv'
  OBVIOUS
<1> DEFINE b == Manifest(cur[1].cid, Len(file))
<1>0. /\ file \in Seq(Nat) /\ Len(file) \in Nat
      /\ phase = "group" /\ Len(cur) = 1 /\ next = <<>> /\ phase' = "done"
      /\ cur \in Rows(store) /\ next \in Rows(store)
      /\ store' = store \cup {b} /\ lost' = lost \ {b}
      /\ UNCHANGED <<file, rest, cur, next>>
  BY FileIsSeq DEF BuildInv, LevelsHold, PutManifest, Put
<1>1. PICK n \in 0..Len(file) : ReadTo(n)
  BY DEF BuildInv, LevelsHold
<1>2. PICK z \in Nat : Tiles(file, next, 0, z) /\ Tiles(file, cur, z, n)
  BY <1>0, <1>1 DEF ReadTo
<1>3. z = 0 /\ n = Len(file)
  BY <1>0, <1>1, <1>2, NoRow DEF ReadTo
<1>4. Holds(file, cur[1].cid, 0, Len(file)) /\ cur[1].cid \in store
  <2>1. PICK st : /\ Adjoining(st, cur, 0, Len(file))
                  /\ \A i \in 1..Len(cur) : Holds(file, cur[i].cid, st[i - 1], st[i])
    BY <1>2, <1>3 DEF Tiles
  <2>2. st[0] = 0 /\ st[1] = Len(file) /\ 1 \in 1..Len(cur) /\ 1 - 1 = 0
    BY <1>0, <2>1 DEF Adjoining
  <2> QED
    BY <1>0, <2>1, <2>2, RowMember
<1>5. b.type = "manifest" /\ b.size = Len(file) /\ b.root = cur[1].cid
  BY DEF Manifest
<1> HIDE DEF b
<1>6. StoreSound'
  BY <1>0, <1>4, <1>5, StoreGrows DEF BuildInv
<1>7. next' \in Rows(store') /\ cur' \in Rows(store')
  BY <1>0, RowsGrow
<1>8. ReadTo(n)'
  BY <1>0, <1>1 DEF ReadTo, Left
<1> QED
  BY <1>0, <1>6, <1>7, <1>8 DEF BuildInv, LevelsHold

\* What the builder has put is sound, whatever is lost or fails.
LEMMA BuildNext ==
  BuildInv /\ (Build \/ (\E c \in store : LoseBlock(c)) \/ UNCHANGED bvars) => BuildInv'
<1> SUFFICES ASSUME BuildInv, Build \/ (\E c \in store : LoseBlock(c)) \/ UNCHANGED bvars
             PROVE  BuildInv'
  OBVIOUS
<1>1. CASE ReadChunk
  BY <1>1, ReadChunkInv
<1>2. CASE EndOfFile
  BY <1>2, EndOfFileInv
<1>3. CASE PutNode
  BY <1>3, PutNodeInv
<1>4. CASE PutManifest
  BY <1>4, PutManifestInv
<1>5. CASE BuildFails
  <2>1. /\ phase \in {"read", "group"} /\ phase' = "failed"
        /\ UNCHANGED <<file, rest, cur, next, store, lost>>
    BY <1>5 DEF BuildFails
  <2>2. StoreSound'
    BY <2>1 DEF BuildInv, StoreSound
  <2>3. LevelsHold'
    BY <2>1 DEF BuildInv, LevelsHold, ReadTo, Left
  <2> QED
    BY <2>1, <2>2, <2>3 DEF BuildInv
<1>6. CASE (\E c \in store : LoseBlock(c)) \/ UNCHANGED bvars
  <2>1. UNCHANGED <<file, rest, phase, cur, next, store>> /\ lost' \subseteq store
    BY <1>6 DEF LoseBlock, bvars, BuildInv
  <2>2. StoreSound'
    BY <2>1 DEF BuildInv, StoreSound
  <2>3. LevelsHold'
    BY <2>1 DEF BuildInv, LevelsHold, ReadTo, Left
  <2> QED
    BY <2>1, <2>2, <2>3 DEF BuildInv
<1> QED
  BY <1>1, <1>2, <1>3, <1>4, <1>5, <1>6 DEF Build

-----------------------------------------------------------------------------
\* Paths

Kid(p, i) == Append(p, i)

\* The path of a child, and the parent of that path.
LEMMA KidFacts ==
  ASSUME NEW p \in Seq(Nat), NEW i \in Nat
  PROVE  /\ Kid(p, i) \in Seq(Nat) /\ Kid(p, i) # <<>> /\ Kid(p, i) # p
         /\ Len(Kid(p, i)) = Len(p) + 1 /\ Parent(Kid(p, i)) = p
<1>1. /\ Kid(p, i) \in Seq(Nat) /\ Len(Kid(p, i)) = Len(p) + 1
      /\ \A k \in 1..Len(p) : Kid(p, i)[k] = p[k]
  BY AppendProperties DEF Kid
<1>2. Len(p) \in Nat /\ (Len(p) + 1) - 1 = Len(p) /\ Kid(p, i) # <<>> /\ Kid(p, i) # p
  BY <1>1
<1> DEFINE s == Kid(p, i)
           a == SubSeq(s, 1, Len(p))
<1>3. a \in Seq(Nat) /\ Len(a) = Len(p) /\ \A k \in 1..Len(p) : a[k] = s[0 + k]
  <2>1. 0 \in 0..Len(s) /\ Len(p) \in 0..Len(s) /\ 0 + 1 = 1 /\ Len(p) - 0 = Len(p)
    BY <1>1, <1>2
  <2> HIDE DEF s
  <2> QED
    BY <1>1, <2>1, SliceMembers DEF s
<1>4. \A k \in 1..Len(p) : a[k] = p[k]
  BY <1>1, <1>2, <1>3
<1>5. a = p
  <2> HIDE DEF a
  <2> QED
    BY <1>3, <1>4, SeqEqual
<1> QED
  BY <1>1, <1>2, <1>5 DEF Parent

\* Every path but that of the root is the path of a child of its parent.
LEMMA PathIsKid ==
  ASSUME NEW p \in Seq(Nat), p # <<>>
  PROVE  /\ Parent(p) \in Seq(Nat) /\ Len(p) = Len(Parent(p)) + 1
         /\ \E i \in Nat : p = Kid(Parent(p), i)
<1> DEFINE n == Len(p)
           a == SubSeq(p, 1, n - 1)
<1>1. n \in Nat /\ n # 0 /\ n - 1 \in 0..n /\ p[n] \in Nat
  BY EmptySeq
<1>2. a \in Seq(Nat) /\ Len(a) = n - 1 /\ \A k \in 1..(n - 1) : a[k] = p[k]
  <2>1. 0 \in 0..n /\ 0 + 1 = 1 /\ (n - 1) - 0 = n - 1 /\ \A k \in 1..(n - 1) : 0 + k = k
    BY <1>1
  <2>2. n - 1 \in 0..Len(p)
    BY <1>1
  <2> QED
    BY <2>1, <2>2, SliceMembers
<1>3. /\ Append(a, p[n]) \in Seq(Nat) /\ Len(Append(a, p[n])) = n
      /\ \A k \in 1..(n - 1) : Append(a, p[n])[k] = a[k]
      /\ Append(a, p[n])[n] = p[n]
  <2> HIDE DEF a, n
  <2> QED
    BY <1>1, <1>2, AppendProperties
<1>4. \A k \in 1..n : Append(a, p[n])[k] = p[k]
  <2> HIDE DEF a
  <2>1. ASSUME NEW k \in 1..n PROVE k \in 1..(n - 1) \/ k = n
    BY <1>1
  <2> QED
    BY <1>2, <1>3, <2>1
<1>5. Append(a, p[n]) = p
  <2> DEFINE b == Append(a, p[n])
  <2>1. b \in Seq(Nat) /\ Len(b) = Len(p) /\ \A k \in 1..Len(p) : b[k] = p[k]
    BY <1>3, <1>4
  <2> HIDE DEF b
  <2>2. b = p
    BY <2>1, SeqEqual
  <2> QED
    BY <2>2 DEF b
<1> HIDE DEF a
<1>6. p = Kid(a, p[n]) /\ Len(p) = Len(a) + 1
  BY <1>1, <1>2, <1>5 DEF Kid
<1> QED
  BY <1>1, <1>2, <1>6 DEF Parent, a

\* The path of a child tells its parent and its index.
LEMMA KidsDiffer ==
  ASSUME NEW p \in Seq(Nat), NEW q \in Seq(Nat), NEW i \in Nat, NEW j \in Nat, Kid(p, i) = Kid(q, j)
  PROVE  p = q /\ i = j
<1>1. p = q
  BY KidFacts
<1>2. Kid(p, i)[Len(p) + 1] = i /\ Kid(q, j)[Len(q) + 1] = j
  BY AppendProperties DEF Kid
<1> QED
  BY <1>1, <1>2

-----------------------------------------------------------------------------
\* Calls of fetchRange

CallRecord(S) ==
  [at : {"acquire", "get", "loop", "inline", "send", "done"}, cid : S, base : Nat, span : Nat,
   child : Nat, tasks : Nat, ret : {"none", "ok", "error"}]

Open(p) == call[p].at \in {"loop", "inline"}

\* A call is over, and has sent its result if it is a goroutine's.
IsOK(p) == call[p].at = "done" /\ call[p].ret = "ok"
IsError(p) == call[p].at = "done" /\ call[p].ret = "error"

(***************************************************************************)
(* A call for itself.  Its block holds the slice it is to fetch.           *)
(***************************************************************************)
CallSound(p) ==
  /\ Holds(file, call[p].cid, call[p].base, call[p].base + call[p].span)
  /\ call[p].at \in {"send", "done"} <=> call[p].ret # "none"
  /\ Place(p, "send") => p = <<>> \/ call[p].span > InlineSpan
  /\ call[p].tasks < call[p].child /\ call[p].tasks <= Fanout
  /\ call[p].at \in {"acquire", "get"} => call[p].child = 1
  /\ Open(p) \/ call[p].child > 1 => p \in DOMAIN errCh
  /\ p \in DOMAIN errCh => /\ call[p].at \notin {"acquire", "get"} /\ call[p].cid.type = "node"
                           /\ call[p].child <= Len(call[p].cid.cids) + 1
  /\ Place(p, "inline") => /\ call[p].child <= Len(call[p].cid.cids)
                           /\ Kid(p, call[p].child) \in DOMAIN call
                           /\ call[p].cid.spans[call[p].child] <= InlineSpan

CallTypes ==
  /\ IsFiniteSet(DOMAIN call) /\ DOMAIN call \subseteq Seq(Nat)
  /\ call \in [DOMAIN call -> CallRecord(store)]
  /\ DOMAIN errCh \subseteq DOMAIN call
  /\ errCh \in [DOMAIN errCh -> Seq({"ok", "error"})]
  /\ \A p \in DOMAIN call : CallSound(p)

(***************************************************************************)
(* The paths with a call are a tree: below a call, the children before the *)
(* next one have a call, and the one it waits for in its own goroutine.    *)
(***************************************************************************)
KidSound(p, i) ==
  /\ call[p].cid.type = "node" /\ i \in 1..Len(call[p].cid.cids)
  /\ \/ i < call[p].child
     \/ /\ i = call[p].child /\ call[p].at \in {"inline", "send", "done"}
        /\ call[p].cid.spans[i] <= InlineSpan
  /\ call[Kid(p, i)].cid = call[p].cid.cids[i]
  /\ call[Kid(p, i)].span = call[p].cid.spans[i]
  /\ call[Kid(p, i)].base = call[p].base + SumTo(call[p].cid.spans)[i - 1]

CallTree ==
  /\ \A p \in DOMAIN call : p # <<>> => Parent(p) \in DOMAIN call
  /\ \A p \in DOMAIN call : \A i \in 1..(call[p].child - 1) : Kid(p, i) \in DOMAIN call
  /\ \A p \in DOMAIN call : \A i \in Nat : Kid(p, i) \in DOMAIN call => KidSound(p, i)

\* The children in goroutines of their own that have not sent their result.
Busy(p) ==
  {i \in 1..(call[p].child - 1) : call[Kid(p, i)].span > InlineSpan /\ ~Place(Kid(p, i), "done")}

(***************************************************************************)
(* A call that is not over waits for its busy children and for the results *)
(* in its channel, and if one of the children failed one of these says so. *)
(***************************************************************************)
Awaits(p) ==
  /\ call[p].tasks = Cardinality(Busy(p)) + Len(errCh[p])
  /\ \A i \in 1..(call[p].child - 1) :
       /\ call[Kid(p, i)].span <= InlineSpan => IsOK(Kid(p, i))
       /\ IsError(Kid(p, i)) => \E j \in 1..Len(errCh[p]) : errCh[p][j] = "error"

(***************************************************************************)
(* Those of a call that is over are accounted for as well.                 *)
(***************************************************************************)
Counts(p) == call[p].tasks = Cardinality(Busy(p)) + Len(errCh[p])

CallsWait ==
  /\ \A p \in DOMAIN call : Open(p) => Awaits(p)
  /\ \A p \in DOMAIN errCh : Counts(p)

(***************************************************************************)
(* When a call has returned without an error, those below it are over.     *)
(***************************************************************************)
Nested ==
  \A p \in DOMAIN call : call[p].ret = "ok" => \A i \in Nat : Kid(p, i) \in DOMAIN call => IsOK(Kid(p, i))

Blame == ctxDone \/ lost # {}

(***************************************************************************)
(* An error has a cause.                                                   *)
(***************************************************************************)
Cause ==
  /\ \A p \in DOMAIN call : call[p].ret = "error" => Blame
  /\ \A p \in DOMAIN errCh : \A i \in 1..Len(errCh[p]) : errCh[p][i] = "error" => Blame

(***************************************************************************)
(* A call that returned without an error has copied its slice of the file. *)
(***************************************************************************)
Copied(p) ==
  \A k \in (call[p].base + 1)..(call[p].base + call[p].span) : out[k] = file[k]

OutRight ==
  DOMAIN call # {} =>
    /\ out = [i \in 1..Len(file) |-> out[i]]
    /\ \A p \in DOMAIN call : call[p].ret = "ok" => Copied(p)

(***************************************************************************)
(* The caller has started at most one call, for the root.                  *)
(***************************************************************************)
CallerInv ==
  /\ fetch \in {"none", "manifest", "wait", "ok", "error"} /\ ctxDone \in BOOLEAN
  /\ target \in store \cup {Leaf(<<>>)}
  /\ fetch # "none" => phase = "done" /\ target \in store
  /\ fetch \in {"none", "manifest"} => DOMAIN call = {}
  /\ DOMAIN call # {} => /\ phase = "done" /\ <<>> \in DOMAIN call
                         /\ call[<<>>].base = 0 /\ call[<<>>].span = Len(file)
  /\ fetch \in {"wait", "ok"} => <<>> \in DOMAIN call /\ target.type = "manifest"
  /\ fetch = "ok" => IsOK(<<>>)

Getting == {p \in DOMAIN call : Place(p, "get")}

Slots == sem = Cardinality(Getting) /\ sem <= Parallel

Inv ==
  /\ BuildInv /\ CallTypes /\ CallTree /\ CallsWait /\ Nested /\ Cause /\ OutRight
  /\ CallerInv /\ Slots

-----------------------------------------------------------------------------
\* The effect of a step of one call

(***************************************************************************)
(* The call p moves on, and no other one.                                  *)
(***************************************************************************)
Moves(p) ==
  /\ DOMAIN call' = DOMAIN call
  /\ call' \in [DOMAIN call -> CallRecord(store)]
  /\ \A q \in DOMAIN call : q # p => call'[q] = call[q]
  /\ call'[p].cid = call[p].cid /\ call'[p].base = call[p].base /\ call'[p].span = call[p].span
  /\ call[p].at \notin {"send", "done"}
  /\ UNCHANGED <<bvars, ctxDone, fetch, target>>

Ends(p, result) ==
  /\ Moves(p) /\ errCh' = errCh
  /\ call'[p].at = IF p = <<>> \/ call[p].span > InlineSpan THEN "send" ELSE "done"
  /\ call'[p].ret = result
  /\ call'[p].child = call[p].child /\ call'[p].tasks = call[p].tasks

\* A call is replaced by one for the same block and slice.
LEMMA UpdateMoves ==
  ASSUME CallTypes, NEW p \in DOMAIN call, NEW r \in CallRecord(store),
         call' = [call EXCEPT ![p] = r], call[p].at \notin {"send", "done"}, CallUnchanged,
         r.cid = call[p].cid, r.base = call[p].base, r.span = call[p].span
  PROVE  Moves(p) /\ call'[p] = r
BY DEF CallTypes, CallUnchanged, Moves

\* What Return does to the calls and the channels.
LEMMA ReturnEnds ==
  ASSUME CallTypes, NEW p \in DOMAIN call, NEW result \in {"ok", "error"},
         Return(p, result), call[p].at \notin {"send", "done"}, CallUnchanged
  PROVE  Ends(p, result)
<1> DEFINE place == IF Spawned(p) THEN "send" ELSE "done"
           r == [call[p] EXCEPT !.at = place, !.ret = result]
<1>1. call[p] \in CallRecord(store)
  BY DEF CallTypes
<1>2. /\ r \in CallRecord(store) /\ r.at = place /\ r.ret = result
      /\ r.cid = call[p].cid /\ r.base = call[p].base /\ r.span = call[p].span
      /\ r.child = call[p].child /\ r.tasks = call[p].tasks
  BY <1>1 DEF CallRecord
<1>3. call' = [call EXCEPT ![p] = r] /\ errCh' = errCh
  BY DEF Return
<1> HIDE DEF r
<1>4. Moves(p) /\ call'[p] = r
  BY <1>2, <1>3, UpdateMoves
<1> QED
  BY <1>2, <1>3, <1>4 DEF Ends, Spawned

\* When p moves, the calls stay sound if p does.
LEMMA TypesMove ==
  ASSUME CallTypes, NEW p \in DOMAIN call, Moves(p),
         DOMAIN errCh \subseteq DOMAIN errCh', DOMAIN errCh' \subseteq DOMAIN errCh \cup {p},
         errCh' \in [DOMAIN errCh' -> Seq({"ok", "error"})], CallSound(p)'
  PROVE  CallTypes'
<1>1. store' = store /\ file' = file
  BY DEF Moves, bvars
<1>2. ASSUME NEW q \in DOMAIN call, q # p PROVE CallSound(q)'
  <2>1. call'[q] = call[q] /\ CallSound(q) /\ DOMAIN call' = DOMAIN call
    BY <1>2 DEF Moves, CallTypes
  <2> QED
    BY <1>1, <2>1 DEF CallSound, Place, Open
<1>3. /\ DOMAIN call' = DOMAIN call
      /\ call' \in [DOMAIN call' -> CallRecord(store')]
  BY <1>1 DEF Moves
<1> QED
  BY <1>2, <1>3 DEF CallTypes

\* When p moves, the calls stay a tree if a call that p has passed was made.
LEMMA TreeMoves ==
  ASSUME CallTypes, CallTree, NEW p \in DOMAIN call, Moves(p), call[p].child <= call'[p].child,
         \A i \in 1..(call'[p].child - 1) : Kid(p, i) \in DOMAIN call,
         \/ call[p].child < call'[p].child
         \/ Kid(p, call[p].child) \notin DOMAIN call
         \/ call'[p].at \in {"send", "done"}
  PROVE  CallTree'
<1>1. /\ DOMAIN call' = DOMAIN call
      /\ \A q \in DOMAIN call : /\ call'[q].cid = call[q].cid /\ call'[q].base = call[q].base
                                /\ call'[q].span = call[q].span
                                /\ call[q].child \in Nat /\ call'[q].child \in Nat
                                /\ q # p => call'[q] = call[q]
  BY DEF Moves, CallTypes, CallRecord
<1>2. \A q \in DOMAIN call : \A i \in 1..(call'[q].child - 1) : Kid(q, i) \in DOMAIN call
  BY <1>1 DEF CallTree
<1>3. ASSUME NEW q \in DOMAIN call, NEW i \in Nat, Kid(q, i) \in DOMAIN call PROVE KidSound(q, i)'
  <2>1. KidSound(q, i)
    BY <1>3 DEF CallTree
  <2>2. /\ call'[q].cid = call[q].cid /\ call'[q].base = call[q].base
        /\ call'[Kid(q, i)].cid = call[Kid(q, i)].cid
        /\ call'[Kid(q, i)].base = call[Kid(q, i)].base
        /\ call'[Kid(q, i)].span = call[Kid(q, i)].span
    BY <1>1, <1>3
  <2>3. \/ i < call'[q].child
        \/ /\ i = call'[q].child /\ call'[q].at \in {"inline", "send", "done"}
           /\ call[q].cid.spans[i] <= InlineSpan
    <3>1. CASE q = p
      <4>1. i < call[p].child \/ (i = call[p].child /\ call[p].cid.spans[i] <= InlineSpan)
        BY <2>1, <3>1 DEF KidSound
      <4> QED
        BY <1>1, <1>3, <3>1, <4>1
    <3>2. CASE q # p
      BY <1>1, <2>1, <3>2 DEF KidSound
    <3> QED
      BY <3>1, <3>2
  <2> QED
    BY <2>1, <2>2, <2>3 DEF KidSound
<1>4. \A q \in DOMAIN call : q # <<>> => Parent(q) \in DOMAIN call
  BY DEF CallTree
<1> QED
  BY <1>1, <1>2, <1>3, <1>4 DEF CallTree

\* The children of p are other calls than p.
LEMMA KidsOfMoved ==
  ASSUME CallTypes, CallTree, NEW p \in DOMAIN call, NEW i \in 1..(call[p].child - 1)
  PROVE  Kid(p, i) \in DOMAIN call /\ Kid(p, i) # p /\ Kid(p, i) # <<>> /\ i \in Nat
<1>1. p \in Seq(Nat) /\ call[p].child \in Nat /\ Kid(p, i) \in DOMAIN call
  BY DEF CallTypes, CallRecord, CallTree
<1>2. i \in Nat
  BY <1>1
<1> QED
  BY <1>1, <1>2, KidFacts

\* A call waits on when its channel and its count stand, and no child is done now that was not.
LEMMA WaitsElsewhere ==
  ASSUME NEW q \in DOMAIN call,
         call'[q].child = call[q].child, call'[q].tasks = call[q].tasks, errCh'[q] = errCh[q],
         \A i \in 1..(call[q].child - 1) :
           /\ call'[Kid(q, i)].span = call[Kid(q, i)].span
           /\ call[Kid(q, i)].span > InlineSpan =>
                (call'[Kid(q, i)].at = "done" <=> call[Kid(q, i)].at = "done")
           /\ IsOK(Kid(q, i)) => call'[Kid(q, i)].at = "done" /\ call'[Kid(q, i)].ret = "ok"
           /\ call'[Kid(q, i)].at = "done" /\ call'[Kid(q, i)].ret = "error" =>
                IsError(Kid(q, i)) \/ call[Kid(q, i)].span <= InlineSpan
  PROVE  (Counts(q) => Counts(q)') /\ (Awaits(q) => Awaits(q)')
<1>1. Busy(q)' = Busy(q)
  BY DEF Busy, Place
<1>2. Counts(q) => Counts(q)'
  BY <1>1 DEF Counts
<1>3. ASSUME Awaits(q) PROVE Awaits(q)'
  <2>1. call'[q].tasks = Cardinality(Busy(q)') + Len(errCh'[q])
    BY <1>1, <1>3 DEF Awaits
  <2>2. ASSUME NEW i \in 1..(call[q].child - 1)
        PROVE  /\ call'[Kid(q, i)].span <= InlineSpan =>
                    call'[Kid(q, i)].at = "done" /\ call'[Kid(q, i)].ret = "ok"
               /\ call'[Kid(q, i)].at = "done" /\ call'[Kid(q, i)].ret = "error" =>
                    \E j \in 1..Len(errCh[q]) : errCh[q][j] = "error"
    BY <1>3 DEF Awaits, IsOK
  <2> QED
    BY <2>1, <2>2 DEF Awaits, IsOK, IsError
<1> QED
  BY <1>2, <1>3

\* When p returns, no call above it has more to wait for, nor less.
LEMMA EndsWait ==
  ASSUME CallTypes, CallTree, CallsWait, NEW p \in DOMAIN call, NEW result \in {"ok", "error"},
         Ends(p, result)
  PROVE  CallsWait'
<1>1. /\ DOMAIN call' = DOMAIN call /\ errCh' = errCh /\ InlineSpan \in Nat
      /\ call[p].at \notin {"send", "done"} /\ call'[p].at \in {"send", "done"}
      /\ p # <<>> /\ call[p].span > InlineSpan => call'[p].at = "send"
      /\ \A o \in DOMAIN call : /\ call'[o].child = call[o].child /\ call'[o].tasks = call[o].tasks
                                /\ call'[o].span = call[o].span /\ call[o].span \in Nat
                                /\ o # p => call'[o] = call[o]
  BY FetchAssumption DEF Ends, Moves, CallTypes, CallRecord
<1>2. ASSUME NEW q \in DOMAIN call, NEW i \in 1..(call[q].child - 1)
      PROVE  /\ call'[Kid(q, i)].span = call[Kid(q, i)].span
             /\ call[Kid(q, i)].span > InlineSpan =>
                  (call'[Kid(q, i)].at = "done" <=> call[Kid(q, i)].at = "done")
             /\ IsOK(Kid(q, i)) => call'[Kid(q, i)].at = "done" /\ call'[Kid(q, i)].ret = "ok"
             /\ call'[Kid(q, i)].at = "done" /\ call'[Kid(q, i)].ret = "error" =>
                  IsError(Kid(q, i)) \/ call[Kid(q, i)].span <= InlineSpan
  <2>1. Kid(q, i) \in DOMAIN call /\ Kid(q, i) # <<>>
    BY KidsOfMoved
  <2>2. CASE Kid(q, i) = p
    BY <1>1, <2>1, <2>2 DEF IsOK
  <2>3. CASE Kid(q, i) # p
    BY <1>1, <2>1, <2>3 DEF IsOK, IsError
  <2> QED
    BY <2>2, <2>3
<1>3. ASSUME NEW q \in DOMAIN call
      PROVE  (Counts(q) => Counts(q)') /\ (Awaits(q) => Awaits(q)')
  BY <1>1, <1>2, WaitsElsewhere
<1>4. \A q \in DOMAIN call : Open(q)' => Open(q)
  BY <1>1 DEF Open
<1>5. DOMAIN errCh \subseteq DOMAIN call
  BY DEF CallTypes
<1> QED
  BY <1>1, <1>3, <1>4, <1>5 DEF CallsWait

\* When p moves, no call that returned a success has one below it that is not over.
LEMMA NestedMoves ==
  ASSUME CallTypes, Nested, NEW p \in DOMAIN call, Moves(p),
         call'[p].ret = "ok" => \A i \in Nat : Kid(p, i) \in DOMAIN call => IsOK(Kid(p, i))
  PROVE  Nested'
<1>1. DOMAIN call' = DOMAIN call /\ ~IsOK(p) /\ \A q \in DOMAIN call : q # p => call'[q] = call[q]
  BY DEF Moves, IsOK
<1>2. ASSUME NEW q \in DOMAIN call, call'[q].ret = "ok", NEW i \in Nat, Kid(q, i) \in DOMAIN call
      PROVE  call'[Kid(q, i)].at = "done" /\ call'[Kid(q, i)].ret = "ok"
  <2>1. IsOK(Kid(q, i))
    <3>1. CASE q = p
      BY <1>2, <3>1
    <3>2. CASE q # p
      BY <1>1, <1>2, <3>2 DEF Nested
    <3> QED
      BY <3>1, <3>2
  <2> QED
    BY <1>1, <1>2, <2>1 DEF IsOK
<1> QED
  BY <1>1, <1>2 DEF Nested, IsOK

\* When p returns an error that has a cause, so have all errors.
LEMMA CauseEnds ==
  ASSUME Cause, NEW p \in DOMAIN call, NEW result \in {"ok", "error"},
         Ends(p, result), result = "error" => Blame
  PROVE  Cause'
<1>1. Blame' = Blame /\ DOMAIN call' = DOMAIN call /\ errCh' = errCh
  BY DEF Ends, Moves, bvars, Blame
<1>2. \A q \in DOMAIN call : call'[q].ret = "error" => Blame
  BY DEF Ends, Moves, Cause
<1> QED
  BY <1>1, <1>2 DEF Cause

\* When p moves and writes bytes of the file only, what was copied stays.
LEMMA OutMoves ==
  ASSUME CallTypes, OutRight, file \in Files, NEW p \in DOMAIN call, Moves(p),
         out' = [i \in 1..Len(file) |-> out'[i]],
         \A k \in 1..Len(file) : out'[k] \in {out[k], file[k]},
         call'[p].ret = "ok" => \A k \in (call[p].base + 1)..(call[p].base + call[p].span) :
                                  out'[k] = file[k]
  PROVE  OutRight'
<1>0. file' = file /\ Len(file) \in Nat /\ DOMAIN call' = DOMAIN call
  BY FileIsSeq DEF Moves, bvars
<1>1. ASSUME NEW q \in DOMAIN call, call'[q].ret = "ok",
             NEW k \in (call'[q].base + 1)..(call'[q].base + call'[q].span)
      PROVE  out'[k] = file[k]
  <2>1. CASE q = p
    BY <1>1, <2>1 DEF Moves
  <2>2. CASE q # p
    <3>1. /\ call'[q] = call[q] /\ call[q].ret = "ok" /\ CallSound(q)
          /\ call[q].base \in Nat /\ call[q].span \in Nat
      BY <1>1, <2>2 DEF Moves, CallTypes, CallRecord
    <3>2. out[k] = file[k]
      BY <1>1, <3>1 DEF OutRight, Copied
    <3>3. call[q].base + call[q].span <= Len(file)
      BY <3>1, HoldsSlice DEF CallSound
    <3>4. k \in 1..Len(file)
      BY <1>0, <3>1, <3>3
    <3> QED
      BY <3>2, <3>4
  <2> QED
    BY <2>1, <2>2
<1> QED
  BY <1>0, <1>1 DEF OutRight, Copied

\* The caller sees nothing of a call that moves and was not over.
LEMMA CallerMoves ==
  ASSUME CallTypes, CallerInv, NEW p \in DOMAIN call, Moves(p)
  PROVE  CallerInv'
<1>1. /\ UNCHANGED <<file, phase, store, ctxDone, fetch, target>> /\ DOMAIN call' = DOMAIN call
  BY DEF Moves, bvars
<1>2. <<>> \in DOMAIN call => /\ call'[<<>>].base = call[<<>>].base
                              /\ call'[<<>>].span = call[<<>>].span
  BY DEF Moves
<1>3. <<>> \in DOMAIN call /\ IsOK(<<>>) => IsOK(<<>>)'
  BY DEF Moves, IsOK
<1> QED
  BY <1>1, <1>2, <1>3 DEF CallerInv

\* A call that moves takes or frees its slot with the step that enters or leaves GetBlock.
LEMMA SlotsMove ==
  ASSUME CallTypes, Slots, NEW p \in DOMAIN call, Moves(p),
         \/ Place(p, "get") /\ call'[p].at # "get" /\ sem' = sem - 1
         \/ ~Place(p, "get") /\ call'[p].at = "get" /\ sem < Parallel /\ sem' = sem + 1
         \/ ~Place(p, "get") /\ call'[p].at # "get" /\ sem' = sem
  PROVE  Slots'
<1>0. /\ IsFiniteSet(Getting) /\ Cardinality(Getting) \in Nat /\ sem \in Nat /\ Parallel \in Nat
      /\ sem = Cardinality(Getting) /\ sem <= Parallel
  <2>1. IsFiniteSet(Getting)
    BY FS_Subset DEF Getting, CallTypes
  <2> QED
    BY <2>1, FS_CardinalityType, FetchAssumption DEF Slots
<1>1. DOMAIN call' = DOMAIN call /\ \A q \in DOMAIN call : q # p => call'[q] = call[q]
  BY DEF Moves
<1>2. CASE Place(p, "get") /\ call'[p].at # "get" /\ sem' = sem - 1
  <2>1. Getting' = Getting \ {p} /\ p \in Getting
    BY <1>1, <1>2 DEF Getting, Place
  <2>2. Cardinality(Getting \ {p}) = Cardinality(Getting) - 1
    BY <1>0, <2>1, FS_RemoveElement
  <2> QED
    BY <1>0, <1>2, <2>1, <2>2 DEF Slots
<1>3. CASE ~Place(p, "get") /\ call'[p].at = "get" /\ sem < Parallel /\ sem' = sem + 1
  <2>1. Getting' = Getting \cup {p} /\ p \notin Getting
    BY <1>1, <1>3 DEF Getting, Place
  <2>2. Cardinality(Getting \cup {p}) = Cardinality(Getting) + 1
    BY <1>0, <2>1, FS_AddElement
  <2> QED
    BY <1>0, <1>3, <2>1, <2>2 DEF Slots
<1>4. CASE ~Place(p, "get") /\ call'[p].at # "get" /\ sem' = sem
  <2>1. Getting' = Getting
    BY <1>1, <1>4 DEF Getting, Place
  <2> QED
    BY <1>0, <1>4, <2>1 DEF Slots
<1> QED
  BY <1>2, <1>3, <1>4

\* A call changes nothing of what the builder has put.
LEMMA MovesKeepBuild ==
  ASSUME BuildInv, NEW p \in DOMAIN call, Moves(p)
  PROVE  BuildInv'
<1>1. UNCHANGED bvars
  BY DEF Moves
<1> QED
  BY <1>1, BuildNext

\* The call p returns.
LEMMA EndsInv ==
  ASSUME Inv, NEW p \in DOMAIN call, NEW result \in {"ok", "error"}, Ends(p, result),
         result = "error" => Blame,
         result = "ok" => /\ \A i \in Nat : Kid(p, i) \in DOMAIN call => IsOK(Kid(p, i))
                          /\ \A k \in (call[p].base + 1)..(call[p].base + call[p].span) :
                               out'[k] = file[k],
         out' = [i \in 1..Len(file) |-> out'[i]],
         \A k \in 1..Len(file) : out'[k] \in {out[k], file[k]},
         IF Place(p, "get") THEN sem' = sem - 1 ELSE sem' = sem
  PROVE  Inv'
<1>1. /\ BuildInv /\ CallTypes /\ CallTree /\ CallsWait /\ Nested /\ Cause /\ OutRight
      /\ CallerInv /\ Slots /\ file \in Files
  BY DEF Inv, BuildInv
<1>2. /\ Moves(p) /\ errCh' = errCh /\ DOMAIN call' = DOMAIN call
      /\ call'[p].at = IF p = <<>> \/ call[p].span > InlineSpan THEN "send" ELSE "done"
      /\ call'[p].at \in {"send", "done"} /\ call'[p].ret = result
      /\ call'[p].child = call[p].child /\ call'[p].tasks = call[p].tasks
  BY DEF Ends, Moves
<1>3. BuildInv'
  BY <1>1, <1>2, MovesKeepBuild
<1>4. CallTypes'
  <2>2. errCh' \in [DOMAIN errCh' -> Seq({"ok", "error"})]
    BY <1>1, <1>2 DEF CallTypes
  <2>3. CallSound(p)'
    <3>1. CallSound(p) /\ file' = file
      BY <1>1, <1>2 DEF CallTypes, Moves, bvars
    <3> QED
      BY <1>2, <3>1 DEF Moves, CallSound, Place, Open
  <2>4. DOMAIN errCh \subseteq DOMAIN call
    BY <1>1 DEF CallTypes
  <2> QED
    BY <1>1, <1>2, <2>2, <2>3, <2>4, TypesMove
<1>5. CallTree'
  <2>1. call[p].child \in Nat /\ \A i \in 1..(call'[p].child - 1) : Kid(p, i) \in DOMAIN call
    BY <1>1, <1>2 DEF CallTypes, CallRecord, CallTree
  <2>2. call[p].child <= call'[p].child
    BY <1>2, <2>1
  <2> QED
    BY <1>1, <1>2, <2>1, <2>2, TreeMoves
<1>6. CallsWait'
  BY <1>1, EndsWait
<1>7. Nested'
  BY <1>1, <1>2, NestedMoves
<1>8. Cause'
  BY <1>1, CauseEnds
<1>9. OutRight'
  BY <1>1, <1>2, OutMoves
<1>10. CallerInv'
  BY <1>1, <1>2, CallerMoves
<1>11. Slots'
  BY <1>1, <1>2, SlotsMove
<1> QED
  BY <1>3, <1>4, <1>5, <1>6, <1>7, <1>8, <1>9, <1>10, <1>11 DEF Inv

\* The call p goes on.
LEMMA GoesOnInv ==
  ASSUME Inv, NEW p \in DOMAIN call, Moves(p),
         call'[p].at \notin {"send", "done"}, call'[p].ret = call[p].ret,
         call[p].child <= call'[p].child,
         \A i \in 1..(call'[p].child - 1) : Kid(p, i) \in DOMAIN call,
         \/ call[p].child < call'[p].child
         \/ Kid(p, call[p].child) \notin DOMAIN call,
         CallSound(p)', Open(p)' => Awaits(p)', p \in DOMAIN errCh' => Open(p)',
         DOMAIN errCh \subseteq DOMAIN errCh', DOMAIN errCh' \subseteq DOMAIN errCh \cup {p},
         errCh' \in [DOMAIN errCh' -> Seq({"ok", "error"})],
         \A q \in DOMAIN errCh : q # p => errCh'[q] = errCh[q],
         p \in DOMAIN errCh' => \A i \in 1..Len(errCh'[p]) : errCh'[p][i] = "error" => Blame,
         out' = out,
         \/ Place(p, "get") /\ call'[p].at # "get" /\ sem' = sem - 1
         \/ ~Place(p, "get") /\ call'[p].at = "get" /\ sem < Parallel /\ sem' = sem + 1
         \/ ~Place(p, "get") /\ call'[p].at # "get" /\ sem' = sem
  PROVE  Inv'
<1>1. /\ BuildInv /\ CallTypes /\ CallTree /\ CallsWait /\ Nested /\ Cause /\ OutRight
      /\ CallerInv /\ Slots /\ file \in Files
  BY DEF Inv, BuildInv
<1>2. /\ DOMAIN call' = DOMAIN call /\ call'[p].ret = "none" /\ DOMAIN errCh \subseteq DOMAIN call
      /\ \A q \in DOMAIN call : q # p => call'[q] = call[q]
  BY <1>1 DEF Moves, CallTypes, CallSound, Place
<1>3. BuildInv'
  BY <1>1, MovesKeepBuild
<1>4. CallTypes'
  BY <1>1, <1>2, TypesMove
<1>5. CallTree'
  BY <1>1, TreeMoves
<1>6. CallsWait'
  <2>1. ASSUME NEW q \in DOMAIN call, q # p, q \in DOMAIN errCh
        PROVE  (Counts(q) => Counts(q)') /\ (Awaits(q) => Awaits(q)')
    <3>1. call'[q] = call[q] /\ errCh'[q] = errCh[q]
      BY <1>2, <2>1
    <3>2. ASSUME NEW i \in 1..(call[q].child - 1)
          PROVE  /\ call'[Kid(q, i)].span = call[Kid(q, i)].span
                 /\ call'[Kid(q, i)].ret = call[Kid(q, i)].ret
                 /\ call'[Kid(q, i)].at = "done" <=> call[Kid(q, i)].at = "done"
      <4>1. Kid(q, i) \in DOMAIN call
        BY <1>1, KidsOfMoved
      <4>2. call'[p].at # "done" /\ call[p].at # "done" /\ call'[p].span = call[p].span
        BY DEF Moves
      <4> QED
        BY <1>2, <4>1, <4>2
    <3> QED
      BY <3>1, <3>2, WaitsElsewhere DEF IsOK, IsError
  <2>2. ASSUME NEW q \in DOMAIN call, Open(q)' PROVE Awaits(q)'
    <3>1. CASE q = p
      BY <2>2, <3>1
    <3>2. CASE q # p
      <4>1. Open(q) /\ CallSound(q)
        BY <1>1, <1>2, <2>2, <3>2 DEF Open, CallTypes
      <4>2. Awaits(q) /\ q \in DOMAIN errCh
        BY <1>1, <4>1 DEF CallsWait, CallSound
      <4> QED
        BY <2>1, <3>2, <4>2
    <3> QED
      BY <3>1, <3>2
  <2>3. ASSUME NEW q \in DOMAIN errCh' PROVE Counts(q)'
    <3>1. CASE q = p
      BY <2>3, <3>1 DEF Awaits, Counts
    <3>2. CASE q # p
      BY <1>1, <1>2, <2>1, <3>2 DEF CallsWait
    <3> QED
      BY <3>1, <3>2
  <2> QED
    BY <1>2, <2>2, <2>3 DEF CallsWait
<1>7. Nested'
  BY <1>1, <1>2, NestedMoves
<1>8. Cause'
  <2>1. Blame' = Blame
    BY DEF Moves, bvars, Blame
  <2>2. \A q \in DOMAIN call : call'[q].ret = "error" => Blame
    BY <1>1, <1>2 DEF Cause, IsError
  <2>3. ASSUME NEW q \in DOMAIN errCh', NEW i \in 1..Len(errCh'[q]), errCh'[q][i] = "error"
        PROVE  Blame
    <3>1. CASE q = p
      BY <2>3, <3>1
    <3>2. CASE q # p
      BY <1>1, <2>3, <3>2 DEF Cause
    <3> QED
      BY <3>1, <3>2
  <2> QED
    BY <1>2, <2>1, <2>2, <2>3 DEF Cause, IsError
<1>9. OutRight'
  <2>1. /\ out' = [i \in 1..Len(file) |-> out'[i]]
        /\ \A k \in 1..Len(file) : out'[k] \in {out[k], file[k]}
    BY <1>1 DEF OutRight
  <2> QED
    BY <1>1, <1>2, <2>1, OutMoves
<1>10. CallerInv'
  BY <1>1, CallerMoves
<1>11. Slots'
  BY <1>1, SlotsMove
<1> QED
  BY <1>3, <1>4, <1>5, <1>6, <1>7, <1>8, <1>9, <1>10, <1>11 DEF Inv

(***************************************************************************)
(* The node of a call: its children's slices, at the positions fetchRange  *)
(* computes for them, are slices of the file and cover that of the call.   *)
(***************************************************************************)
PartEnd(b, base, i) == base + SumTo(b.spans)[i - 1] + b.spans[i]

\* The children of a node, as fetchRange places them.
LEMMA NodeParts ==
  ASSUME BuildInv, NEW b \in store, b.type = "node", NEW x \in Nat, NEW y \in Nat,
         Holds(file, b, x, y)
  PROVE  /\ b.cids \in Seq(store) /\ b.spans \in Seq(Nat)
         /\ Len(b.spans) = Len(b.cids) /\ Len(b.cids) <= Fanout /\ b.size = y - x
         /\ \A i \in 1..Len(b.cids) :
              /\ SumTo(b.spans)[i - 1] \in Nat /\ b.spans[i] \in Nat /\ b.cids[i] \in store
              /\ Holds(file, b.cids[i], x + SumTo(b.spans)[i - 1], PartEnd(b, x, i))
         /\ \A k \in (x + 1)..y :
              \E i \in 1..Len(b.cids) : k \in (x + SumTo(b.spans)[i - 1] + 1)..PartEnd(b, x, i)
<1>2. /\ b.cids \in Seq(store) /\ b.spans \in Seq(Nat)
      /\ Len(b.spans) = Len(b.cids) /\ Len(b.cids) <= Fanout
  BY DEF BuildInv, StoreSound
<1>3. b.size = y - x /\ Tiles(file, Kids(b), x, y)
  BY <1>2, NodeHolds
<1>4. /\ Kids(b) \in Rows(store) /\ Len(Kids(b)) = Len(b.cids)
      /\ \A i \in 1..Len(b.cids) : Kids(b)[i].cid = b.cids[i] /\ Kids(b)[i].span = b.spans[i]
  <2>1. \A i \in 1..Len(b.cids) : b.cids[i] \in store /\ b.spans[i] \in Nat
    BY <1>2
  <2>2. Kids(b) = [i \in 1..Len(b.cids) |-> Pair(b.cids[i], b.spans[i])]
    BY <1>2 DEF Kids
  <2>3. \A i \in 1..Len(b.cids) : Pair(b.cids[i], b.spans[i]) \in [cid : store, span : Nat]
    BY <2>1 DEF Pair
  <2>4. Kids(b) \in Seq([cid : store, span : Nat])
    <3> DEFINE T == [cid : store, span : Nat]
    <3>1. \A i \in 1..Len(b.cids) : Pair(b.cids[i], b.spans[i]) \in T
      BY <2>3
    <3> HIDE DEF T
    <3>2. Kids(b) \in Seq(T)
      BY <1>2, <2>2, <3>1
    <3> QED
      BY <3>2 DEF T
  <2> QED
    BY <1>2, <2>2, <2>4 DEF Rows, Pair
<1>5. PICK st : /\ Adjoining(st, Kids(b), x, y)
                /\ \A i \in 1..Len(b.cids) : Holds(file, b.cids[i], st[i - 1], st[i])
  BY <1>3, <1>4 DEF Tiles
<1>6. /\ st \in [0..Len(b.spans) -> Nat] /\ st[0] = x
      /\ \A i \in 1..Len(b.spans) : st[i] = st[i - 1] + b.spans[i]
  BY <1>2, <1>4, <1>5 DEF Adjoining
<1>7. \A i \in 0..Len(b.spans) : x + SumTo(b.spans)[i] = st[i] /\ SumTo(b.spans)[i] \in Nat
  BY <1>2, <1>6, PositionsAreSums
<1>8. ASSUME NEW i \in 1..Len(b.cids)
      PROVE  /\ x + SumTo(b.spans)[i - 1] = st[i - 1] /\ PartEnd(b, x, i) = st[i]
             /\ SumTo(b.spans)[i - 1] \in Nat /\ b.spans[i] \in Nat
  <2>1. i - 1 \in 0..Len(b.spans) /\ i \in 1..Len(b.spans) /\ b.spans[i] \in Nat
    BY <1>2
  <2> QED
    BY <1>6, <1>7, <2>1 DEF PartEnd
<1>9. \A k \in (x + 1)..y : \E i \in 1..Len(b.cids) : k \in (st[i - 1] + 1)..st[i]
  <2> DEFINE row == Kids(b)
  <2>1. row \in Rows(store) /\ Len(row) = Len(b.cids) /\ Adjoining(st, row, x, y)
    BY <1>4, <1>5
  <2> HIDE DEF row
  <2>2. \A k \in (x + 1)..y : \E i \in 1..Len(row) : k \in (st[i - 1] + 1)..st[i]
    <3>1. row \in Rows(store) /\ Adjoining(st, row, x, y) /\ x \in Nat /\ y \in Nat
      BY <2>1
    <3>2. x <= y /\ \A k \in (x + 1)..y : \E i \in 1..Len(row) : k \in (st[i - 1] + 1)..st[i]
      BY <3>1, PositionsAdvance
    <3> QED
      BY <3>2
  <2> QED
    BY <2>1, <2>2
<1>10. ASSUME NEW k \in (x + 1)..y
       PROVE  \E i \in 1..Len(b.cids) : k \in (x + SumTo(b.spans)[i - 1] + 1)..PartEnd(b, x, i)
  <2>1. PICK i \in 1..Len(b.cids) : k \in (st[i - 1] + 1)..st[i]
    BY <1>9
  <2>2. x + SumTo(b.spans)[i - 1] = st[i - 1] /\ PartEnd(b, x, i) = st[i]
    BY <1>8
  <2> QED
    BY <2>1, <2>2
<1>11. ASSUME NEW i \in 1..Len(b.cids)
       PROVE  /\ SumTo(b.spans)[i - 1] \in Nat /\ b.spans[i] \in Nat /\ b.cids[i] \in store
              /\ Holds(file, b.cids[i], x + SumTo(b.spans)[i - 1], PartEnd(b, x, i))
  <2>1. b.cids[i] \in store
    BY <1>2
  <2>2. Holds(file, b.cids[i], st[i - 1], st[i])
    BY <1>5
  <2>3. x + SumTo(b.spans)[i - 1] = st[i - 1] /\ PartEnd(b, x, i) = st[i]
    BY <1>8
  <2> QED
    BY <1>8, <2>1, <2>2, <2>3
<1> QED
  BY <1>2, <1>3, <1>10, <1>11

\* What a call in progress may rely on.
LEMMA InvFacts ==
  ASSUME Inv, NEW p \in DOMAIN call
  PROVE  /\ BuildInv /\ CallTypes /\ CallTree /\ CallSound(p) /\ file \in Files /\ Len(file) \in Nat
         /\ call[p] \in CallRecord(store) /\ p \in Seq(Nat)
         /\ call[p].cid \in store /\ call[p].base \in Nat /\ call[p].span \in Nat
         /\ call[p].child \in Nat /\ call[p].tasks \in Nat
         /\ call[p].at \notin {"send", "done"} => call[p].ret = "none"
         /\ out = [i \in 1..Len(file) |-> out[i]]
         /\ call[p].base + call[p].span <= Len(file)
<1>1. /\ BuildInv /\ CallTypes /\ CallTree /\ CallSound(p) /\ file \in Files /\ Len(file) \in Nat
      /\ out = [i \in 1..Len(file) |-> out[i]] /\ call[p] \in CallRecord(store) /\ p \in Seq(Nat)
  BY FileIsSeq DEF Inv, BuildInv, CallTypes, OutRight
<1>2. call[p].at \notin {"send", "done"} => call[p].ret = "none"
  BY <1>1 DEF CallSound
<1>3. call[p].base + call[p].span <= Len(file)
  BY <1>1, HoldsSlice DEF CallSound
<1> QED
  BY <1>1, <1>2, <1>3 DEF CallRecord

\* A step that leaves the buffer alone writes nothing but bytes of the file.
LEMMA KeptOut ==
  ASSUME Inv, NEW p \in DOMAIN call, out' = out
  PROVE  /\ out' = [i \in 1..Len(file) |-> out'[i]]
         /\ \A k \in 1..Len(file) : out'[k] \in {out[k], file[k]}
BY InvFacts

\* A call gives up waiting for a slot.
LEMMA AcquireCancelledInv ==
  ASSUME Inv, NEW p \in DOMAIN call, AcquireCancelled(p)
  PROVE  Inv'
<1>1. Ends(p, "error")
  BY InvFacts, ReturnEnds DEF AcquireCancelled, Place
<1> QED
  BY <1>1, KeptOut, EndsInv DEF AcquireCancelled, Place, Blame

\* A block that cannot be read is lost, for every block asked for was put.
LEMMA GetFailsInv ==
  ASSUME Inv, NEW p \in DOMAIN call, GetFails(p)
  PROVE  Inv'
<1>1. Ends(p, "error")
  BY InvFacts, ReturnEnds DEF GetFails, Place
<1>2. Blame
  BY InvFacts DEF GetFails, Blame
<1> QED
  BY <1>1, <1>2, KeptOut, EndsInv DEF GetFails, Place

\* The payload of a leaf is the slice it is copied to.
LEMMA GetLeafInv ==
  ASSUME Inv, NEW p \in DOMAIN call, GetLeaf(p)
  PROVE  Inv'
<1>1. Ends(p, "ok")
  BY InvFacts, ReturnEnds DEF GetLeaf, Place
<1> DEFINE x == call[p].base
           n == call[p].span
           bytes == call[p].cid.payload
<1>2. /\ x \in Nat /\ n \in Nat /\ x + n <= Len(file) /\ Len(file) \in Nat /\ file \in Seq(Nat)
      /\ DOMAIN out = 1..Len(file)
  BY InvFacts, FileIsSeq
<1>3. \A k \in (x + 1)..(x + n) : bytes[k - x] = file[k]
  <2>1. bytes = SubSeq(file, x + 1, x + n)
    <3>1. Holds(file, call[p].cid, x, x + n) /\ call[p].cid.type = "data"
      BY InvFacts DEF GetLeaf, CallSound
    <3> HIDE DEF x, n
    <3> QED
      BY <3>1, HoldsSlice
  <2>2. x \in 0..Len(file) /\ x + n \in x..Len(file) /\ (x + n) - x = n
    BY <1>2
  <2> HIDE DEF bytes, x, n
  <2>3. \A i \in 1..((x + n) - x) : bytes[i] = file[x + i]
    BY <1>2, <2>1, <2>2, SliceMembers
  <2>4. ASSUME NEW k \in (x + 1)..(x + n) PROVE k - x \in 1..((x + n) - x) /\ x + (k - x) = k
    BY <1>2
  <2> QED
    BY <2>3, <2>4
<1>4. out' = [i \in 1..Len(file) |-> IF i \in (x + 1)..(x + n) THEN bytes[i - x] ELSE out[i]]
  BY <1>2 DEF GetLeaf
<1>5. \A k \in (x + 1)..(x + n) : k \in 1..Len(file)
  BY <1>2
<1> HIDE DEF bytes, x, n
<1>6. /\ out' = [i \in 1..Len(file) |-> out'[i]]
      /\ \A k \in 1..Len(file) : out'[k] \in {out[k], file[k]}
      /\ \A k \in (x + 1)..(x + n) : out'[k] = file[k]
  BY <1>3, <1>4, <1>5
<1>7. \A i \in Nat : Kid(p, i) \notin DOMAIN call
  BY InvFacts DEF GetLeaf, CallTree, KidSound
<1>8. Place(p, "get") /\ sem' = sem - 1
  BY DEF GetLeaf
<1> QED
  BY <1>1, <1>6, <1>7, <1>8, EndsInv DEF x, n

\* With no busy child and an empty channel, every child has returned its slice.
LEMMA AllCollectedInv ==
  ASSUME Inv, NEW p \in DOMAIN call, AllCollected(p)
  PROVE  Inv'
<1> DEFINE b == call[p].cid
<1>0. /\ BuildInv /\ CallTypes /\ CallTree /\ CallSound(p) /\ Awaits(p) /\ CallsWait /\ Open(p)
      /\ p \in Seq(Nat) /\ call[p].child \in Nat /\ call[p].tasks = 0 /\ b.type = "node"
      /\ errCh[p] \in Seq({"ok", "error"}) /\ call[p].child = Len(b.cids) + 1 /\ Len(b.cids) \in Nat
  <2>1. BuildInv /\ CallTypes /\ CallTree /\ CallSound(p) /\ p \in Seq(Nat) /\ call[p].child \in Nat
    BY InvFacts
  <2>2. Open(p) /\ call[p].tasks = 0
    BY DEF AllCollected, Place, Open
  <2>3. p \in DOMAIN errCh /\ b.type = "node" /\ call[p].child <= Len(b.cids) + 1
    BY <2>1, <2>2 DEF CallSound
  <2>4. b.cids \in Seq(store)
    BY <2>1, <2>3, InvFacts DEF BuildInv, StoreSound
  <2>5. call[p].child > Len(b.cids) /\ Len(b.cids) \in Nat
    BY <2>4 DEF AllCollected
  <2> QED
    BY <2>1, <2>2, <2>3, <2>5 DEF Inv, CallsWait, CallTypes
<1>1. Ends(p, "ok")
  BY InvFacts, ReturnEnds DEF AllCollected, Place
<1>2. Busy(p) = {} /\ Len(errCh[p]) = 0
  <2>1. IsFiniteSet(1..(call[p].child - 1))
    <3>1. 1 \in Int /\ call[p].child - 1 \in Int
      BY <1>0
    <3> QED
      BY <3>1, FS_Interval
  <2>2. IsFiniteSet(Busy(p))
    BY <2>1, FS_Subset DEF Busy
  <2>3. Cardinality(Busy(p)) \in Nat /\ Len(errCh[p]) \in Nat
    BY <1>0, <2>2, FS_CardinalityType
  <2>4. Cardinality(Busy(p)) = 0 /\ Len(errCh[p]) = 0
    BY <1>0, <2>3 DEF Awaits
  <2> QED
    BY <2>2, <2>4, FS_EmptySet
<1>3. ASSUME NEW i \in 1..Len(b.cids) PROVE Kid(p, i) \in DOMAIN call /\ IsOK(Kid(p, i))
  <2>1. i \in 1..(call[p].child - 1)
    BY <1>0
  <2>2. Kid(p, i) \in DOMAIN call
    BY <1>0, <2>1 DEF CallTree
  <2>3. /\ CallSound(Kid(p, i)) /\ call[Kid(p, i)].span \in Nat
        /\ call[Kid(p, i)].ret \in {"none", "ok", "error"}
    BY <1>0, <2>2 DEF CallTypes, CallRecord
  <2>4. CASE call[Kid(p, i)].span <= InlineSpan
    BY <1>0, <2>1, <2>2, <2>4 DEF Awaits
  <2>5. CASE call[Kid(p, i)].span > InlineSpan
    <3>1. Place(Kid(p, i), "done")
      BY <1>2, <2>1, <2>5 DEF Busy
    <3>2. ~IsError(Kid(p, i))
      BY <1>0, <1>2, <2>1 DEF Awaits
    <3> QED
      BY <2>2, <2>3, <3>1, <3>2 DEF CallSound, Place, IsOK, IsError
  <2> QED
    BY <2>3, <2>4, <2>5, FetchAssumption
<1>4. \A i \in Nat : Kid(p, i) \in DOMAIN call => IsOK(Kid(p, i))
  BY <1>0, <1>3 DEF CallTree, KidSound
<1>5. ASSUME NEW k \in (call[p].base + 1)..(call[p].base + call[p].span) PROVE out[k] = file[k]
  <2> DEFINE x == call[p].base
             u(i) == x + SumTo(b.spans)[i - 1]
             y == x + call[p].span
  <2>0. b \in store /\ b.type = "node" /\ x \in Nat /\ y \in Nat /\ Holds(file, b, x, y)
    BY <1>0, InvFacts DEF CallSound
  <2>1. PICK i \in 1..Len(b.cids) : k \in (u(i) + 1)..PartEnd(b, x, i)
    <3>1. k \in (x + 1)..y
      OBVIOUS
    <3> HIDE DEF b, x, y
    <3> QED
      BY <1>0, <2>0, <3>1, NodeParts
  <2>2. Kid(p, i) \in DOMAIN call /\ IsOK(Kid(p, i)) /\ KidSound(p, i)
    BY <1>0, <1>3 DEF CallTree
  <2>3. /\ call[Kid(p, i)].base = u(i)
        /\ call[Kid(p, i)].base + call[Kid(p, i)].span = PartEnd(b, x, i)
    BY <2>2 DEF KidSound, PartEnd
  <2>4. Copied(Kid(p, i))
    BY <2>2 DEF Inv, OutRight, IsOK
  <2> HIDE DEF u, x
  <2> QED
    BY <2>1, <2>3, <2>4 DEF Copied
<1>6. out' = out /\ sem' = sem /\ ~Place(p, "get")
  BY DEF AllCollected, Place
<1> QED
  BY <1>1, <1>4, <1>5, <1>6, KeptOut, EndsInv

\* The next child has no call yet, and those before it have.
LEMMA NoKidYet ==
  ASSUME Inv, NEW p \in DOMAIN call, call[p].at \in {"acquire", "get", "loop"}
  PROVE  /\ Kid(p, call[p].child) \notin DOMAIN call
         /\ \A i \in 1..(call[p].child - 1) : Kid(p, i) \in DOMAIN call
<1>1. CallTree /\ call[p].child \in Nat
  BY InvFacts
<1>2. ~(call[p].child < call[p].child)
  BY <1>1
<1> QED
  BY <1>1, <1>2 DEF CallTree, KidSound

\* What the channels hold.
LEMMA ChannelsSound ==
  ASSUME Inv
  PROVE  /\ DOMAIN errCh \subseteq DOMAIN call
         /\ errCh \in [DOMAIN errCh -> Seq({"ok", "error"})]
         /\ \A q \in DOMAIN errCh : \A i \in 1..Len(errCh[q]) : errCh[q][i] = "error" => Blame
BY DEF Inv, CallTypes, Cause

\* A call takes a slot.
LEMMA AcquireInv ==
  ASSUME Inv, NEW p \in DOMAIN call, Acquire(p)
  PROVE  Inv'
<1> DEFINE r == [call[p] EXCEPT !.at = "get"]
<1>1. /\ r \in CallRecord(store) /\ r.at = "get" /\ r.ret = call[p].ret
      /\ r.cid = call[p].cid /\ r.base = call[p].base /\ r.span = call[p].span
      /\ r.child = call[p].child /\ r.tasks = call[p].tasks
  BY InvFacts DEF CallRecord
<1>2. /\ call' = [call EXCEPT ![p] = r] /\ call[p].at = "acquire" /\ sem < Parallel
      /\ sem' = sem + 1 /\ out' = out /\ errCh' = errCh /\ CallUnchanged
  BY DEF Acquire, Place
<1> HIDE DEF r
<1>3. Moves(p) /\ call'[p] = r
  BY <1>1, <1>2, UpdateMoves, InvFacts
<1>4. call[p].child <= call'[p].child /\ call'[p].child = call[p].child
  BY <1>1, <1>3, InvFacts
<1>5. CallSound(p)' /\ ~Open(p)' /\ p \notin DOMAIN errCh' /\ call'[p].at \notin {"send", "done"}
  <2>1. CallSound(p) /\ file' = file
    BY <1>3, InvFacts DEF Moves, bvars
  <2> QED
    BY <1>1, <1>2, <1>3, <2>1 DEF CallSound, Open, Place
<1>6. ~Place(p, "get") /\ call'[p].at = "get"
  BY <1>1, <1>2, <1>3 DEF Place
<1> QED
  BY <1>1, <1>2, <1>3, <1>4, <1>5, <1>6, NoKidYet, ChannelsSound, GoesOnInv

\* A node has the size that is asked for, and none of its children is busy.
LEMMA GetNodeInv ==
  ASSUME Inv, NEW p \in DOMAIN call, GetNode(p)
  PROVE  Inv'
<1> DEFINE b == call[p].cid
           r == [call[p] EXCEPT !.at = "loop"]
<1>0. /\ BuildInv /\ CallSound(p) /\ b \in store /\ b.type = "node" /\ call[p].at = "get"
      /\ call[p].base \in Nat /\ call[p].span \in Nat /\ Fanout \in Nat
      /\ call[p].child = 1 /\ call[p].tasks = 0
  <2>1. CallSound(p) /\ call[p].at = "get" /\ call[p].tasks \in Nat
    BY InvFacts DEF GetNode, Place
  <2>2. call[p].child = 1 /\ call[p].tasks = 0
    BY <2>1 DEF CallSound
  <2> QED
    BY <2>1, <2>2, InvFacts, BuilderAssumption DEF GetNode
<1>1. b.size = call[p].span /\ Len(b.cids) \in Nat
  <2> DEFINE x == call[p].base
             y == call[p].base + call[p].span
  <2>1. x \in Nat /\ y \in Nat /\ y - x = call[p].span /\ Holds(file, b, x, y)
    BY <1>0 DEF CallSound
  <2> HIDE DEF b, x, y
  <2> QED
    BY <1>0, <2>1, NodeParts
<1>2. /\ r \in CallRecord(store) /\ r.at = "loop" /\ r.ret = call[p].ret
      /\ r.cid = call[p].cid /\ r.base = call[p].base /\ r.span = call[p].span
      /\ r.child = call[p].child /\ r.tasks = call[p].tasks
  BY InvFacts DEF CallRecord
<1>3. /\ call' = [call EXCEPT ![p] = r] /\ errCh' = With(errCh, p, <<>>)
      /\ sem' = sem - 1 /\ out' = out /\ CallUnchanged
  BY <1>1 DEF GetNode
<1> HIDE DEF r
<1>4. Moves(p) /\ call'[p] = r
  BY <1>0, <1>2, <1>3, UpdateMoves, InvFacts
<1>5. call[p].child <= call'[p].child /\ call'[p].child = call[p].child
  BY <1>2, <1>4, InvFacts
<1>6. /\ DOMAIN errCh' = DOMAIN errCh \cup {p} /\ errCh'[p] = <<>>
      /\ \A q \in DOMAIN errCh : q # p => errCh'[q] = errCh[q]
      /\ errCh' \in [DOMAIN errCh' -> Seq({"ok", "error"})]
  <2>1. errCh \in [DOMAIN errCh -> Seq({"ok", "error"})] /\ <<>> \in Seq({"ok", "error"})
    BY ChannelsSound
  <2> QED
    BY <1>3, <2>1 DEF With
<1>7. CallSound(p)'
  <2>1. file' = file
    BY <1>4 DEF Moves, bvars
  <2> QED
    BY <1>0, <1>1, <1>2, <1>4, <1>6, <2>1, InvFacts DEF CallSound, Open, Place
<1>8. Awaits(p)'
  <2>1. 1..(1 - 1) = {} /\ Len(<<>>) = 0
    OBVIOUS
  <2>2. Busy(p)' = {}
    BY <1>0, <1>5, <2>1 DEF Busy
  <2>3. Cardinality({}) = 0
    BY FS_EmptySet
  <2> QED
    BY <1>0, <1>2, <1>4, <1>5, <1>6, <2>1, <2>2, <2>3 DEF Awaits
<1>9. Place(p, "get") /\ call'[p].at = "loop" /\ call'[p].at \notin {"send", "done"} /\ Open(p)'
  BY <1>0, <1>2, <1>4 DEF Place, Open
<1>10. \A i \in 1..Len(errCh'[p]) : errCh'[p][i] = "error" => Blame
  BY <1>6
<1> QED
  BY <1>0, <1>2, <1>3, <1>4, <1>5, <1>6, <1>7, <1>8, <1>9, <1>10, NoKidYet, GoesOnInv

\* One result is taken from the channel, an error ends the call.
LEMMA CollectInv ==
  ASSUME Inv, NEW p \in DOMAIN call, Collect(p)
  PROVE  Inv'
<1> DEFINE r == [call[p] EXCEPT !.tasks = @ - 1]
           s == errCh[p]
<1>0. /\ CallSound(p) /\ Awaits(p) /\ call[p].at = "loop" /\ p \in DOMAIN errCh /\ CallTypes
      /\ s \in Seq({"ok", "error"}) /\ s # <<>> /\ Len(s) \in Nat \ {0}
      /\ call[p].tasks \in Nat \ {0} /\ call[p].child \in Nat /\ Fanout \in Nat
      /\ out' = out /\ sem' = sem /\ CallUnchanged
  <2>1. CallSound(p) /\ CallTypes /\ call[p].tasks \in Nat /\ call[p].child \in Nat
    BY InvFacts
  <2>2. /\ call[p].at = "loop" /\ call[p].tasks > 0 /\ s # <<>>
        /\ out' = out /\ sem' = sem /\ CallUnchanged
    BY DEF Collect, Receiving, Place
  <2>3. Open(p) /\ p \in DOMAIN errCh
    BY <2>1, <2>2 DEF Open, CallSound
  <2>4. s \in Seq({"ok", "error"}) /\ Awaits(p)
    BY <2>1, <2>3 DEF CallTypes, Inv, CallsWait
  <2> QED
    BY <2>1, <2>2, <2>3, <2>4, EmptySeq, BuilderAssumption
<1>1. /\ Head(s) = s[1] /\ Head(s) \in {"ok", "error"} /\ Tail(s) \in Seq({"ok", "error"})
      /\ Len(Tail(s)) = Len(s) - 1 /\ \A i \in 1..Len(Tail(s)) : Tail(s)[i] = s[i + 1]
  BY <1>0, HeadTailProperties
<1>2. CASE Head(s) # "ok"
  <2>1. Return(p, "error") /\ s[1] = "error" /\ 1 \in 1..Len(s)
    BY <1>0, <1>1, <1>2 DEF Collect
  <2>2. Ends(p, "error")
    BY <1>0, <2>1, ReturnEnds
  <2>3. Blame
    BY <1>0, <2>1, ChannelsSound
  <2>4. ~Place(p, "get")
    BY <1>0 DEF Place
  <2> QED
    BY <1>0, <2>2, <2>3, <2>4, KeptOut, EndsInv
<1>3. CASE Head(s) = "ok"
  <2>1. /\ r \in CallRecord(store) /\ r.at = "loop" /\ r.ret = call[p].ret
        /\ r.cid = call[p].cid /\ r.base = call[p].base /\ r.span = call[p].span
        /\ r.child = call[p].child /\ r.tasks = call[p].tasks - 1
    <3>1. call[p] \in CallRecord(store) /\ call[p].tasks - 1 \in Nat /\ call[p].at = "loop"
      BY <1>0, InvFacts
    <3> QED
      BY <3>1 DEF CallRecord
  <2>2. call' = [call EXCEPT ![p] = r] /\ errCh' = [errCh EXCEPT ![p] = Tail(s)]
    BY <1>3 DEF Collect
  <2> HIDE DEF r, s
  <2>3. Moves(p) /\ call'[p] = r
    BY <1>0, <2>1, <2>2, UpdateMoves
  <2>4. call[p].child <= call'[p].child /\ call'[p].child = call[p].child
    BY <1>0, <2>1, <2>3
  <2>5. /\ DOMAIN errCh' = DOMAIN errCh /\ errCh'[p] = Tail(s)
        /\ \A q \in DOMAIN errCh : q # p => errCh'[q] = errCh[q]
        /\ errCh' \in [DOMAIN errCh' -> Seq({"ok", "error"})]
    BY <1>0, <1>1, <2>2, ChannelsSound
  <2>6. CallSound(p)'
    <3>1. file' = file
      BY <2>3 DEF Moves, bvars
    <3> QED
      BY <1>0, <2>1, <2>3, <2>5, <3>1 DEF CallSound, Open, Place
  <2>7. Awaits(p)'
    <3>1. \A i \in 1..(call[p].child - 1) : call'[Kid(p, i)].span = call[Kid(p, i)].span
            /\ call'[Kid(p, i)].at = call[Kid(p, i)].at
            /\ call'[Kid(p, i)].ret = call[Kid(p, i)].ret
      <4> SUFFICES ASSUME NEW i \in 1..(call[p].child - 1) PROVE call'[Kid(p, i)] = call[Kid(p, i)]
        OBVIOUS
      <4>1. Kid(p, i) \in DOMAIN call
        BY <1>0, NoKidYet
      <4>2. Kid(p, i) # p
        <5>1. i \in Nat /\ p \in Seq(Nat)
          BY <1>0, InvFacts
        <5> QED
          BY <5>1, KidFacts
      <4> QED
        BY <2>3, <4>1, <4>2 DEF Moves
    <3>2. Busy(p)' = Busy(p)
      BY <2>4, <3>1 DEF Busy, Place
    <3>3. Cardinality(Busy(p)) \in Nat
      <4>1. 1 \in Int /\ call[p].child - 1 \in Int
        BY <1>0
      <4>2. IsFiniteSet(1..(call[p].child - 1))
        BY <4>1, FS_Interval
      <4> QED
        BY <4>2, FS_Subset, FS_CardinalityType DEF Busy
    <3>4. call'[p].tasks = Cardinality(Busy(p)') + Len(errCh'[p])
      BY <1>0, <1>1, <2>1, <2>3, <2>5, <3>2, <3>3 DEF Awaits, s
    <3>5. ASSUME NEW j \in 1..Len(s), s[j] = "error"
          PROVE  \E k \in 1..Len(errCh'[p]) : errCh'[p][k] = "error"
      <4>1. j # 1 /\ j - 1 \in 1..Len(Tail(s)) /\ (j - 1) + 1 = j
        BY <1>0, <1>1, <1>3, <3>5
      <4> QED
        BY <1>1, <2>5, <3>5, <4>1
    <3> QED
      BY <1>0, <2>4, <3>1, <3>4, <3>5 DEF Awaits, IsOK, IsError, s
  <2>8. /\ ~Place(p, "get") /\ call'[p].at = "loop"
        /\ call'[p].at \notin {"send", "done"} /\ Open(p)'
    BY <1>0, <2>1, <2>3 DEF Place, Open
  <2>9. ASSUME NEW i \in 1..Len(errCh'[p]), errCh'[p][i] = "error" PROVE Blame
    <3>1. i + 1 \in 1..Len(s) /\ s[i + 1] = "error"
      BY <1>0, <1>1, <2>5, <2>9
    <3> QED
      BY <1>0, <3>1, ChannelsSound DEF s
  <2>10. \/ call[p].child < call'[p].child \/ Kid(p, call[p].child) \notin DOMAIN call
    BY <1>0, NoKidYet
  <2>11. \A i \in 1..(call'[p].child - 1) : Kid(p, i) \in DOMAIN call
    BY <1>0, <2>4, NoKidYet
  <2> QED
    BY <1>0, <2>1, <2>3, <2>4, <2>5, <2>6, <2>7, <2>8, <2>9, <2>10, <2>11, GoesOnInv
<1> QED
  BY <1>2, <1>3

\* A child in the same goroutine returns, an error ends the call.
LEMMA InlineReturnsInv ==
  ASSUME Inv, NEW p \in DOMAIN call, InlineReturns(p)
  PROVE  Inv'
<1> DEFINE n == call[p].child
           q == Kid(p, n)
           r == [call[p] EXCEPT !.at = "loop", !.child = @ + 1]
<1>0. /\ CallSound(p) /\ Awaits(p) /\ call[p].at = "inline" /\ p \in DOMAIN errCh
      /\ CallTypes /\ CallTree /\ p \in Seq(Nat) /\ n \in Nat
      /\ call[p].tasks \in Nat /\ call[p].tasks < n /\ n \in 1..n
      /\ n <= Len(call[p].cid.cids) /\ call[p].cid.cids \in Seq(store)
      /\ q \in DOMAIN call /\ call[q].at = "done" /\ call[q].ret \in {"none", "ok", "error"}
      /\ out' = out /\ sem' = sem /\ CallUnchanged
  <2>1. /\ CallSound(p) /\ CallTypes /\ CallTree /\ call[p].tasks \in Nat /\ n \in Nat
        /\ p \in Seq(Nat)
        /\ BuildInv /\ call[p].cid \in store
    BY InvFacts
  <2>2. call[p].at = "inline" /\ call[q].at = "done" /\ out' = out /\ sem' = sem /\ CallUnchanged
    BY DEF InlineReturns, Place, Kid
  <2>3. Open(p) /\ p \in DOMAIN errCh /\ n <= Len(call[p].cid.cids) /\ q \in DOMAIN call
        /\ call[p].cid.type = "node"
    BY <2>1, <2>2 DEF Open, CallSound, Place
  <2>4. Awaits(p) /\ call[p].cid.cids \in Seq(store) /\ call[q].ret \in {"none", "ok", "error"}
    BY <2>1, <2>3 DEF CallTypes, CallRecord, Inv, CallsWait, BuildInv, StoreSound
  <2>5. call[p].tasks < n
    BY <2>1 DEF CallSound
  <2> QED
    BY <2>1, <2>2, <2>3, <2>4, <2>5
<1>1. CallSound(q) /\ KidSound(p, n) /\ call[q].span <= InlineSpan /\ call[q].span \in Nat
  BY <1>0 DEF CallTypes, CallRecord, CallTree, KidSound, CallSound, Place
<1>2. CASE call[q].ret # "ok"
  <2>1. Return(p, "error")
    BY <1>2 DEF InlineReturns, Kid
  <2>2. Ends(p, "error")
    BY <1>0, <2>1, ReturnEnds
  <2>3. Blame
    <3>1. call[q].ret = "error"
      BY <1>0, <1>1, <1>2 DEF CallSound, Place
    <3> QED
      BY <1>0, <3>1 DEF Inv, Cause, IsError
  <2>4. ~Place(p, "get")
    BY <1>0 DEF Place
  <2> QED
    BY <1>0, <2>2, <2>3, <2>4, KeptOut, EndsInv
<1>3. CASE call[q].ret = "ok"
  <2>1. /\ r \in CallRecord(store) /\ r.at = "loop" /\ r.ret = call[p].ret
        /\ r.cid = call[p].cid /\ r.base = call[p].base /\ r.span = call[p].span
        /\ r.child = n + 1 /\ r.tasks = call[p].tasks
    <3>1. call[p] \in CallRecord(store) /\ call[p].child + 1 \in Nat
      BY <1>0, InvFacts
    <3> QED
      BY <3>1 DEF CallRecord
  <2>2. call' = [call EXCEPT ![p] = r] /\ errCh' = errCh
    BY <1>3 DEF InlineReturns, Kid
  <2> HIDE DEF r, q
  <2>3. Moves(p) /\ call'[p] = r
    BY <1>0, <2>1, <2>2, UpdateMoves
  <2>4. call'[p].child = n + 1 /\ n < call'[p].child /\ n <= call'[p].child
    BY <1>0, <2>1, <2>3
  <2>5. CallSound(p)'
    <3>1. file' = file
      BY <2>3 DEF Moves, bvars
    <3>2. /\ Len(call[p].cid.cids) \in Nat
          /\ n + 1 <= Len(call[p].cid.cids) + 1 /\ call[p].tasks < n + 1
      BY <1>0
    <3>3. call[p].cid.type = "node" /\ call[p].tasks <= Fanout /\ call[p].ret = "none"
          /\ Holds(file, call[p].cid, call[p].base, call[p].base + call[p].span)
      BY <1>0 DEF CallSound, Open, Place
    <3>4. call'[p].at = "loop" /\ call'[p].ret = "none" /\ call'[p].tasks = call[p].tasks
          /\ call'[p].child = n + 1 /\ call'[p].cid = call[p].cid /\ call'[p].base = call[p].base
          /\ call'[p].span = call[p].span
      BY <2>1, <2>3, <3>3
    <3> HIDE DEF n
    <3> QED
      BY <1>0, <2>2, <3>1, <3>2, <3>3, <3>4 DEF CallSound, Open, Place
  <2>6. \A i \in 1..n : Kid(p, i) \in DOMAIN call
    <3> SUFFICES ASSUME NEW i \in 1..n PROVE Kid(p, i) \in DOMAIN call
      OBVIOUS
    <3>1. i = n \/ i \in 1..(n - 1)
      BY <1>0
    <3> QED
      BY <1>0, <3>1 DEF CallTree, q
  <2>7. \A i \in 1..n : call'[Kid(p, i)] = call[Kid(p, i)]
    <3> SUFFICES ASSUME NEW i \in 1..n PROVE call'[Kid(p, i)] = call[Kid(p, i)]
      OBVIOUS
    <3>1. i \in Nat /\ Kid(p, i) # p
      BY <1>0, KidFacts
    <3> QED
      BY <2>3, <2>6, <3>1 DEF Moves
  <2>8. Awaits(p)'
    <3>0. n \in Nat /\ (n + 1) - 1 = n /\ \A i \in 1..n : i = n \/ i \in 1..(n - 1)
      BY <1>0
    <3>1. Busy(p)' = Busy(p)
      <4>1. ~(call[Kid(p, n)].span > InlineSpan)
        BY <1>1, FetchAssumption DEF q
      <4>2. \A i \in 1..(n - 1) : i \in 1..n
        BY <1>0
      <4>3. Busy(p)' = {i \in 1..n : /\ call[Kid(p, i)].span > InlineSpan
                                     /\ call[Kid(p, i)].at # "done"}
        BY <2>4, <2>7, <3>0 DEF Busy, Place
      <4> HIDE DEF n
      <4> QED
        BY <3>0, <4>1, <4>2, <4>3 DEF Busy, Place, n
    <3>2. call'[p].tasks = Cardinality(Busy(p)') + Len(errCh'[p])
      BY <1>0, <2>1, <2>2, <2>3, <3>1 DEF Awaits
    <3>3. ASSUME NEW i \in 1..n
          PROVE  /\ call[Kid(p, i)].span <= InlineSpan =>
                      call[Kid(p, i)].at = "done" /\ call[Kid(p, i)].ret = "ok"
                 /\ call[Kid(p, i)].at = "done" /\ call[Kid(p, i)].ret = "error" =>
                      \E j \in 1..Len(errCh[p]) : errCh[p][j] = "error"
      <4>1. CASE i = n
        BY <1>0, <1>3, <4>1 DEF q
      <4>2. CASE i # n
        BY <1>0, <3>0, <4>2 DEF Awaits, IsOK, IsError
      <4> QED
        BY <4>1, <4>2
    <3> HIDE DEF n
    <3> QED
      BY <2>2, <2>4, <2>7, <3>0, <3>2, <3>3 DEF Awaits, IsOK, IsError
  <2>9. /\ ~Place(p, "get") /\ call'[p].at = "loop"
        /\ call'[p].at \notin {"send", "done"} /\ Open(p)'
    BY <1>0, <2>1, <2>3 DEF Place, Open
  <2>10. \A i \in 1..(call'[p].child - 1) : Kid(p, i) \in DOMAIN call
    BY <1>0, <2>4, <2>6
  <2> QED
    BY <1>0, <2>1, <2>2, <2>3, <2>4, <2>5, <2>8, <2>9, <2>10, ChannelsSound, GoesOnInv
<1> QED
  BY <1>2, <1>3

(***************************************************************************)
(* The call p makes one for its next child q, and waits for it or goes on. *)
(***************************************************************************)
Opens(p, q, n, new) ==
  /\ call[p].at = "loop" /\ n = call[p].child /\ q = Kid(p, n) /\ q \notin DOMAIN call /\ q # p
  /\ n \in 1..Len(call[p].cid.cids) /\ n \in Nat
  /\ call' = [o \in DOMAIN call' |-> call'[o]]
  /\ DOMAIN call' = DOMAIN call \cup {q}
  /\ \A o \in DOMAIN call : o # p => call'[o] = call[o]
  /\ call'[q] = new
  /\ new \in CallRecord(store) /\ new.at = "acquire" /\ new.ret = "none"
  /\ new.child = 1 /\ new.tasks = 0
  /\ new.cid = call[p].cid.cids[n] /\ new.span = call[p].cid.spans[n]
  /\ new.base = call[p].base + SumTo(call[p].cid.spans)[n - 1]
  /\ Holds(file, new.cid, new.base, new.base + new.span)
  /\ call'[p] \in CallRecord(store) /\ call'[p].ret = "none"
  /\ call'[p].cid = call[p].cid /\ call'[p].base = call[p].base /\ call'[p].span = call[p].span
  /\ \/ /\ new.span <= InlineSpan
        /\ call'[p].at = "inline" /\ call'[p].child = n /\ call'[p].tasks = call[p].tasks
     \/ /\ new.span > InlineSpan
        /\ call'[p].at = "loop" /\ call'[p].child = n + 1 /\ call'[p].tasks = call[p].tasks + 1
  /\ UNCHANGED <<out, sem, errCh, bvars, ctxDone, fetch, target>>

\* The slice of the next child is the next part of that of the node.
LEMMA NextChildOpens ==
  ASSUME Inv, NEW p \in DOMAIN call, NextChild(p)
  PROVE  \E q, n, new : Opens(p, q, n, new)
<1> DEFINE b == call[p].cid
           n == call[p].child
           q == Kid(p, n)
           x == call[p].base
           y == call[p].base + call[p].span
           offset == x + SumTo(b.spans)[n - 1]
           new == NewCall(b.cids[n], offset, b.spans[n])
           inline == b.spans[n] <= InlineSpan
           r == [call[p] EXCEPT !.at = IF inline THEN "inline" ELSE "loop",
                                !.child = IF inline THEN @ ELSE @ + 1,
                                !.tasks = IF inline THEN @ ELSE @ + 1]
<1>0. /\ BuildInv /\ CallSound(p) /\ call[p].at = "loop" /\ p \in Seq(Nat)
      /\ b \in store /\ b.type = "node" /\ x \in Nat /\ y \in Nat /\ Holds(file, b, x, y)
      /\ n \in Nat /\ n > 0 /\ call[p].tasks \in Nat /\ n <= Len(b.cids) /\ InlineSpan \in Nat
      /\ call[p] \in CallRecord(store) /\ call[p].ret = "none"
      /\ call \in [DOMAIN call -> CallRecord(store)]
      /\ UNCHANGED <<out, sem, errCh, bvars, ctxDone, fetch, target>>
  <2>1. /\ BuildInv /\ CallSound(p) /\ p \in Seq(Nat) /\ b \in store /\ x \in Nat /\ y \in Nat
        /\ n \in Nat /\ call[p].tasks \in Nat /\ call[p] \in CallRecord(store) /\ InlineSpan \in Nat
        /\ call \in [DOMAIN call -> CallRecord(store)]
    BY InvFacts, FetchAssumption DEF CallTypes
  <2>2. /\ call[p].at = "loop" /\ n <= Len(b.cids)
        /\ UNCHANGED <<out, sem, errCh, bvars, ctxDone, fetch, target>>
    BY DEF NextChild, Place, CallUnchanged
  <2>3. b.type = "node" /\ Holds(file, b, x, y) /\ call[p].ret = "none" /\ n > 0
    BY <2>1, <2>2 DEF CallSound, Open, Place
  <2> QED
    BY <2>1, <2>2, <2>3
<1>1. q \notin DOMAIN call /\ q # p
  BY <1>0, NoKidYet, KidFacts
<1>2. /\ n \in 1..Len(b.cids) /\ SumTo(b.spans)[n - 1] \in Nat /\ b.spans[n] \in Nat
      /\ b.cids[n] \in store /\ Holds(file, b.cids[n], offset, offset + b.spans[n])
  <2>1. Len(b.cids) \in Nat
    BY <1>0 DEF BuildInv, StoreSound
  <2>2. n \in 1..Len(b.cids)
    BY <1>0, <2>1
  <2>3. offset + b.spans[n] = PartEnd(b, x, n)
    BY DEF PartEnd
  <2> HIDE DEF b, n, x, y
  <2> QED
    BY <1>0, <2>2, <2>3, NodeParts
<1>3. /\ new \in CallRecord(store) /\ new.at = "acquire" /\ new.ret = "none"
      /\ new.child = 1 /\ new.tasks = 0
      /\ new.cid = b.cids[n] /\ new.span = b.spans[n] /\ new.base = offset
  <2>1. offset \in Nat
    BY <1>0, <1>2
  <2> HIDE DEF offset
  <2> QED
    BY <1>2, <2>1 DEF CallRecord, NewCall
<1>4. /\ r \in CallRecord(store) /\ r.ret = "none"
      /\ r.cid = b /\ r.base = x /\ r.span = call[p].span
      /\ \/ /\ inline /\ r.at = "inline" /\ r.child = n /\ r.tasks = call[p].tasks
         \/ /\ ~inline /\ r.at = "loop" /\ r.child = n + 1 /\ r.tasks = call[p].tasks + 1
  <2>1. n + 1 \in Nat /\ call[p].tasks + 1 \in Nat
    BY <1>0
  <2>2. CASE inline
    BY <1>0, <2>2 DEF CallRecord
  <2>3. CASE ~inline
    BY <1>0, <2>1, <2>3 DEF CallRecord
  <2> QED
    BY <2>2, <2>3
<1>5. call' = With([call EXCEPT ![p] = r], q, new)
  BY DEF NextChild, Kid
<1>6. b.spans[n] > InlineSpan <=> ~inline
  <2>1. InlineSpan \in Nat /\ b.spans[n] \in Nat
    BY <1>0, <1>2
  <2> HIDE DEF b, n
  <2> QED
    BY <2>1
<1> HIDE DEF r, new, q
<1>7. /\ call' = [o \in DOMAIN call' |-> call'[o]]
      /\ DOMAIN call' = DOMAIN call \cup {q}
      /\ \A o \in DOMAIN call : o # p => call'[o] = call[o]
      /\ call'[q] = new /\ call'[p] = r
  BY <1>0, <1>1, <1>5 DEF With
<1> HIDE DEF offset, n, b, x, y
<1>8. Opens(p, q, n, new)
  <2>1. q = Kid(p, n) /\ n = call[p].child /\ b = call[p].cid /\ x = call[p].base
        /\ offset = x + SumTo(b.spans)[n - 1]
    BY DEF q, n, b, x, offset
  <2> QED
    BY <1>0, <1>1, <1>2, <1>3, <1>4, <1>6, <1>7, <2>1 DEF Opens
<1> QED
  BY <1>8

\* The new call is sound, and so is the one that made it.
LEMMA OpensTypes ==
  ASSUME Inv, NEW p \in DOMAIN call, NEW q, NEW n, NEW new, Opens(p, q, n, new)
  PROVE  CallTypes'
<1>1. store' = store /\ file' = file /\ errCh' = errCh
  BY DEF Opens, bvars
<1>2. CallTypes /\ CallSound(p) /\ CallSound(p) /\ p \in Seq(Nat) /\ BuildInv
      /\ call[p].tasks \in Nat /\ Fanout \in Nat
  BY InvFacts, BuilderAssumption
<1>3. IsFiniteSet(DOMAIN call') /\ DOMAIN call' \subseteq Seq(Nat)
  <2>1. q \in Seq(Nat)
    BY <1>2, KidFacts DEF Opens
  <2>2. IsFiniteSet(DOMAIN call \cup {q})
    BY <1>2, FS_AddElement DEF CallTypes
  <2> QED
    BY <1>2, <2>1, <2>2 DEF CallTypes, Opens
<1>4. call' \in [DOMAIN call' -> CallRecord(store')]
  <2>1. ASSUME NEW o \in DOMAIN call' PROVE call'[o] \in CallRecord(store)
    <3>1. CASE o = q
      BY <3>1 DEF Opens
    <3>2. CASE o = p
      BY <3>2 DEF Opens
    <3>3. CASE o # q /\ o # p
      BY <1>2, <3>3 DEF Opens, CallTypes
    <3> QED
      BY <3>1, <3>2, <3>3
  <2>2. call' = [o \in DOMAIN call' |-> call'[o]]
    BY DEF Opens
  <2> QED
    BY <1>1, <2>1, <2>2
<1>5. CallSound(q)'
  <2>1. /\ call'[q].at = "acquire" /\ call'[q].ret = "none"
        /\ call'[q].tasks = 0 /\ call'[q].child = 1
        /\ Holds(file, call'[q].cid, call'[q].base, call'[q].base + call'[q].span)
    BY DEF Opens
  <2>2. q \notin DOMAIN errCh
    BY <1>2 DEF CallTypes, Opens
  <2> QED
    BY <1>1, <1>2, <2>1, <2>2 DEF CallSound, Open, Place
<1>6. CallSound(p)'
  <2> DEFINE b == call[p].cid
  <2>1. /\ b \in store /\ b.type = "node" /\ p \in DOMAIN errCh /\ call[p].tasks < n /\ n \in Nat
        /\ n \in 1..Len(b.cids) /\ Holds(file, b, call[p].base, call[p].base + call[p].span)
        /\ call[p].tasks <= Fanout
    BY <1>2, InvFacts DEF Opens, CallSound, Open
  <2>2. Len(b.cids) \in Nat /\ Len(b.cids) <= Fanout
    BY <1>2, <2>1 DEF BuildInv, StoreSound
  <2>3. /\ call'[p].cid = b /\ call'[p].base = call[p].base /\ call'[p].span = call[p].span
        /\ call'[p].ret = "none" /\ q = Kid(p, n) /\ q \in DOMAIN call'
    BY DEF Opens
  <2>4. \/ /\ b.spans[n] <= InlineSpan
           /\ call'[p].at = "inline" /\ call'[p].child = n /\ call'[p].tasks = call[p].tasks
        \/ /\ call'[p].at = "loop" /\ call'[p].child = n + 1 /\ call'[p].tasks = call[p].tasks + 1
    BY DEF Opens
  <2> HIDE DEF b
  <2>5. CASE /\ b.spans[n] <= InlineSpan
             /\ call'[p].at = "inline" /\ call'[p].child = n /\ call'[p].tasks = call[p].tasks
    <3>1. n <= Len(b.cids) + 1 /\ n <= Len(b.cids)
      BY <2>1, <2>2
    <3> QED
      BY <1>1, <2>1, <2>3, <2>5, <3>1 DEF CallSound, Open, Place
  <2>6. CASE call'[p].at = "loop" /\ call'[p].child = n + 1 /\ call'[p].tasks = call[p].tasks + 1
    <3>1. n + 1 <= Len(b.cids) + 1 /\ call[p].tasks + 1 < n + 1 /\ call[p].tasks + 1 <= Fanout
      BY <1>2, <2>1, <2>2
    <3> QED
      BY <1>1, <2>1, <2>3, <2>6, <3>1 DEF CallSound, Open, Place
  <2> QED
    BY <2>4, <2>5, <2>6
<1>7. ASSUME NEW o \in DOMAIN call, o # p PROVE CallSound(o)'
  <2>1. call'[o] = call[o] /\ CallSound(o) /\ DOMAIN call \subseteq DOMAIN call'
    BY <1>2, <1>7 DEF Opens, CallTypes
  <2> QED
    BY <1>1, <2>1 DEF CallSound, Open, Place
<1>8. DOMAIN call' = DOMAIN call \cup {q}
  BY DEF Opens
<1> QED
  BY <1>1, <1>2, <1>3, <1>4, <1>5, <1>6, <1>7, <1>8 DEF CallTypes

\* The new call has its place in the tree.
LEMMA OpensTree ==
  ASSUME Inv, NEW p \in DOMAIN call, NEW q, NEW n, NEW new, Opens(p, q, n, new)
  PROVE  CallTree'
<1>1. CallTypes /\ CallTree /\ p \in Seq(Nat) /\ call[p].child = n /\ n \in Nat
  BY InvFacts DEF Opens
<1>2. /\ DOMAIN call' = DOMAIN call \cup {q} /\ q = Kid(p, n) /\ q \notin DOMAIN call
      /\ \A o \in DOMAIN call : /\ call'[o].cid = call[o].cid /\ call'[o].base = call[o].base
                                /\ call'[o].span = call[o].span
                                /\ o # p => call'[o] = call[o]
      /\ call'[p].child \in {n, n + 1} /\ call'[q].child = 1
  BY DEF Opens
<1>3. Parent(q) = p /\ q # <<>> /\ q \in Seq(Nat)
  BY <1>1, <1>2, KidFacts
<1>4. \A o \in DOMAIN call' : o # <<>> => Parent(o) \in DOMAIN call'
  BY <1>1, <1>2, <1>3 DEF CallTree
<1>5. ASSUME NEW o \in DOMAIN call', NEW i \in 1..(call'[o].child - 1)
      PROVE  Kid(o, i) \in DOMAIN call'
  <2>1. CASE o = q
    BY <1>2, <1>5, <2>1
  <2>2. CASE o = p
    <3>1. i = n \/ i \in 1..(call[p].child - 1)
      BY <1>1, <1>2, <1>5, <2>2
    <3> QED
      BY <1>1, <1>2, <2>2, <3>1 DEF CallTree
  <2>3. CASE o # p /\ o # q
    BY <1>1, <1>2, <2>3 DEF CallTree
  <2> QED
    BY <2>1, <2>2, <2>3
<1>6. ASSUME NEW o \in DOMAIN call', NEW i \in Nat, Kid(o, i) \in DOMAIN call' PROVE KidSound(o, i)'
  <2>0. o \in Seq(Nat)
    BY <1>1, <1>2, <1>3 DEF CallTypes
  <2>1. CASE Kid(o, i) = q
    <3>1. o = p /\ i = n
      BY <1>1, <1>2, <2>0, <2>1, KidsDiffer
    <3>2. call[p].cid.type = "node"
      BY <1>1 DEF CallTypes, CallSound, Open, Opens
    <3>3. /\ n \in 1..Len(call[p].cid.cids) /\ call'[p].cid = call[p].cid
          /\ call'[q].cid = call[p].cid.cids[n] /\ call'[q].span = call[p].cid.spans[n]
          /\ call'[q].base = call[p].base + SumTo(call[p].cid.spans)[n - 1]
          /\ call'[p].base = call[p].base
          /\ \/ n < call'[p].child
             \/ n = call'[p].child /\ call'[p].at = "inline" /\ call[p].cid.spans[n] <= InlineSpan
      BY <1>1 DEF Opens
    <3> QED
      BY <2>1, <3>1, <3>2, <3>3 DEF KidSound
  <2>2. CASE Kid(o, i) # q
    <3>1. Kid(o, i) \in DOMAIN call /\ o \in DOMAIN call
      <4>1. Kid(o, i) \in DOMAIN call /\ Kid(o, i) # <<>> /\ Parent(Kid(o, i)) = o
        BY <1>2, <1>6, <2>0, <2>2, KidFacts
      <4> QED
        BY <1>1, <4>1 DEF CallTree
    <3>2. KidSound(o, i)
      BY <1>1, <3>1 DEF CallTree
    <3>3. \/ i < call'[o].child
          \/ /\ i = call'[o].child /\ call'[o].at \in {"inline", "send", "done"}
             /\ call'[o].cid.spans[i] <= InlineSpan
      <4>1. CASE o = p
        <5>1. i < n
          BY <1>1, <3>2, <4>1 DEF KidSound, Opens
        <5> QED
          BY <1>1, <1>2, <4>1, <5>1
      <4>2. CASE o # p
        BY <1>2, <3>1, <3>2, <4>2 DEF KidSound
      <4> QED
        BY <4>1, <4>2
    <3> QED
      BY <1>2, <3>1, <3>2, <3>3 DEF KidSound
  <2> QED
    BY <2>1, <2>2
<1> QED
  BY <1>4, <1>5, <1>6 DEF CallTree

\* The new call is waited for, in a goroutine of its own or in this one.
LEMMA OpensWait ==
  ASSUME Inv, NEW p \in DOMAIN call, NEW q, NEW n, NEW new, Opens(p, q, n, new)
  PROVE  CallsWait'
<1>1. /\ CallTypes /\ CallTree /\ p \in Seq(Nat) /\ call[p].child = n /\ n \in Nat /\ n > 0
      /\ Awaits(p) /\ p \in DOMAIN errCh /\ call[p].tasks \in Nat /\ InlineSpan \in Nat
      /\ errCh[p] \in Seq({"ok", "error"})
  <2>1. /\ CallTypes /\ CallTree /\ p \in Seq(Nat) /\ call[p].child = n /\ n \in Nat
        /\ CallSound(p) /\ call[p].tasks \in Nat /\ InlineSpan \in Nat /\ Open(p)
    BY InvFacts, FetchAssumption DEF Opens, Open
  <2>2. n > 0 /\ p \in DOMAIN errCh
    BY <2>1 DEF CallSound
  <2>3. Awaits(p)
    BY <2>1 DEF Inv, CallsWait
  <2> QED
    BY <2>1, <2>2, <2>3, ChannelsSound
<1>2. /\ DOMAIN call' = DOMAIN call \cup {q} /\ q = Kid(p, n) /\ q \notin DOMAIN call
      /\ errCh' = errCh
      /\ \A o \in DOMAIN call : o # p => call'[o] = call[o]
      /\ call'[p].span = call[p].span /\ call'[p].at # "done" /\ call[p].at # "done"
      /\ call'[p].ret = "none" /\ call[p].ret = "none"
      /\ call'[q].at = "acquire" /\ call'[q].ret = "none" /\ new = call'[q]
  BY InvFacts DEF Opens
<1>3. \A i \in 1..(n - 1) : call'[Kid(p, i)] = call[Kid(p, i)]
  <2> SUFFICES ASSUME NEW i \in 1..(n - 1) PROVE call'[Kid(p, i)] = call[Kid(p, i)]
    OBVIOUS
  <2>1. i \in Nat /\ Kid(p, i) # p
    BY <1>1, KidFacts
  <2>2. Kid(p, i) \in DOMAIN call
    BY <1>1 DEF CallTree
  <2> QED
    BY <1>2, <2>1, <2>2
<1>4. IsFiniteSet(Busy(p)) /\ Cardinality(Busy(p)) \in Nat /\ n \notin Busy(p)
  <2>1. 1 \in Int /\ call[p].child - 1 \in Int
    BY <1>1
  <2>2. IsFiniteSet(1..(call[p].child - 1))
    BY <2>1, FS_Interval
  <2>3. IsFiniteSet(Busy(p))
    BY <2>2, FS_Subset DEF Busy
  <2>4. n \notin Busy(p)
    BY <1>1 DEF Busy
  <2> QED
    BY <2>3, <2>4, FS_CardinalityType
<1>5. Awaits(p)'
  <2>1. CASE new.span <= InlineSpan
    <3>1. call'[p].child = n /\ call'[p].tasks = call[p].tasks
      <4>1. ~(new.span > InlineSpan)
        <5>1. new.span \in Nat /\ InlineSpan \in Nat
          BY <1>1 DEF Opens, CallRecord
        <5> QED
          BY <2>1, <5>1
      <4> QED
        BY <4>1 DEF Opens
    <3>2. Busy(p)' = Busy(p)
      BY <1>1, <1>3, <3>1 DEF Busy, Place
    <3> QED
      BY <1>1, <1>2, <1>3, <3>1, <3>2 DEF Awaits, IsOK, IsError
  <2>2. CASE ~(new.span <= InlineSpan)
    <3>1. call'[p].child = n + 1 /\ call'[p].tasks = call[p].tasks + 1 /\ new.span > InlineSpan
      BY <2>2 DEF Opens
    <3>2. (n + 1) - 1 = n /\ \A i \in 1..n : i = n \/ i \in 1..(n - 1)
      BY <1>1
    <3>3. Busy(p)' = Busy(p) \cup {n}
      <4>1. Busy(p)' = {i \in 1..n : /\ call'[Kid(p, i)].span > InlineSpan
                                     /\ call'[Kid(p, i)].at # "done"}
        BY <3>1, <3>2 DEF Busy, Place
      <4>2. call'[Kid(p, n)].span > InlineSpan /\ call'[Kid(p, n)].at # "done" /\ n \in 1..n
        BY <1>1, <1>2, <3>1
      <4>3. Busy(p) = {i \in 1..(n - 1) : call'[Kid(p, i)].span > InlineSpan
                                          /\ call'[Kid(p, i)].at # "done"}
        BY <1>1, <1>3 DEF Busy, Place
      <4>4. \A i \in 1..(n - 1) : i \in 1..n
        BY <1>1
      <4> QED
        BY <3>2, <4>1, <4>2, <4>3, <4>4
    <3>4. Cardinality(Busy(p)') = Cardinality(Busy(p)) + 1
      BY <1>4, <3>3, FS_AddElement
    <3>5. call'[p].tasks = Cardinality(Busy(p)') + Len(errCh'[p])
      BY <1>1, <1>2, <1>4, <3>1, <3>4 DEF Awaits
    <3>6. ASSUME NEW i \in 1..n
          PROVE  /\ call'[Kid(p, i)].span <= InlineSpan =>
                      call'[Kid(p, i)].at = "done" /\ call'[Kid(p, i)].ret = "ok"
                 /\ call'[Kid(p, i)].at = "done" /\ call'[Kid(p, i)].ret = "error" =>
                      \E j \in 1..Len(errCh[p]) : errCh[p][j] = "error"
      <4>1. CASE i = n
        BY <1>2, <2>2, <4>1
      <4>2. CASE i # n
        BY <1>1, <1>3, <3>2, <4>2 DEF Awaits, IsOK, IsError
      <4> QED
        BY <4>1, <4>2
    <3> QED
      BY <1>2, <3>1, <3>2, <3>5, <3>6 DEF Awaits, IsOK, IsError
  <2> QED
    BY <2>1, <2>2
<1>6. ASSUME NEW o \in DOMAIN call, o # p
      PROVE  (Counts(o) => Counts(o)') /\ (Awaits(o) => Awaits(o)')
  <2>1. call'[o] = call[o] /\ errCh'[o] = errCh[o]
    BY <1>2, <1>6
  <2>2. ASSUME NEW i \in 1..(call[o].child - 1)
        PROVE  /\ call'[Kid(o, i)].span = call[Kid(o, i)].span
               /\ call'[Kid(o, i)].ret = call[Kid(o, i)].ret
               /\ call'[Kid(o, i)].at = "done" <=> call[Kid(o, i)].at = "done"
    <3>1. Kid(o, i) \in DOMAIN call
      BY <1>1, KidsOfMoved
    <3> QED
      BY <1>2, <3>1
  <2> QED
    BY <2>1, <2>2, WaitsElsewhere DEF IsOK, IsError
<1>7. ASSUME NEW o \in DOMAIN call', Open(o)' PROVE Awaits(o)'
  <2>1. o # q
    BY <1>2, <1>7 DEF Open
  <2>2. CASE o = p
    BY <1>5, <2>2
  <2>3. CASE o # p
    <3>1. o \in DOMAIN call /\ Open(o)
      BY <1>2, <1>7, <2>1, <2>3 DEF Open
    <3> QED
      BY <1>6, <2>3, <3>1 DEF Inv, CallsWait
  <2> QED
    BY <2>2, <2>3
<1>8. ASSUME NEW o \in DOMAIN errCh PROVE Counts(o)'
  <2>1. CASE o = p
    BY <1>5, <2>1 DEF Awaits, Counts
  <2>2. CASE o # p
    <3>1. o \in DOMAIN call
      BY <1>1 DEF CallTypes
    <3> QED
      BY <1>6, <2>2, <3>1 DEF Inv, CallsWait
  <2> QED
    BY <2>1, <2>2
<1> QED
  BY <1>2, <1>7, <1>8 DEF CallsWait

\* A call makes one for its next child.
LEMMA NextChildInv ==
  ASSUME Inv, NEW p \in DOMAIN call, NextChild(p)
  PROVE  Inv'
<1>1. PICK q, n, new : Opens(p, q, n, new)
  BY NextChildOpens
<1>2. /\ DOMAIN call' = DOMAIN call \cup {q} /\ q = Kid(p, n) /\ q \notin DOMAIN call /\ n \in Nat
      /\ \A o \in DOMAIN call : o # p => call'[o] = call[o]
      /\ call'[p].ret = "none" /\ call[p].ret = "none" /\ call'[q].ret = "none"
      /\ call'[p].base = call[p].base /\ call'[p].span = call[p].span
      /\ call'[q].at # "get" /\ call'[p].at # "get" /\ call[p].at # "get"
      /\ UNCHANGED <<out, sem, errCh, ctxDone, fetch, target>> /\ UNCHANGED bvars
  BY <1>1, InvFacts DEF Opens
<1>3. UNCHANGED <<file, phase, store, lost>>
  BY <1>2 DEF bvars
<1>4. BuildInv'
  BY <1>2, BuildNext, InvFacts
<1>5. CallTypes' /\ CallTree' /\ CallsWait'
  BY <1>1, OpensTypes, OpensTree, OpensWait
<1>6. Nested'
  <2> SUFFICES ASSUME NEW o \in DOMAIN call', call'[o].ret = "ok",
                      NEW i \in Nat, Kid(o, i) \in DOMAIN call'
               PROVE  call'[Kid(o, i)].at = "done" /\ call'[Kid(o, i)].ret = "ok"
    BY DEF Nested, IsOK
  <2>1. o \in DOMAIN call /\ o # p /\ o \in Seq(Nat) /\ p \in Seq(Nat) /\ call[o].ret = "ok"
    BY <1>2, InvFacts DEF CallTypes
  <2>2. Kid(o, i) # q
    BY <1>2, <2>1, KidsDiffer
  <2>3. Kid(o, i) \in DOMAIN call /\ IsOK(Kid(o, i))
    BY <1>2, <2>1, <2>2 DEF Inv, Nested
  <2>4. call[p].at # "done"
    BY <1>1 DEF Opens
  <2> QED
    BY <1>2, <2>3, <2>4 DEF IsOK
<1>7. Cause'
  BY <1>2, <1>3 DEF Inv, Cause, IsError, Blame
<1>8. OutRight'
  BY <1>2, <1>3 DEF Inv, OutRight, IsOK, Copied
<1>9. CallerInv'
  <2>1. <<>> \in DOMAIN call /\ CallerInv
    BY DEF Inv, CallerInv
  <2>2. /\ call'[<<>>].base = call[<<>>].base /\ call'[<<>>].span = call[<<>>].span
        /\ call'[<<>>].ret = call[<<>>].ret
    BY <1>2, <2>1
  <2> QED
    BY <1>2, <1>3, <2>1, <2>2 DEF CallerInv, IsOK
<1>10. Slots'
  <2>1. Getting' = Getting
    BY <1>2 DEF Getting, Place
  <2> QED
    BY <1>2, <2>1 DEF Inv, Slots
<1> QED
  BY <1>4, <1>5, <1>6, <1>7, <1>8, <1>9, <1>10 DEF Inv

(***************************************************************************)
(* The goroutine of p sends its result, on the channel of the call above.  *)
(***************************************************************************)
Sends(p) ==
  /\ DOMAIN call' = DOMAIN call /\ DOMAIN errCh' = DOMAIN errCh
  /\ call' \in [DOMAIN call -> CallRecord(store)]
  /\ \A q \in DOMAIN call : q # p => call'[q] = call[q]
  /\ call[p].at = "send" /\ call'[p].at = "done" /\ call[p].ret \in {"ok", "error"}
  /\ call'[p].cid = call[p].cid /\ call'[p].base = call[p].base /\ call'[p].span = call[p].span
  /\ call'[p].child = call[p].child /\ call'[p].tasks = call[p].tasks
  /\ call'[p].ret = call[p].ret
  /\ \A q \in DOMAIN errCh :
       errCh'[q] = IF p # <<>> /\ q = Parent(p) THEN Append(errCh[q], call[p].ret) ELSE errCh[q]
  /\ errCh' \in [DOMAIN errCh' -> Seq({"ok", "error"})]
  /\ UNCHANGED <<bvars, ctxDone, fetch, target, out, sem>>

\* What Send does to the calls and the channels.
LEMMA SendSends ==
  ASSUME Inv, NEW p \in DOMAIN call, Send(p)
  PROVE  Sends(p)
<1> DEFINE r == [call[p] EXCEPT !.at = "done"]
<1>1. /\ call[p] \in CallRecord(store) /\ call[p].at = "send" /\ call[p].ret \in {"ok", "error"}
      /\ call \in [DOMAIN call -> CallRecord(store)]
  <2>1. call[p] \in CallRecord(store) /\ CallSound(p) /\ CallTypes
    BY InvFacts
  <2>2. call[p].at = "send" /\ call[p].ret \in {"none", "ok", "error"}
    BY <2>1 DEF Send, Place, CallRecord
  <2> QED
    BY <2>1, <2>2 DEF CallSound, CallTypes
<1>2. /\ r \in CallRecord(store) /\ r.at = "done" /\ r.ret = call[p].ret
      /\ r.cid = call[p].cid /\ r.base = call[p].base /\ r.span = call[p].span
      /\ r.child = call[p].child /\ r.tasks = call[p].tasks
  BY <1>1 DEF CallRecord
<1>3. /\ call' = [call EXCEPT ![p] = r]
      /\ errCh' = IF p = <<>> THEN errCh
                  ELSE [errCh EXCEPT ![Parent(p)] = Append(@, call[p].ret)]
      /\ UNCHANGED <<bvars, ctxDone, fetch, target, out, sem>>
  BY DEF Send, CallUnchanged
<1> HIDE DEF r
<1>4. /\ DOMAIN errCh' = DOMAIN errCh
      /\ \A q \in DOMAIN errCh :
           errCh'[q] = IF p # <<>> /\ q = Parent(p) THEN Append(errCh[q], call[p].ret) ELSE errCh[q]
      /\ errCh' = [q \in DOMAIN errCh' |-> errCh'[q]]
  BY <1>3, ChannelsSound
<1>5. errCh' \in [DOMAIN errCh' -> Seq({"ok", "error"})]
  <2>1. ASSUME NEW q \in DOMAIN errCh PROVE errCh'[q] \in Seq({"ok", "error"})
    <3>1. errCh[q] \in Seq({"ok", "error"})
      BY ChannelsSound
    <3>2. Append(errCh[q], call[p].ret) \in Seq({"ok", "error"})
      BY <1>1, <3>1, AppendProperties
    <3> QED
      BY <1>4, <3>1, <3>2
  <2> QED
    BY <1>4, <2>1
<1>6. /\ DOMAIN call' = DOMAIN call /\ call'[p] = r /\ \A q \in DOMAIN call : q # p => call'[q] = call[q]
      /\ call' \in [DOMAIN call -> CallRecord(store)]
  BY <1>1, <1>2, <1>3
<1> QED
  BY <1>1, <1>2, <1>3, <1>4, <1>5, <1>6 DEF Sends

(***************************************************************************)
(* A call that is busy is one of those that were passed, so that the one   *)
(* above it has a channel, and has it among the busy ones.                 *)
(***************************************************************************)
LEMMA SenderIsBusy ==
  ASSUME Inv, NEW p \in DOMAIN call, call[p].at = "send", p # <<>>
  PROVE  \E i \in 1..(call[Parent(p)].child - 1) :
           /\ Parent(p) \in DOMAIN call /\ Parent(p) \in DOMAIN errCh
           /\ p = Kid(Parent(p), i) /\ i \in Busy(Parent(p))
<1> DEFINE q == Parent(p)
<1>1. /\ p \in Seq(Nat) /\ CallSound(p) /\ CallTree /\ CallTypes /\ InlineSpan \in Nat
      /\ call[p].span \in Nat /\ call[p].span > InlineSpan
  BY InvFacts, FetchAssumption DEF CallSound, Place
<1>2. PICK i \in Nat : p = Kid(q, i)
  BY <1>1, PathIsKid
<1>3. q \in DOMAIN call /\ KidSound(q, i)
  BY <1>1, <1>2 DEF CallTree
<1>4. call[q].child \in Nat /\ CallSound(q)
  BY <1>3, InvFacts
<1>5. i < call[q].child /\ i >= 1
  <2>1. i \in 1..Len(call[q].cid.cids) /\ call[p].span = call[q].cid.spans[i]
    BY <1>2, <1>3 DEF KidSound
  <2>2. ~(call[q].cid.spans[i] <= InlineSpan)
    BY <1>1, <2>1
  <2> QED
    BY <1>3, <2>1, <2>2 DEF KidSound
<1>6. i \in 1..(call[q].child - 1) /\ call[q].child > 1
  BY <1>4, <1>5
<1>7. q \in DOMAIN errCh
  BY <1>4, <1>6 DEF CallSound
<1>8. i \in Busy(q)
  BY <1>1, <1>2, <1>6 DEF Busy, Place
<1> HIDE DEF q
<1>9. \E k \in 1..(call[q].child - 1) : q \in DOMAIN call /\ q \in DOMAIN errCh /\ p = Kid(q, k) /\ k \in Busy(q)
  BY <1>2, <1>3, <1>6, <1>7, <1>8
<1> QED
  BY <1>9 DEF q

\* The call above p has one busy child less and one result more, the others see nothing.
LEMMA SendsWait ==
  ASSUME Inv, NEW p \in DOMAIN call, Sends(p)
  PROVE  CallsWait'
<1>0. /\ CallTypes /\ CallTree /\ CallsWait /\ p \in Seq(Nat) /\ InlineSpan \in Nat
      /\ DOMAIN errCh \subseteq DOMAIN call
  BY InvFacts, FetchAssumption DEF Inv, CallTypes
<1>1. /\ DOMAIN call' = DOMAIN call /\ DOMAIN errCh' = DOMAIN errCh
      /\ call[p].at = "send" /\ call'[p].at = "done" /\ call'[p].ret = call[p].ret
      /\ call'[p].span = call[p].span /\ call[p].ret \in {"ok", "error"}
      /\ \A o \in DOMAIN call : /\ call'[o].child = call[o].child /\ call'[o].tasks = call[o].tasks
                                /\ o # p => call'[o] = call[o]
  BY DEF Sends
<1>2. ASSUME NEW q \in DOMAIN errCh, p = <<>> \/ q # Parent(p)
      PROVE  (Counts(q) => Counts(q)') /\ (Awaits(q) => Awaits(q)')
  <2>1. q \in DOMAIN call /\ errCh'[q] = errCh[q]
    BY <1>0, <1>2 DEF Sends
  <2>2. ASSUME NEW i \in 1..(call[q].child - 1) PROVE call'[Kid(q, i)] = call[Kid(q, i)]
    <3>1. Kid(q, i) \in DOMAIN call /\ Kid(q, i) # <<>> /\ i \in Nat /\ q \in Seq(Nat)
      BY <1>0, <2>1, KidsOfMoved DEF CallTypes
    <3>2. Kid(q, i) # p
      BY <1>2, <3>1, KidFacts
    <3> QED
      BY <1>1, <3>1, <3>2
  <2> QED
    BY <1>1, <2>1, <2>2, WaitsElsewhere DEF IsOK, IsError
<1>3. ASSUME p # <<>>
      PROVE  (Counts(Parent(p)) => Counts(Parent(p))') /\ (Awaits(Parent(p)) => Awaits(Parent(p))')
  <2> DEFINE q == Parent(p)
  <2>1. PICK i \in 1..(call[q].child - 1) :
          q \in DOMAIN call /\ q \in DOMAIN errCh /\ p = Kid(q, i) /\ i \in Busy(q)
    BY <1>1, <1>3, SenderIsBusy
  <2>2. errCh'[q] = Append(errCh[q], call[p].ret)
    BY <1>3, <2>1 DEF Sends
  <2> HIDE DEF q
  <2>3. /\ q \in Seq(Nat) /\ i \in Nat /\ errCh[q] \in Seq({"ok", "error"})
        /\ call[q].child \in Nat /\ call[q].tasks \in Nat
    BY <1>0, <2>1, KidsOfMoved DEF CallTypes, CallRecord
  <2>4. ASSUME NEW j \in 1..(call[q].child - 1), j # i PROVE call'[Kid(q, j)] = call[Kid(q, j)]
    <3>1. Kid(q, j) \in DOMAIN call /\ j \in Nat
      BY <1>0, <2>1, KidsOfMoved
    <3>2. Kid(q, j) # p
      BY <2>1, <2>3, <2>4, <3>1, KidsDiffer
    <3> QED
      BY <1>1, <3>1, <3>2
  <2>5. Busy(q)' = Busy(q) \ {i}
    BY <1>1, <2>1, <2>4 DEF Busy, Place
  <2>6. /\ IsFiniteSet(Busy(q)) /\ Cardinality(Busy(q)) \in Nat
        /\ Cardinality(Busy(q) \ {i}) = Cardinality(Busy(q)) - 1
    <3>1. IsFiniteSet(1..(call[q].child - 1))
      <4>1. 1 \in Int /\ call[q].child - 1 \in Int
        BY <2>3
      <4> QED
        BY <4>1, FS_Interval
    <3>2. IsFiniteSet(Busy(q))
      BY <3>1, FS_Subset DEF Busy
    <3> QED
      BY <2>1, <3>2, FS_RemoveElement, FS_CardinalityType
  <2>7. /\ Len(errCh'[q]) = Len(errCh[q]) + 1 /\ Len(errCh[q]) \in Nat
        /\ \A j \in 1..Len(errCh[q]) : errCh'[q][j] = errCh[q][j]
        /\ errCh'[q][Len(errCh[q]) + 1] = call[p].ret
    BY <1>1, <2>2, <2>3, AppendProperties
  <2>8. Cardinality(Busy(q)') + Len(errCh'[q]) = Cardinality(Busy(q)) + Len(errCh[q])
    <3>1. Cardinality(Busy(q)') = Cardinality(Busy(q)) - 1
      BY <2>5, <2>6
    <3> QED
      BY <2>6, <2>7, <3>1
  <2>9. call'[q].child = call[q].child /\ call'[q].tasks = call[q].tasks
    BY <1>1, <2>1
  <2>10. Counts(q) => Counts(q)'
    BY <2>8, <2>9 DEF Counts
  <2>11. ASSUME Awaits(q) PROVE Awaits(q)'
    <3>1. call'[q].tasks = Cardinality(Busy(q)') + Len(errCh'[q])
      BY <2>8, <2>9, <2>11 DEF Awaits
    <3>2. ASSUME NEW j \in 1..(call[q].child - 1)
          PROVE  /\ call'[Kid(q, j)].span <= InlineSpan =>
                      call'[Kid(q, j)].at = "done" /\ call'[Kid(q, j)].ret = "ok"
                 /\ call'[Kid(q, j)].at = "done" /\ call'[Kid(q, j)].ret = "error" =>
                      \E k \in 1..Len(errCh'[q]) : errCh'[q][k] = "error"
      <4>1. CASE j = i
        <5>1. Len(errCh[q]) + 1 \in 1..Len(errCh'[q])
          BY <2>7
        <5>2. ~(call[p].span <= InlineSpan)
          BY <1>0, <2>1, <2>11 DEF Busy, Awaits, IsOK, Place
        <5> QED
          BY <1>1, <2>1, <2>7, <4>1, <5>1, <5>2
      <4>2. CASE j # i
        <5>1. call'[Kid(q, j)] = call[Kid(q, j)]
          BY <2>4, <4>2
        <5>2. \A k \in 1..Len(errCh[q]) : k \in 1..Len(errCh'[q]) /\ errCh'[q][k] = errCh[q][k]
          BY <2>7
        <5>3. /\ call[Kid(q, j)].span <= InlineSpan =>
                   call[Kid(q, j)].at = "done" /\ call[Kid(q, j)].ret = "ok"
              /\ call[Kid(q, j)].at = "done" /\ call[Kid(q, j)].ret = "error" =>
                   \E k \in 1..Len(errCh[q]) : errCh[q][k] = "error"
          BY <2>11 DEF Awaits, IsOK, IsError
        <5> QED
          BY <5>1, <5>2, <5>3
      <4> QED
        BY <4>1, <4>2
    <3> QED
      BY <2>9, <3>1, <3>2 DEF Awaits, IsOK, IsError
  <2> QED
    BY <2>10, <2>11 DEF q
<1>4. ASSUME NEW q \in DOMAIN errCh
      PROVE  (Counts(q) => Counts(q)') /\ (Awaits(q) => Awaits(q)')
  BY <1>2, <1>3
<1>5. ASSUME NEW q \in DOMAIN call, Open(q)' PROVE Awaits(q)'
  <2>1. Open(q)
    BY <1>1, <1>5 DEF Open
  <2>2. CallSound(q)
    BY <1>0 DEF CallTypes
  <2> QED
    BY <1>0, <1>4, <2>1, <2>2 DEF CallsWait, CallSound
<1> QED
  BY <1>0, <1>1, <1>4, <1>5 DEF CallsWait

\* A result is sent.
LEMMA SendInv ==
  ASSUME Inv, NEW p \in DOMAIN call, Send(p)
  PROVE  Inv'
<1>1. Sends(p)
  BY SendSends
<1>2. /\ BuildInv /\ CallTypes /\ CallTree /\ Nested /\ Cause /\ OutRight /\ CallerInv /\ Slots
      /\ UNCHANGED <<bvars, ctxDone, fetch, target, out, sem>> /\ UNCHANGED <<file, phase, store, lost>>
      /\ DOMAIN call' = DOMAIN call /\ DOMAIN errCh' = DOMAIN errCh
      /\ call[p].at = "send" /\ call'[p].at = "done" /\ call[p].ret \in {"ok", "error"}
      /\ \A o \in DOMAIN call :
           /\ call'[o].cid = call[o].cid /\ call'[o].base = call[o].base
           /\ call'[o].span = call[o].span /\ call'[o].child = call[o].child
           /\ call'[o].tasks = call[o].tasks /\ call'[o].ret = call[o].ret
           /\ o # p => call'[o] = call[o]
  BY <1>1 DEF Inv, Sends, bvars
<1>3. BuildInv'
  BY <1>2, BuildNext
<1>4. CallTypes'
  <2>1. ASSUME NEW o \in DOMAIN call PROVE CallSound(o)'
    <3>1. CallSound(o)
      BY <1>2 DEF CallTypes
    <3>2. CASE o = p
      BY <1>2, <3>1, <3>2 DEF CallSound, Open, Place
    <3>3. CASE o # p
      <4>1. call'[o] = call[o]
        BY <1>2, <3>3
      <4> QED
        BY <1>2, <3>1, <4>1 DEF CallSound, Open, Place
    <3> QED
      BY <3>2, <3>3
  <2> QED
    BY <1>1, <1>2, <2>1 DEF CallTypes, Sends
<1>5. CallTree'
  <2>1. ASSUME NEW o \in DOMAIN call, NEW i \in Nat, Kid(o, i) \in DOMAIN call PROVE KidSound(o, i)'
    <3>1. KidSound(o, i)
      BY <1>2, <2>1 DEF CallTree
    <3>2. call[o].at \in {"inline", "send", "done"} => call'[o].at \in {"inline", "send", "done"}
      BY <1>2
    <3> QED
      BY <1>2, <2>1, <3>1, <3>2 DEF KidSound
  <2> QED
    BY <1>2, <2>1 DEF CallTree
<1>6. CallsWait'
  BY <1>1, SendsWait
<1>7. \A o \in DOMAIN call : IsOK(o) => IsOK(o)'
  BY <1>2 DEF IsOK
<1>8. Nested'
  BY <1>2, <1>7 DEF Nested
<1>9. Cause'
  <2>1. ASSUME NEW q \in DOMAIN errCh, NEW i \in 1..Len(errCh'[q]), errCh'[q][i] = "error"
        PROVE  Blame
    <3>0. errCh[q] \in Seq({"ok", "error"})
      BY ChannelsSound
    <3>1. CASE errCh'[q] = errCh[q]
      BY <2>1, <3>1, ChannelsSound
    <3>2. CASE errCh'[q] = Append(errCh[q], call[p].ret)
      <4>1. i \in 1..Len(errCh[q]) \/ i = Len(errCh[q]) + 1
        BY <1>2, <3>0, <3>2, AppendProperties
      <4>2. /\ i \in 1..Len(errCh[q]) => errCh'[q][i] = errCh[q][i]
            /\ i = Len(errCh[q]) + 1 => errCh'[q][i] = call[p].ret
        BY <1>2, <3>0, <3>2, AppendProperties
      <4> QED
        BY <1>2, <2>1, <4>1, <4>2 DEF Cause
    <3> QED
      BY <1>1, <3>1, <3>2 DEF Sends
  <2>2. Blame' = Blame
    BY <1>2 DEF Blame
  <2> QED
    BY <1>2, <2>1, <2>2 DEF Cause
<1>10. OutRight'
  BY <1>2 DEF OutRight, Copied
<1>11. CallerInv'
  BY <1>2, <1>7 DEF CallerInv
<1>12. Slots'
  <2>1. Getting' = Getting
    BY <1>2 DEF Getting, Place
  <2> QED
    BY <1>2, <2>1 DEF Slots
<1> QED
  BY <1>3, <1>4, <1>5, <1>6, <1>8, <1>9, <1>10, <1>11, <1>12 DEF Inv

-----------------------------------------------------------------------------
\* The steps of the caller and of the environment

\* While there is no call, what is said of calls holds.
LEMMA NoCallsInv ==
  ASSUME Inv, DOMAIN call = {}, UNCHANGED <<call, errCh, sem>>, BuildInv', CallerInv'
  PROVE  Inv'
<1>1. /\ CallTypes /\ Slots /\ DOMAIN call' = {} /\ DOMAIN errCh' = {} /\ DOMAIN errCh = {}
  BY DEF Inv, CallTypes
<1>2. CallTypes'
  BY <1>1 DEF CallTypes
<1>3. Slots'
  <2>1. Getting' = Getting
    BY <1>1 DEF Getting
  <2> QED
    BY <1>1, <2>1 DEF Slots
<1> QED
  BY <1>1, <1>2, <1>3 DEF Inv, CallTree, CallsWait, Nested, Cause, OutRight

\* The calls do not see what the caller does, nor that a block is lost.
LEMMA CallsStandInv ==
  ASSUME Inv, UNCHANGED <<file, store, call, errCh, out, sem>>, BuildInv', CallerInv',
         Blame => Blame'
  PROVE  Inv'
<1>1. CallTypes' /\ CallTree' /\ CallsWait' /\ Nested'
  <2>1. CallTypes'
    <3>1. \A p \in DOMAIN call : CallSound(p) => CallSound(p)'
      BY DEF CallSound, Open, Place
    <3> QED
      BY <3>1 DEF Inv, CallTypes
  <2>2. CallTree' /\ Nested'
    BY DEF Inv, CallTree, KidSound, Nested, IsOK
  <2>3. ASSUME NEW p PROVE (Awaits(p) => Awaits(p)') /\ (Counts(p) => Counts(p)')
    <3>1. Busy(p)' = Busy(p)
      BY DEF Busy, Place
    <3> QED
      BY <3>1 DEF Awaits, Counts, IsOK, IsError
  <2>4. CallsWait'
    BY <2>3 DEF Inv, CallsWait, Open
  <2> QED
    BY <2>1, <2>2, <2>4
<1>2. Cause'
  BY DEF Inv, Cause, IsError
<1>3. OutRight'
  BY DEF Inv, OutRight, IsOK, Copied
<1>4. Slots'
  BY DEF Inv, Slots, Getting, Place
<1> QED
  BY <1>1, <1>2, <1>3, <1>4 DEF Inv

\* The builder is not done while it puts blocks, so that no call has been made.
LEMMA BuildStepInv ==
  ASSUME Inv, Build, UNCHANGED fvars
  PROVE  Inv'
<1>1. BuildInv'
  BY BuildNext DEF Inv
<1>2. phase \in {"read", "group"} /\ store \subseteq store'
  BY DEF Build, ReadChunk, EndOfFile, PutNode, PutManifest, BuildFails, Put
<1>3. DOMAIN call = {} /\ fetch = "none" /\ UNCHANGED <<call, errCh, sem, fetch, ctxDone, target>>
  BY <1>2 DEF Inv, CallerInv, fvars
<1>4. CallerInv'
  BY <1>2, <1>3 DEF Inv, CallerInv
<1> QED
  BY <1>1, <1>3, <1>4, NoCallsInv

\* A block is lost.
LEMMA LoseBlockInv ==
  ASSUME Inv, NEW c \in store, LoseBlock(c), UNCHANGED fvars
  PROVE  Inv'
<1>1. BuildInv'
  BY BuildNext DEF Inv
<1>2. UNCHANGED <<file, phase, store, call, errCh, out, sem, fetch, ctxDone, target>>
  BY DEF LoseBlock, fvars
<1>3. CallerInv'
  BY <1>2 DEF Inv, CallerInv, IsOK
<1>4. Blame => Blame'
  BY <1>2 DEF LoseBlock, Blame
<1> QED
  BY <1>1, <1>2, <1>3, <1>4, CallsStandInv

\* A step of the caller that leaves calls and blocks alone.
LEMMA CallerStepInv ==
  ASSUME Inv, UNCHANGED <<bvars, out, sem, call, errCh>>, CallerInv', ctxDone => ctxDone'
  PROVE  Inv'
<1>1. BuildInv'
  BY BuildNext DEF Inv
<1>2. UNCHANGED <<file, store, lost>>
  BY DEF bvars
<1>3. Blame => Blame'
  BY <1>2 DEF Blame
<1> QED
  BY <1>1, <1>2, <1>3, CallsStandInv

\* The caller makes the call for the root, which holds the file.
LEMMA GetManifestInv ==
  ASSUME Inv, GetManifest
  PROVE  Inv'
<1> DEFINE new == NewCall(target.root, 0, target.size)
<1>1. /\ fetch = "manifest" /\ DOMAIN call = {} /\ DOMAIN errCh = {} /\ phase = "done"
      /\ target \in store /\ target.type = "manifest" /\ fetch' = "wait"
      /\ UNCHANGED <<file, phase, store, lost, ctxDone, target, sem, errCh>> /\ UNCHANGED bvars
      /\ sem = Cardinality(Getting) /\ sem <= Parallel /\ ctxDone \in BOOLEAN
  BY DEF GetManifest, Inv, CallerInv, CallTypes, bvars, Slots
<1>2. /\ target.root \in store /\ target.size = Len(file) /\ Len(file) \in Nat
      /\ Holds(file, target.root, 0, Len(file))
  BY <1>1, FileIsSeq DEF Inv, BuildInv, StoreSound
<1>3. /\ new \in CallRecord(store) /\ new.at = "acquire" /\ new.ret = "none" /\ new.child = 1
      /\ new.tasks = 0 /\ new.cid = target.root /\ new.base = 0 /\ new.span = Len(file)
  BY <1>2 DEF NewCall, CallRecord
<1>4. call' = With(call, <<>>, new) /\ out' = [i \in 1..Len(file) |-> Zero]
  BY <1>2 DEF GetManifest
<1> HIDE DEF new
<1>5. DOMAIN call' = {<<>>} /\ call'[<<>>] = new /\ call' = [p \in {<<>>} |-> new]
  BY <1>1, <1>4 DEF With
<1>6. BuildInv'
  BY <1>1, BuildNext DEF Inv
<1>7. CallTypes'
  <2>1. IsFiniteSet({<<>>}) /\ {<<>>} \subseteq Seq(Nat)
    BY FS_Singleton
  <2>2. 0 + Len(file) = Len(file) /\ Fanout \in Nat
    BY <1>2, BuilderAssumption
  <2>3. CallSound(<<>>)'
    BY <1>1, <1>2, <1>3, <1>5, <2>2 DEF CallSound, Open, Place
  <2>4. errCh' \in [DOMAIN errCh' -> Seq({"ok", "error"})]
    BY <1>1, ChannelsSound
  <2> QED
    BY <1>1, <1>3, <1>5, <2>1, <2>3, <2>4 DEF CallTypes
<1>8. CallTree' /\ Nested'
  <2>1. \A i \in Nat : Kid(<<>>, i) # <<>>
    <3>1. <<>> \in Seq(Nat)
      OBVIOUS
    <3> QED
      BY <3>1, KidFacts
  <2> QED
    BY <1>3, <1>5, <2>1 DEF CallTree, Nested
<1>9. CallsWait' /\ Cause'
  BY <1>1, <1>3, <1>5 DEF CallsWait, Cause, Open, IsError
<1>10. OutRight'
  BY <1>1, <1>3, <1>4, <1>5 DEF OutRight, IsOK
<1>11. CallerInv'
  BY <1>1, <1>3, <1>5 DEF CallerInv
<1>12. Slots'
  <2>1. Getting' = Getting
    BY <1>1, <1>3, <1>5 DEF Getting, Place
  <2> QED
    BY <1>1, <2>1 DEF Slots
<1> QED
  BY <1>6, <1>7, <1>8, <1>9, <1>10, <1>11, <1>12 DEF Inv

\* A step of one call.
LEMMA FetchRangeInv ==
  ASSUME Inv, NEW p \in DOMAIN call, FetchRange(p)
  PROVE  Inv'
<1>1. CASE Acquire(p)
  BY <1>1, AcquireInv
<1>2. CASE AcquireCancelled(p)
  BY <1>2, AcquireCancelledInv
<1>3. CASE GetFails(p)
  BY <1>3, GetFailsInv
<1>4. CASE GetLeaf(p)
  BY <1>4, GetLeafInv
<1>5. CASE GetNode(p)
  BY <1>5, GetNodeInv
<1>6. CASE NextChild(p)
  BY <1>6, NextChildInv
<1>7. CASE InlineReturns(p)
  BY <1>7, InlineReturnsInv
<1>8. CASE Collect(p)
  BY <1>8, CollectInv
<1>9. CASE AllCollected(p)
  BY <1>9, AllCollectedInv
<1>10. CASE Send(p)
  BY <1>10, SendInv
<1> QED
  BY <1>1, <1>2, <1>3, <1>4, <1>5, <1>6, <1>7, <1>8, <1>9, <1>10 DEF FetchRange

\* There is nothing yet.
LEMMA FetchInitInv == FetchInit => Inv
<1> SUFFICES ASSUME FetchInit PROVE Inv
  OBVIOUS
<1>1. /\ BuildInit /\ ctxDone = FALSE /\ fetch = "none" /\ target = Leaf(<<>>) /\ sem = 0
      /\ DOMAIN call = {} /\ DOMAIN errCh = {} /\ call = <<>> /\ errCh = <<>>
  BY DEF FetchInit
<1>2. BuildInv
  BY <1>1, BuildInitInv
<1>3. CallTypes
  <2>1. IsFiniteSet({})
    BY FS_EmptySet
  <2> QED
    BY <1>1, <2>1 DEF CallTypes
<1>4. Slots
  <2>1. Getting = {}
    BY <1>1 DEF Getting
  <2> QED
    BY <1>1, <2>1, FS_EmptySet, FetchAssumption DEF Slots
<1>5. CallerInv
  BY <1>1 DEF CallerInv
<1> QED
  BY <1>1, <1>2, <1>3, <1>4, <1>5 DEF Inv, CallTree, CallsWait, Nested, Cause, OutRight

\* Every step keeps the invariant.
LEMMA InvNext == Inv /\ [Next]_vars => Inv'
<1> SUFFICES ASSUME Inv, [Next]_vars PROVE Inv'
  OBVIOUS
<1>1. CASE (Build \/ \E c \in store : LoseBlock(c)) /\ UNCHANGED fvars
  BY <1>1, BuildStepInv, LoseBlockInv
<1>2. ASSUME NEW c \in store, StartFetch(c) PROVE Inv'
  <2>1. CallerInv'
    BY <1>2 DEF Inv, CallerInv, StartFetch, bvars
  <2> QED
    BY <1>2, <2>1, CallerStepInv DEF StartFetch
<1>3. CASE GetManifest
  BY <1>3, GetManifestInv
<1>4. CASE GetManifestFails
  <2>1. CallerInv'
    BY <1>4 DEF Inv, CallerInv, GetManifestFails, bvars
  <2> QED
    BY <1>4, <2>1, CallerStepInv DEF GetManifestFails
<1>5. CASE FetchReturns
  <2>1. <<>> \in DOMAIN call /\ call[<<>>].ret \in {"ok", "error"}
    <3>1. <<>> \in DOMAIN call
      BY <1>5 DEF FetchReturns, Inv, CallerInv
    <3> QED
      BY <1>5, <3>1, InvFacts DEF FetchReturns, CallSound, CallRecord, Place
  <2>2. CallerInv'
    BY <1>5, <2>1 DEF Inv, CallerInv, FetchReturns, IsOK, Place, bvars
  <2> QED
    BY <1>5, <2>2, CallerStepInv DEF FetchReturns
<1>6. CASE FetchCancelled
  <2>1. CallerInv'
    BY <1>6 DEF Inv, CallerInv, FetchCancelled, bvars
  <2> QED
    BY <1>6, <2>1, CallerStepInv DEF FetchCancelled
<1>7. CASE Cancel
  <2>1. CallerInv'
    BY <1>7 DEF Inv, CallerInv, Cancel, IsOK, bvars
  <2> QED
    BY <1>7, <2>1, CallerStepInv DEF Cancel
<1>8. ASSUME NEW p \in DOMAIN call, FetchRange(p) PROVE Inv'
  BY <1>8, FetchRangeInv
<1>9. CASE UNCHANGED vars
  <2>1. UNCHANGED <<bvars, ctxDone, fetch, target, out, sem, call, errCh>>
    BY <1>9 DEF vars, bvars
  <2>2. CallerInv'
    BY <2>1 DEF Inv, CallerInv, IsOK, bvars
  <2> QED
    BY <2>1, <2>2, CallerStepInv
<1> QED
  BY <1>1, <1>2, <1>3, <1>4, <1>5, <1>6, <1>7, <1>8, <1>9 DEF Next, Caller, Over

-----------------------------------------------------------------------------
\* Theorems

(***************************************************************************)
(* The inductive invariant, of which all that follows is a consequence.    *)
(***************************************************************************)
THEOREM Invariance == Spec => []Inv
BY FetchInitInv, InvNext, PTL DEF Spec

\* The invariant has the types.
LEMMA InvTypeOK == Inv => TypeOK
<1> SUFFICES ASSUME Inv PROVE TypeOK
  OBVIOUS
<1>1. /\ phase \in {"read", "group", "done", "failed"} /\ lost \subseteq store
      /\ fetch \in {"none", "manifest", "wait", "ok", "error"} /\ ctxDone \in BOOLEAN
      /\ target \in store \cup {Leaf(<<>>)}
  BY DEF Inv, BuildInv, CallerInv
<1>2. sem \in 0..Parallel /\ sem = Cardinality({p \in DOMAIN call : Place(p, "get")})
  <2>1. IsFiniteSet(Getting)
    BY FS_Subset DEF Inv, CallTypes, Getting
  <2>2. sem = Cardinality(Getting) /\ sem <= Parallel /\ Cardinality(Getting) \in Nat
    BY <2>1, FS_CardinalityType DEF Inv, Slots
  <2>3. sem \in 0..Parallel
    BY <2>2, FetchAssumption
  <2> QED
    BY <2>2, <2>3 DEF Getting
<1>3. ASSUME NEW p \in DOMAIN call
      PROVE  /\ call[p].at \in {"acquire", "get", "loop", "inline", "send", "done"}
             /\ call[p].ret \in {"none", "ok", "error"}
             /\ call[p].cid.type # "data" => call[p].tasks <= Fanout
  BY InvFacts DEF CallRecord, CallSound
<1> QED
  BY <1>1, <1>2, <1>3 DEF TypeOK

(***************************************************************************)
(* BuildFromReader: the blocks of the current and of the next level tile,  *)
(* between them, what has been read, and what was put stays sound.         *)
(***************************************************************************)
THEOREM LevelsAreSound == Spec => []BuildInv
<1>1. Inv => BuildInv
  BY DEF Inv
<1> QED
  BY <1>1, Invariance, PTL

(***************************************************************************)
(* The state of a fetch and of its calls has its types, and a slot of the  *)
(* semaphore is taken exactly while a GetBlock is in progress.             *)
(***************************************************************************)
THEOREM Typing == Spec => []TypeOK
BY Invariance, InvTypeOK, PTL

\* When the root has returned without an error, so has every call.
LEMMA OKBelowRoot ==
  ASSUME Inv, <<>> \in DOMAIN call, IsOK(<<>>)
  PROVE  \A p \in DOMAIN call : IsOK(p)
<1> DEFINE S == {n \in Nat : \A p \in DOMAIN call : Len(p) = n => IsOK(p)}
<1>0. DOMAIN call \subseteq Seq(Nat) /\ CallTree /\ Nested
  BY DEF Inv, CallTypes
<1>1. 0 \in S
  <2>1. \A p \in DOMAIN call : Len(p) = 0 => p = <<>>
    BY <1>0, EmptySeq
  <2> QED
    BY <2>1
<1>2. ASSUME NEW n \in S PROVE n + 1 \in S
  <2> SUFFICES ASSUME NEW p \in DOMAIN call, Len(p) = n + 1 PROVE IsOK(p)
    OBVIOUS
  <2>1. p \in Seq(Nat) /\ p # <<>> /\ n \in Nat
    BY <1>0
  <2>2. /\ Parent(p) \in DOMAIN call /\ Len(p) = Len(Parent(p)) + 1 /\ Parent(p) \in Seq(Nat)
    BY <1>0, <2>1, PathIsKid DEF CallTree
  <2>3. PICK i \in Nat : p = Kid(Parent(p), i)
    BY <2>1, PathIsKid
  <2>4. Len(Parent(p)) = n
    BY <2>1, <2>2
  <2>5. IsOK(Parent(p))
    BY <2>2, <2>4
  <2> HIDE DEF S
  <2> QED
    BY <1>0, <2>2, <2>3, <2>5 DEF Nested, IsOK
<1>3. S = Nat
  <2> HIDE DEF S
  <2>1. S \in SUBSET Nat
    BY DEF S
  <2> QED
    BY <1>1, <1>2, <2>1, SetInduction
<1> SUFFICES ASSUME NEW p \in DOMAIN call PROVE IsOK(p)
  OBVIOUS
<1>4. Len(p) \in S
  <2>1. Len(p) \in Nat
    BY <1>0
  <2> HIDE DEF S
  <2> QED
    BY <1>3, <2>1
<1> QED
  BY <1>4

\* A fetch that returned data has seen its root call return.
LEMMA InvQuiet == Inv => QuietWhenReturned
<1> SUFFICES ASSUME Inv, fetch = "ok" PROVE CallsOver
  BY DEF QuietWhenReturned
<1>1. <<>> \in DOMAIN call /\ IsOK(<<>>)
  BY DEF Inv, CallerInv
<1>2. \A p \in DOMAIN call : IsOK(p)
  BY <1>1, OKBelowRoot
<1> QED
  BY <1>2 DEF CallsOver, Place, IsOK

(***************************************************************************)
(* When FetchParallel returns data, no goroutine it started still runs.    *)
(***************************************************************************)
THEOREM QuietFetch == Spec => []QuietWhenReturned
BY Invariance, InvQuiet, PTL

\* Whoever has a result to send is counted by the call above, which counts no more than its children.
LEMMA InvRoom == Inv => SendsHaveRoom
<1> SUFFICES ASSUME Inv, NEW p \in DOMAIN call, call[p].at = "send", p # <<>>
             PROVE  Len(errCh[Parent(p)]) < Capacity(p)
  BY DEF SendsHaveRoom, Place
<1> DEFINE q == Parent(p)
<1>1. PICK i \in 1..(call[q].child - 1) :
        q \in DOMAIN call /\ q \in DOMAIN errCh /\ p = Kid(q, i) /\ i \in Busy(q)
  BY SenderIsBusy
<1>2. Capacity(p) = Len(call[q].cid.cids)
  BY DEF Capacity
<1> HIDE DEF q
<1>3. /\ call[q].tasks \in Nat /\ call[q].child \in Nat /\ call[q].tasks < call[q].child
      /\ call[q].child <= Len(call[q].cid.cids) + 1 /\ Len(call[q].cid.cids) \in Nat
      /\ errCh[q] \in Seq({"ok", "error"}) /\ Counts(q)
  <2>1. /\ CallSound(q) /\ BuildInv /\ call[q].cid \in store
        /\ call[q].tasks \in Nat /\ call[q].child \in Nat
    BY <1>1, InvFacts
  <2>2. call[q].cid.type = "node" /\ call[q].child <= Len(call[q].cid.cids) + 1
    BY <1>1, <2>1 DEF CallSound
  <2>3. call[q].cid.cids \in Seq(store)
    BY <2>1, <2>2 DEF BuildInv, StoreSound
  <2>4. errCh[q] \in Seq({"ok", "error"}) /\ Counts(q) /\ call[q].tasks < call[q].child
    BY <1>1, <2>1, ChannelsSound DEF Inv, CallsWait, CallSound
  <2> QED
    BY <2>1, <2>2, <2>3, <2>4
<1>4. Cardinality(Busy(q)) \in Nat /\ Cardinality(Busy(q)) # 0
  <2>1. 1 \in Int /\ call[q].child - 1 \in Int
    BY <1>3
  <2>2. IsFiniteSet(1..(call[q].child - 1))
    BY <2>1, FS_Interval
  <2>3. IsFiniteSet(Busy(q))
    BY <2>2, FS_Subset DEF Busy
  <2> QED
    BY <1>1, <2>3, FS_CardinalityType, FS_EmptySet
<1>5. Len(errCh[q]) \in Nat /\ call[q].tasks = Cardinality(Busy(q)) + Len(errCh[q])
  BY <1>3 DEF Counts
<1>6. Len(errCh[q]) < Len(call[q].cid.cids)
  BY <1>3, <1>4, <1>5
<1> QED
  BY <1>2, <1>6 DEF q

(***************************************************************************)
(* The channel of a node has room for the result of every goroutine it     *)
(* started: none waits to send, whoever has returned meanwhile.            *)
(***************************************************************************)
THEOREM SendsNeverBlock == Spec => []SendsHaveRoom
BY Invariance, InvRoom, PTL

\* The add is done when the manifest is put.
LEMMA ManifestNext ==
  ASSUME Inv, [Next]_vars, phase = "done" => \E m \in store : m.type = "manifest"
  PROVE  phase' = "done" => \E m \in store' : m.type = "manifest"
<1>1. CASE UNCHANGED <<phase, store>>
  BY <1>1
<1>2. CASE Build
  <2>1. CASE PutManifest
    <3> DEFINE b == Manifest(cur[1].cid, Len(file))
    <3>1. b \in store' /\ b.type = "manifest"
      BY <2>1 DEF PutManifest, Put, Manifest
    <3> QED
      BY <3>1
  <2>2. CASE ReadChunk \/ EndOfFile \/ PutNode \/ BuildFails
    <3>1. phase' # "done"
      BY <2>2 DEF ReadChunk, EndOfFile, PutNode, BuildFails
    <3> QED
      BY <3>1
  <2> QED
    BY <1>2, <2>1, <2>2 DEF Build
<1>3. Build \/ UNCHANGED <<phase, store>>
  <2>1. CASE \E p \in DOMAIN call : FetchRange(p)
    BY <2>1 DEF FetchRange, Acquire, AcquireCancelled, GetFails, GetLeaf, GetNode, NextChild,
                InlineReturns, Collect, AllCollected, Send, CallUnchanged, bvars
  <2>2. CASE ~(\E p \in DOMAIN call : FetchRange(p))
    BY <2>2 DEF Next, LoseBlock, StartFetch, Caller, GetManifest, GetManifestFails, FetchReturns,
                FetchCancelled, Cancel, Over, vars, bvars
  <2> QED
    BY <2>1, <2>2
<1> QED
  BY <1>1, <1>2, <1>3

(***************************************************************************)
(* A finished add leaves a manifest with the length of the file, and below *)
(* its root the blocks, each put before, whose payloads are the file.      *)
(***************************************************************************)
AddHoldsFile ==
  phase = "done" =>
    \E m \in store : /\ m.type = "manifest" /\ m.size = Len(file)
                     /\ m.root \in store /\ Holds(file, m.root, 0, Len(file))

(***************************************************************************)
(* What BuildFromReader has put when it returns is the file.               *)
(***************************************************************************)
THEOREM AddedFileIsHeld == Spec => []AddHoldsFile
<1> DEFINE Kept == phase = "done" => \E m \in store : m.type = "manifest"
<1>1. FetchInit => Kept
  BY DEF FetchInit, BuildInit
<1>2. Inv /\ Kept /\ [Next]_vars => Kept'
  BY ManifestNext
<1>3. Inv /\ Kept => AddHoldsFile
  BY DEF Inv, BuildInv, StoreSound, AddHoldsFile
<1> QED
  BY <1>1, <1>2, <1>3, Invariance, PTL DEF Spec

-----------------------------------------------------------------------------
\* Refinement

\* The buffer of a finished fetch is the file.
LEMMA OutIsFile ==
  ASSUME Inv, <<>> \in DOMAIN call, IsOK(<<>>)
  PROVE  out = file
<1>1. /\ file \in Seq(Nat) /\ Len(file) \in Nat /\ out = [i \in 1..Len(file) |-> out[i]]
      /\ call[<<>>].base = 0 /\ call[<<>>].span = Len(file)
  BY InvFacts, FileIsSeq DEF Inv, CallerInv
<1>2. \A k \in 1..Len(file) : out[k] = file[k]
  <2>1. Copied(<<>>)
    BY DEF Inv, OutRight, IsOK
  <2>2. 0 + 1 = 1 /\ 0 + Len(file) = Len(file)
    BY <1>1
  <2> QED
    BY <1>1, <2>1, <2>2 DEF Copied
<1>3. file = [i \in 1..Len(file) |-> file[i]]
  BY <1>1
<1> QED
  BY <1>1, <1>2, <1>3

\* The contract starts as the system does.
LEMMA InitImplements == FetchInit => Contract!Init
BY DEF FetchInit, BuildInit, Contract!Init, Leaf

\* A put of the builder: what was missing of its blocks may be there again.
LEMMA PutImplements ==
  ASSUME Inv, ReadChunk \/ EndOfFile \/ PutNode, UNCHANGED fvars
  PROVE  Contract!PutAgain \/ UNCHANGED Contract!vars
<1>1. /\ phase \in {"read", "group"} /\ phase' \in {"read", "group"} /\ lost' \subseteq lost
      /\ UNCHANGED <<file, fetch, target, ctxDone, out>>
  BY DEF ReadChunk, EndOfFile, PutNode, Put, fvars
<1>2. CASE (lost' # {}) = (lost # {})
  BY <1>1, <1>2 DEF Contract!vars
<1>3. CASE lost' = {}
  BY <1>1, <1>3 DEF Contract!PutAgain
<1> QED
  BY <1>1, <1>2, <1>3

\* A step of the builder: no manifest was lost before the last one is put.
LEMMA BuildImplements ==
  ASSUME Inv, Build, UNCHANGED fvars
  PROVE  Contract!Next \/ UNCHANGED Contract!vars
<1>1. CASE ReadChunk \/ EndOfFile \/ PutNode
  BY <1>1, PutImplements DEF Contract!Next
<1>2. CASE PutManifest
  <2> DEFINE b == Manifest(cur[1].cid, Len(file))
  <2>1. /\ phase = "group" /\ phase' = "done" /\ lost' = lost \ {b}
        /\ UNCHANGED <<file, fetch, target, ctxDone, out>>
    BY <1>2 DEF PutManifest, Put, fvars
  <2>2. b \notin lost
    <3>1. b.type = "manifest"
      BY DEF Manifest
    <3> QED
      BY <2>1, <3>1 DEF Inv, BuildInv, StoreSound
  <2>3. lost' = lost
    BY <2>1, <2>2
  <2> QED
    BY <2>1, <2>3 DEF Contract!Next, Contract!AddEnds
<1>3. CASE BuildFails
  BY <1>3 DEF BuildFails, fvars, Contract!Next, Contract!AddEnds
<1> QED
  BY <1>1, <1>2, <1>3 DEF Build

\* Every step is one of the contract, or one it does not see.
LEMMA NextImplements == Inv /\ [Next]_vars => [Contract!Next]_(Contract!vars)
<1> SUFFICES ASSUME Inv, [Next]_vars PROVE Contract!Next \/ UNCHANGED Contract!vars
  OBVIOUS
<1>1. CASE Build /\ UNCHANGED fvars
  BY <1>1, BuildImplements
<1>2. ASSUME NEW c \in store, LoseBlock(c), UNCHANGED fvars
      PROVE  Contract!Next
  <2>1. lost' # {} /\ UNCHANGED <<file, phase, fetch, target, ctxDone, out>>
    BY <1>2 DEF LoseBlock, fvars
  <2> QED
    BY <2>1 DEF Contract!Next, Contract!Damage
<1>3. ASSUME NEW c \in store, StartFetch(c) PROVE Contract!Next
  <2>1. /\ phase = "done" /\ fetch = "none" /\ fetch' = "manifest"
        /\ UNCHANGED <<file, phase, lost, ctxDone, out>>
    BY <1>3 DEF StartFetch, bvars
  <2> QED
    BY <2>1 DEF Contract!Next, Contract!Begin
<1>4. CASE GetManifest
  <2>1. fetch = "manifest" /\ fetch' = "wait" /\ UNCHANGED <<file, phase, lost, ctxDone, target>>
    BY <1>4 DEF GetManifest, bvars
  <2> QED
    BY <2>1 DEF Contract!vars
<1>5. CASE GetManifestFails
  <2>1. /\ fetch = "manifest" /\ fetch' = "error"
        /\ UNCHANGED <<file, phase, lost, ctxDone, target, out>>
        /\ lost # {} \/ target.type # "manifest" \/ ctxDone
    BY <1>5 DEF GetManifestFails, bvars, Inv, CallerInv
  <2> QED
    BY <2>1 DEF Contract!Next, Contract!Fail
<1>6. CASE FetchReturns
  <2>1. /\ fetch = "wait" /\ fetch' = call[<<>>].ret /\ target.type = "manifest"
        /\ <<>> \in DOMAIN call /\ call[<<>>].at = "done"
        /\ UNCHANGED <<file, phase, lost, ctxDone, target, out>>
    BY <1>6 DEF FetchReturns, bvars, Inv, CallerInv, Place
  <2>2. call[<<>>].ret \in {"ok", "error"}
    BY <2>1, InvFacts DEF CallSound, CallRecord, Place
  <2>3. CASE call[<<>>].ret = "ok"
    <3>1. out = file
      BY <2>1, <2>3, OutIsFile DEF IsOK
    <3> QED
      BY <2>1, <2>3, <3>1 DEF Contract!Next, Contract!Succeed
  <2>4. CASE call[<<>>].ret = "error"
    <3>1. ctxDone \/ lost # {}
      BY <2>1, <2>4 DEF Inv, Cause, IsError, Blame
    <3> QED
      BY <2>1, <2>4, <3>1 DEF Contract!Next, Contract!Fail
  <2> QED
    BY <2>2, <2>3, <2>4
<1>7. CASE FetchCancelled
  <2>1. /\ fetch = "wait" /\ fetch' = "error" /\ ctxDone
        /\ UNCHANGED <<file, phase, lost, ctxDone, target, out>>
    BY <1>7 DEF FetchCancelled, bvars
  <2> QED
    BY <2>1 DEF Contract!Next, Contract!Fail
<1>8. CASE Cancel
  <2>1. fetch # "none" /\ ctxDone' = TRUE /\ UNCHANGED <<file, phase, lost, fetch, target, out>>
    BY <1>8 DEF Cancel, bvars
  <2> QED
    BY <2>1 DEF Contract!Next, Contract!GiveUp
<1>9. ASSUME NEW p \in DOMAIN call, FetchRange(p) PROVE UNCHANGED Contract!vars
  <2>1. call[p].at # "done"
    BY <1>9 DEF FetchRange, Acquire, AcquireCancelled, GetFails, GetLeaf, GetNode, NextChild,
                InlineReturns, Collect, Receiving, AllCollected, Send, Place
  <2>2. fetch # "ok"
    BY <2>1, InvQuiet DEF QuietWhenReturned, CallsOver, Place
  <2>3. UNCHANGED <<bvars, ctxDone, fetch, target>>
    BY <1>9 DEF FetchRange, Acquire, AcquireCancelled, GetFails, GetLeaf, GetNode, NextChild,
                InlineReturns, Collect, AllCollected, Send, CallUnchanged
  <2> QED
    BY <2>2, <2>3 DEF bvars, Contract!vars
<1>10. CASE UNCHANGED vars
  BY <1>10 DEF vars, Contract!vars
<1> QED
  BY <1>1, <1>2, <1>3, <1>4, <1>5, <1>6, <1>7, <1>8, <1>9, <1>10 DEF Next, Caller, Over

(***************************************************************************)
(* Adding a file in blocks and fetching it with goroutines implement the   *)
(* contract: a fetch of what the add returned ends with the file, or with  *)
(* an error that the loss of a block or a cancellation explains.           *)
(***************************************************************************)
THEOREM FetchImplementsContract == Spec => ImplementsFileContract
<1>1. FetchInit => Contract!Init
  BY InitImplements
<1>2. Inv /\ [Next]_vars => [Contract!Next]_(Contract!vars)
  BY NextImplements
<1> QED
  BY <1>1, <1>2, Invariance, PTL DEF Spec, ImplementsFileContract, Contract!Spec

-----------------------------------------------------------------------------
\* Sequential reading

(***************************************************************************)
(* The recursive definitions of the two readers, taken apart: what they    *)
(* say of one block, given what g says of the blocks below it.  A reader   *)
(* is a solution g of g = Step(S, g).                                      *)
(***************************************************************************)
VerifyBlock(S, g, c) ==
  [span \in Nat |->
     \/ c.type = "data" /\ Len(c.payload) = span
     \/ /\ c.type = "node" /\ c.size = span
        /\ Len(c.cids) = Len(c.spans)
        /\ \A i \in DOMAIN c.cids : c.cids[i] \in S /\ g[c.cids[i]][c.spans[i]]]

VerifyStep(S, g) == [c \in S |-> VerifyBlock(S, g, c)]

Parts(S, g, c) ==
  [i \in DOMAIN c.cids |-> IF c.cids[i] \in S THEN g[c.cids[i]][c.spans[i]] ELSE ReadError]

ReadBlock(S, g, c) ==
  [span \in Nat |->
     IF c.type = "data" THEN FetchLeaf(c, span)
     ELSE IF c.type = "node" /\ c.size = span /\ Len(c.cids) = Len(c.spans)
     THEN FetchChildren(Parts(S, g, c))
     ELSE ReadError]

ReadStep(S, g) == [c \in S |-> ReadBlock(S, g, c)]

\* The children of c are in S.
Refers(S, c) ==
  c.type = "node" => c.cids \in Seq(S) /\ c.spans \in Seq(Nat) /\ Len(c.spans) = Len(c.cids)

(***************************************************************************)
(* S was put children first: both readers are defined on it, since what    *)
(* they say of a block put later never matters for an earlier one.         *)
(***************************************************************************)
Readable(S) ==
  /\ \A c \in S : Refers(S, c)
  /\ \E g : g = VerifyStep(S, g)
  /\ \E g : g = ReadStep(S, g)

\* Whatever solves the readers' equations accepts and reads what the blocks hold.
ReadsRight(f, S) ==
  \A c \in S : \A x, y : Holds(f, c, x, y) =>
    /\ \A g : g = VerifyStep(S, g) => g[c][y - x]
    /\ \A g : g = ReadStep(S, g) => g[c][y - x] = Bytes(SubSeq(f, x + 1, y))

LEMMA ReaderSolves ==
  ASSUME NEW S, Readable(S)
  PROVE  /\ VerifySubtree(S) = VerifyStep(S, VerifySubtree(S))
         /\ FetchRangeSeq(S) = ReadStep(S, FetchRangeSeq(S))
<1>1. VerifySubtree(S) = CHOOSE g : g = VerifyStep(S, g)
  BY DEF VerifySubtree, VerifyStep, VerifyBlock
<1>2. FetchRangeSeq(S) = CHOOSE g : g = ReadStep(S, g)
  BY DEF FetchRangeSeq, ReadStep, ReadBlock, Parts
<1> QED
  BY <1>1, <1>2 DEF Readable

\* What a reader says of a block depends on its children only.
LEMMA BlockIsLocal ==
  ASSUME NEW S, NEW T, S \subseteq T, NEW c, Refers(S, c), NEW g, NEW h, \A k \in S : g[k] = h[k]
  PROVE  /\ VerifyBlock(S, g, c) = VerifyBlock(T, h, c)
         /\ ReadBlock(S, g, c) = ReadBlock(T, h, c)
<1>1. CASE c.type = "node"
  <2>1. \A i \in DOMAIN c.cids : c.cids[i] \in S /\ c.cids[i] \in T /\ g[c.cids[i]] = h[c.cids[i]]
    BY <1>1 DEF Refers
  <2>2. Parts(S, g, c) = Parts(T, h, c)
    BY <2>1 DEF Parts
  <2>3. ReadBlock(S, g, c) = ReadBlock(T, h, c)
    BY <2>2 DEF ReadBlock
  <2>4. VerifyBlock(S, g, c) = VerifyBlock(T, h, c)
    BY <2>1 DEF VerifyBlock
  <2> QED
    BY <2>3, <2>4
<1>2. CASE c.type # "node"
  BY <1>2 DEF VerifyBlock, ReadBlock
<1> QED
  BY <1>1, <1>2

\* A block whose children are in S can be put, and both readers extended to it.
LEMMA ReadableGrows ==
  ASSUME NEW S, Readable(S), NEW b, Refers(S, b), b \notin S
  PROVE  Readable(S \cup {b})
<1> DEFINE T == S \cup {b}
<1>1. S \subseteq T
  OBVIOUS
<1>2. ASSUME NEW c \in T PROVE Refers(S, c) /\ Refers(T, c)
  <2>1. Refers(S, c)
    BY DEF Readable
  <2>2. Seq(S) \subseteq Seq(T)
    BY <1>1, RowsGrow
  <2> QED
    BY <2>1, <2>2 DEF Refers
<1>3. \E h : h = VerifyStep(T, h)
  <2>1. PICK g : g = VerifyStep(S, g)
    BY DEF Readable
  <2> DEFINE h == [c \in T |-> IF c = b THEN VerifyBlock(S, g, b) ELSE g[c]]
  <2>2. \A k \in S : g[k] = h[k]
    OBVIOUS
  <2> HIDE DEF h
  <2>3. ASSUME NEW c \in T PROVE h[c] = VerifyBlock(T, h, c)
    <3>1. VerifyBlock(S, g, c) = VerifyBlock(T, h, c)
      BY <1>1, <1>2, <2>2, BlockIsLocal
    <3>2. h[c] = VerifyBlock(S, g, c)
      <4>1. CASE c = b
        BY <4>1 DEF h
      <4>2. CASE c \in S
        <5>1. VerifyStep(S, g)[c] = VerifyBlock(S, g, c)
          BY <4>2 DEF VerifyStep
        <5>2. g[c] = VerifyStep(S, g)[c]
          BY <2>1
        <5> QED
          BY <2>2, <4>2, <5>1, <5>2
      <4> QED
        BY <4>1, <4>2
    <3> QED
      BY <3>1, <3>2
  <2>4. h = [c \in T |-> h[c]]
    BY DEF h
  <2>5. h = VerifyStep(T, h)
    <3> HIDE DEF T
    <3> QED
      BY <2>3, <2>4 DEF VerifyStep
  <2> QED
    BY <2>5
<1>4. \E h : h = ReadStep(T, h)
  <2>1. PICK g : g = ReadStep(S, g)
    BY DEF Readable
  <2> DEFINE h == [c \in T |-> IF c = b THEN ReadBlock(S, g, b) ELSE g[c]]
  <2>2. \A k \in S : g[k] = h[k]
    OBVIOUS
  <2> HIDE DEF h
  <2>3. ASSUME NEW c \in T PROVE h[c] = ReadBlock(T, h, c)
    <3>1. ReadBlock(S, g, c) = ReadBlock(T, h, c)
      BY <1>1, <1>2, <2>2, BlockIsLocal
    <3>2. h[c] = ReadBlock(S, g, c)
      <4>1. CASE c = b
        BY <4>1 DEF h
      <4>2. CASE c \in S
        <5>1. ReadStep(S, g)[c] = ReadBlock(S, g, c)
          BY <4>2 DEF ReadStep
        <5>2. g[c] = ReadStep(S, g)[c]
          BY <2>1
        <5> QED
          BY <2>2, <4>2, <5>1, <5>2
      <4> QED
        BY <4>1, <4>2
    <3> QED
      BY <3>1, <3>2
  <2>4. h = [c \in T |-> h[c]]
    BY DEF h
  <2>5. h = ReadStep(T, h)
    <3> HIDE DEF T
    <3> QED
      BY <2>3, <2>4 DEF ReadStep
  <2> QED
    BY <2>5
<1> QED
  BY <1>2, <1>3, <1>4 DEF Readable

\* A reader of more blocks is one of fewer.
LEMMA VerifierRestricts ==
  ASSUME NEW S, \A c \in S : Refers(S, c), NEW T, S \subseteq T, NEW g, NEW h,
         h = [c \in S |-> g[c]], g = VerifyStep(T, g)
  PROVE  h = VerifyStep(S, h)
<1>1. \A k \in S : h[k] = g[k]
  OBVIOUS
<1>2. h = [c \in S |-> h[c]]
  OBVIOUS
<1>3. ASSUME NEW c \in S PROVE h[c] = VerifyBlock(S, h, c)
  <2>1. VerifyBlock(S, h, c) = VerifyBlock(T, g, c)
    BY <1>1, BlockIsLocal
  <2>2. VerifyStep(T, g)[c] = VerifyBlock(T, g, c)
    BY DEF VerifyStep
  <2> QED
    BY <1>1, <2>1, <2>2
<1> QED
  BY <1>2, <1>3 DEF VerifyStep

\* The same of the other reader.
LEMMA ReaderRestricts ==
  ASSUME NEW S, \A c \in S : Refers(S, c), NEW T, S \subseteq T, NEW g, NEW h,
         h = [c \in S |-> g[c]], g = ReadStep(T, g)
  PROVE  h = ReadStep(S, h)
<1>1. \A k \in S : h[k] = g[k]
  OBVIOUS
<1>2. h = [c \in S |-> h[c]]
  OBVIOUS
<1>3. ASSUME NEW c \in S PROVE h[c] = ReadBlock(S, h, c)
  <2>1. ReadBlock(S, h, c) = ReadBlock(T, g, c)
    BY <1>1, BlockIsLocal
  <2>2. ReadStep(T, g)[c] = ReadBlock(T, g, c)
    BY DEF ReadStep
  <2> QED
    BY <1>1, <2>1, <2>2
<1> QED
  BY <1>2, <1>3 DEF ReadStep

\* Two adjoining slices are one.
LEMMA SlicesJoin ==
  ASSUME NEW f \in Seq(Nat), NEW x \in Nat, NEW y \in Nat, NEW z \in Nat,
         x <= y, y <= z, z <= Len(f)
  PROVE  SubSeq(f, x + 1, y) \o SubSeq(f, y + 1, z) = SubSeq(f, x + 1, z)
<1> DEFINE a == SubSeq(f, x + 1, y)
           b == SubSeq(f, y + 1, z)
           c == SubSeq(f, x + 1, z)
<1>0. Len(f) \in Nat /\ x \in 0..Len(f) /\ y \in 0..Len(f) /\ z \in 0..Len(f)
      /\ y \in x..Len(f) /\ z \in y..Len(f) /\ z \in x..Len(f)
  OBVIOUS
<1>1. a \in Seq(Nat) /\ Len(a) = y - x /\ \A i \in 1..(y - x) : a[i] = f[x + i]
  BY <1>0, SliceMembers
<1>2. b \in Seq(Nat) /\ Len(b) = z - y /\ \A i \in 1..(z - y) : b[i] = f[y + i]
  BY <1>0, SliceMembers
<1>3. c \in Seq(Nat) /\ Len(c) = z - x /\ \A i \in 1..(z - x) : c[i] = f[x + i]
  BY <1>0, SliceMembers
<1> HIDE DEF a, b, c
<1>4. /\ a \o b \in Seq(Nat) /\ Len(a \o b) = z - x
      /\ \A i \in 1..(z - x) : (a \o b)[i] = IF i <= y - x THEN a[i] ELSE b[i - (y - x)]
  <2>1. /\ a \o b \in Seq(Nat) /\ Len(a \o b) = Len(a) + Len(b)
        /\ \A i \in 1..(Len(a) + Len(b)) :
             (a \o b)[i] = IF i <= Len(a) THEN a[i] ELSE b[i - Len(a)]
    BY <1>1, <1>2, ConcatProperties
  <2>2. Len(a) + Len(b) = z - x
    BY <1>1, <1>2
  <2> QED
    BY <1>1, <2>1, <2>2
<1>5. ASSUME NEW i \in 1..(z - x) PROVE (a \o b)[i] = c[i]
  <2>1. CASE i <= y - x
    <3>1. i \in 1..(y - x)
      BY <2>1
    <3> QED
      BY <1>1, <1>3, <1>4, <2>1, <3>1
  <2>2. CASE ~(i <= y - x)
    <3>1. i - (y - x) \in 1..(z - y) /\ y + (i - (y - x)) = x + i
      BY <2>2
    <3> QED
      BY <1>2, <1>3, <1>4, <2>2, <3>1
  <2> QED
    BY <2>1, <2>2
<1>6. a \o b = c
  BY <1>3, <1>4, <1>5, SeqEqual
<1> QED
  BY <1>6 DEF a, b, c

\* Parts that are adjoining slices make one slice.
LEMMA PartsJoin ==
  ASSUME NEW f \in Seq(Nat), NEW parts, Len(parts) \in Nat, NEW st \in [0..Len(parts) -> Nat],
         \A i \in 1..Len(parts) : /\ st[i - 1] <= st[i] /\ st[i] <= Len(f)
                                  /\ parts[i] = Bytes(SubSeq(f, st[i - 1] + 1, st[i]))
  PROVE  FetchChildren(parts) = Bytes(SubSeq(f, st[0] + 1, st[Len(parts)]))
<1> DEFINE n == Len(parts)
           x == st[0]
           Step(g) == [i \in 0..n |->
                         IF i = 0 THEN Bytes(<<>>)
                         ELSE IF g[i - 1].ok /\ parts[i].ok
                              THEN Bytes(g[i - 1].bytes \o parts[i].bytes) ELSE ReadError]
           Read(i) == Bytes(SubSeq(f, x + 1, st[i]))
<1>0. /\ n \in Nat /\ x \in Nat /\ \A i \in 0..n : st[i] \in Nat
      /\ \A i \in 1..n : i - 1 \in 0..n /\ i \in 0..n
  <2>1. \A m \in Nat : 0 \in 0..m /\ \A i \in 1..m : i - 1 \in 0..m /\ i \in 0..m
    OBVIOUS
  <2>2. n \in Nat /\ st \in [0..n -> Nat]
    OBVIOUS
  <2> HIDE DEF n
  <2> QED
    BY <2>1, <2>2
<1>1. \A b : Bytes(b).ok /\ Bytes(b).bytes = b
  BY DEF Bytes
<1>2. \A i \in 0..n : x <= st[i]
  <2> DEFINE S == {i \in 0..n : x <= st[i]}
  <2>1. 0 \in S
    BY <1>0
  <2>2. ASSUME NEW i \in S, i < n PROVE i + 1 \in S
    <3>1. i + 1 \in 1..n /\ (i + 1) - 1 = i
      BY <1>0, <2>2
    <3>2. st[i] <= st[i + 1]
      BY <3>1
    <3> QED
      BY <1>0, <3>1, <3>2
  <2>3. S = 0..n
    <3>1. S \in SUBSET (0..n)
      OBVIOUS
    <3> HIDE DEF S
    <3> QED
      BY <1>0, <2>1, <2>2, <3>1, IntervalInduction
  <2> QED
    BY <2>3
<1>3. Read(0) = Bytes(<<>>)
  <2>1. SubSeq(f, x + 1, x) = <<>>
    BY <1>0, SubSeqEmpty
  <2> QED
    BY <2>1
<1>4. ASSUME NEW i \in 1..n PROVE Read(i) = Bytes(Read(i - 1).bytes \o parts[i].bytes)
  <2>1. st[i - 1] \in Nat /\ st[i] \in Nat /\ x <= st[i - 1]
    BY <1>0, <1>2
  <2>2. parts[i].bytes = SubSeq(f, st[i - 1] + 1, st[i]) /\ Read(i - 1).bytes = SubSeq(f, x + 1, st[i - 1])
    BY <1>1
  <2>3. SubSeq(f, x + 1, st[i - 1]) \o SubSeq(f, st[i - 1] + 1, st[i]) = SubSeq(f, x + 1, st[i])
    <3>1. st[i - 1] <= st[i] /\ st[i] <= Len(f) /\ x \in Nat
      BY <1>0
    <3>2. PICK u \in Nat, v \in Nat : u = st[i - 1] /\ v = st[i]
      BY <2>1
    <3>3. x <= u /\ u <= v /\ v <= Len(f)
      BY <2>1, <3>1, <3>2
    <3>4. SubSeq(f, x + 1, u) \o SubSeq(f, u + 1, v) = SubSeq(f, x + 1, v)
      <4> HIDE DEF Read, Step, n
      <4>1. x \in Nat /\ u \in Nat /\ v \in Nat
        BY <3>1
      <4> HIDE DEF x
      <4> QED
        BY <3>3, <4>1, SlicesJoin
    <3> QED
      BY <3>2, <3>4
  <2> QED
    BY <2>2, <2>3
<1>5. \A i \in 0..n : Read(i).ok
  BY <1>1
<1>6. \A i \in 1..n : parts[i].ok
  BY <1>1
<1> HIDE DEF Read
<1>7. \E g : g = Step(g)
  <2> DEFINE g == [i \in 0..n |-> Read(i)]
  <2>1. ASSUME NEW i \in 0..n PROVE g[i] = Step(g)[i]
    <3>1. CASE i = 0
      BY <1>3, <3>1
    <3>2. CASE i # 0
      <4>1. i \in 1..n /\ i - 1 \in 0..n /\ g[i - 1] = Read(i - 1) /\ g[i] = Read(i)
        BY <1>0, <3>2
      <4> QED
        BY <1>4, <1>5, <1>6, <3>2, <4>1
    <3> QED
      BY <3>1, <3>2
  <2>2. g = Step(g)
    <3>1. Step(g) = [i \in 0..n |-> Step(g)[i]] /\ g = [i \in 0..n |-> g[i]]
      OBVIOUS
    <3> HIDE DEF g, Step
    <3> QED
      BY <2>1, <3>1
  <2> QED
    BY <2>2
<1>8. ASSUME NEW g, g = Step(g) PROVE g[n] = Read(n)
  <2>1. g[0] = Bytes(<<>>)
    <3>1. Step(g)[0] = Bytes(<<>>)
      BY <1>0
    <3> HIDE DEF Step
    <3> QED
      BY <1>8, <3>1
  <2>2. ASSUME NEW i \in 1..n, g[i - 1] = Read(i - 1) PROVE g[i] = Read(i)
    <3>1. Step(g)[i] = IF g[i - 1].ok /\ parts[i].ok
                       THEN Bytes(g[i - 1].bytes \o parts[i].bytes) ELSE ReadError
      BY <1>0
    <3> HIDE DEF Step
    <3>2. g[i] = Step(g)[i]
      BY <1>8
    <3> QED
      BY <1>0, <1>4, <1>5, <1>6, <2>2, <3>1, <3>2
  <2> DEFINE S == {i \in 0..n : g[i] = Read(i)}
  <2>3. 0 \in S
    BY <1>0, <1>3, <2>1
  <2>4. ASSUME NEW i \in S, i < n PROVE i + 1 \in S
    <3>1. i + 1 \in 1..n /\ (i + 1) - 1 = i
      BY <1>0, <2>4
    <3> QED
      BY <1>0, <2>2, <3>1
  <2>5. S = 0..n
    <3>1. S \in SUBSET (0..n)
      OBVIOUS
    <3> HIDE DEF S
    <3> QED
      BY <1>0, <2>3, <2>4, <3>1, IntervalInduction
  <2> QED
    BY <1>0, <2>5
<1>9. FetchChildren(parts) = (CHOOSE g : g = Step(g))[n]
  BY DEF FetchChildren
<1> HIDE DEF Step
<1>10. FetchChildren(parts) = Read(n)
  BY <1>7, <1>8, <1>9
<1> QED
  BY <1>10 DEF Read

\* The readers read what a block holds, once it and its children are put.
LEMMA ReadsRightGrows ==
  ASSUME NEW f \in Seq(Nat), NEW S, Readable(S), ReadsRight(f, S), NEW b, Refers(S, b), b \notin S
  PROVE  ReadsRight(f, S \cup {b})
<1> DEFINE T == S \cup {b}
<1>1. S \subseteq T /\ \A c \in S : Refers(S, c)
  BY DEF Readable
<1> SUFFICES ASSUME NEW c \in T, NEW x, NEW y, Holds(f, c, x, y)
             PROVE  /\ \A g : g = VerifyStep(T, g) => g[c][y - x]
                    /\ \A g : g = ReadStep(T, g) => g[c][y - x] = Bytes(SubSeq(f, x + 1, y))
  BY DEF ReadsRight
<1>2. x \in Nat /\ y \in Nat /\ x <= y /\ y <= Len(f) /\ y - x \in Nat /\ Len(f) \in Nat
  <2>1. x \in Nat /\ y \in Nat /\ x <= y /\ y <= Len(f)
    BY HoldsSlice
  <2> QED
    BY <2>1
<1>3. CASE c \in S
  <2>1. ASSUME NEW g, g = VerifyStep(T, g) PROVE g[c][y - x]
    <3>0. PICK h : h = [k \in S |-> g[k]]
      OBVIOUS
    <3>1. h = VerifyStep(S, h)
      BY <1>1, <2>1, <3>0, VerifierRestricts
    <3>2. h[c][y - x]
      BY <1>3, <3>1 DEF ReadsRight
    <3> QED
      BY <1>3, <3>0, <3>2
  <2>2. ASSUME NEW g, g = ReadStep(T, g) PROVE g[c][y - x] = Bytes(SubSeq(f, x + 1, y))
    <3>0. PICK h : h = [k \in S |-> g[k]]
      OBVIOUS
    <3>1. h = ReadStep(S, h)
      BY <1>1, <2>2, <3>0, ReaderRestricts
    <3>2. h[c][y - x] = Bytes(SubSeq(f, x + 1, y))
      BY <1>3, <3>1 DEF ReadsRight
    <3> QED
      BY <1>3, <3>0, <3>2
  <2> QED
    BY <2>1, <2>2
<1>4. CASE c = b /\ c.type = "data"
  <2>1. c.payload = SubSeq(f, x + 1, y) /\ Len(c.payload) = y - x /\ c.payload \in Seq(Nat)
    <3>1. c.payload = SubSeq(f, x + 1, y)
      BY <1>4, HoldsSlice
    <3>2. x \in 0..Len(f) /\ y \in x..Len(f)
      BY <1>2
    <3>3. SubSeq(f, x + 1, y) \in Seq(Nat) /\ Len(SubSeq(f, x + 1, y)) = y - x
      BY <3>2, SliceMembers
    <3> QED
      BY <3>1, <3>3
  <2>2. ASSUME NEW g, g = VerifyStep(T, g) PROVE g[c][y - x]
    <3>1. VerifyStep(T, g)[c] = VerifyBlock(T, g, c)
      BY DEF VerifyStep
    <3>2. VerifyBlock(T, g, c)[y - x]
      BY <1>2, <1>4, <2>1 DEF VerifyBlock
    <3> QED
      BY <2>2, <3>1, <3>2
  <2>3. ASSUME NEW g, g = ReadStep(T, g) PROVE g[c][y - x] = Bytes(SubSeq(f, x + 1, y))
    <3>1. ReadStep(T, g)[c] = ReadBlock(T, g, c)
      BY DEF ReadStep
    <3>2. ReadBlock(T, g, c)[y - x] = FetchLeaf(c, y - x)
      BY <1>2, <1>4 DEF ReadBlock
    <3>3. FetchLeaf(c, y - x) = Bytes(c.payload)
      <4>1. SubSeq(c.payload, 1, Len(c.payload)) = c.payload
        BY <2>1, SubSeqFull
      <4>2. ~(Len(c.payload) < y - x)
        BY <1>2, <2>1
      <4> QED
        BY <2>1, <4>1, <4>2 DEF FetchLeaf
    <3> QED
      BY <2>1, <2>3, <3>1, <3>2, <3>3
  <2> QED
    BY <2>2, <2>3
<1>5. CASE c = b /\ c.type = "node"
  <2>1. /\ c.cids \in Seq(S) /\ c.spans \in Seq(Nat) /\ Len(c.spans) = Len(c.cids)
        /\ Len(c.cids) \in Nat /\ DOMAIN c.cids = 1..Len(c.cids)
        /\ \A i \in 1..Len(c.cids) : c.cids[i] \in S /\ c.cids[i] \in T
    <3>1. c.cids \in Seq(S) /\ c.spans \in Seq(Nat) /\ Len(c.spans) = Len(c.cids)
      BY <1>5 DEF Refers
    <3>2. \A i \in 1..Len(c.cids) : c.cids[i] \in S
      BY <3>1, ElementOfSeq
    <3> QED
      BY <3>1, <3>2
  <2>2. PICK R : Sliced(f, R) /\ <<c, x, y>> \in R
    BY DEF Holds
  <2>3. PICK st : /\ Adjoining(st, Kids(c), x, y)
                  /\ \A i \in 1..Len(c.cids) : <<c.cids[i], st[i - 1], st[i]>> \in R
    BY <1>5, <2>2 DEF Sliced
  <2>4. c.size = y - x
    BY <1>5, <2>2 DEF Sliced
  <2>5. Len(Kids(c)) = Len(c.cids) /\ \A i \in 1..Len(c.cids) : Kids(c)[i].span = c.spans[i]
    BY <2>1 DEF Kids, Pair
  <2>6. /\ st \in [0..Len(c.cids) -> Nat] /\ st[0] = x /\ st[Len(c.cids)] = y
        /\ \A i \in 1..Len(c.cids) : st[i] = st[i - 1] + c.spans[i]
    BY <2>3, <2>5 DEF Adjoining
  <2>7. ASSUME NEW i \in 1..Len(c.cids)
        PROVE  /\ Holds(f, c.cids[i], st[i - 1], st[i])
               /\ st[i - 1] \in Nat /\ st[i] \in Nat /\ st[i - 1] <= st[i] /\ st[i] <= Len(f)
               /\ c.spans[i] = st[i] - st[i - 1]
    <3>1. Holds(f, c.cids[i], st[i - 1], st[i])
      BY <2>2, <2>3 DEF Holds
    <3>2. st[i - 1] \in Nat /\ st[i] \in Nat /\ st[i - 1] <= st[i] /\ st[i] <= Len(f)
      BY <3>1, HoldsSlice
    <3>3. c.spans[i] \in Nat
      BY <2>1, ElementOfSeq
    <3>4. st[i] = st[i - 1] + c.spans[i]
      BY <2>6
    <3> QED
      BY <3>1, <3>2, <3>3, <3>4
  <2>8. ASSUME NEW g, g = VerifyStep(T, g) PROVE g[c][y - x]
    <3>0. PICK h : h = [k \in S |-> g[k]]
      OBVIOUS
    <3>1. h = VerifyStep(S, h)
      BY <1>1, <2>8, <3>0, VerifierRestricts
    <3>2. \A k \in S : h[k] = g[k]
      BY <3>0
    <3>3. ASSUME NEW i \in 1..Len(c.cids) PROVE g[c.cids[i]][c.spans[i]]
      <4>1. h[c.cids[i]][st[i] - st[i - 1]]
        BY <2>1, <2>7, <3>1 DEF ReadsRight
      <4> QED
        BY <2>1, <2>7, <3>2, <4>1
    <3>4. VerifyStep(T, g)[c] = VerifyBlock(T, g, c)
      BY DEF VerifyStep
    <3>5. VerifyBlock(T, g, c)[y - x]
      <4> HIDE DEF T
      <4> QED
        BY <1>2, <1>5, <2>1, <2>4, <3>3 DEF VerifyBlock
    <3> QED
      BY <2>8, <3>4, <3>5
  <2>9. ASSUME NEW g, g = ReadStep(T, g) PROVE g[c][y - x] = Bytes(SubSeq(f, x + 1, y))
    <3> DEFINE parts == Parts(T, g, c)
    <3>0. PICK h : h = [k \in S |-> g[k]]
      OBVIOUS
    <3>1. h = ReadStep(S, h)
      BY <1>1, <2>9, <3>0, ReaderRestricts
    <3>2. \A k \in S : h[k] = g[k]
      BY <3>0
    <3>3. Len(parts) = Len(c.cids)
      BY <2>1 DEF Parts
    <3>4. ASSUME NEW i \in 1..Len(c.cids)
          PROVE  parts[i] = Bytes(SubSeq(f, st[i - 1] + 1, st[i]))
      <4>1. h[c.cids[i]][st[i] - st[i - 1]] = Bytes(SubSeq(f, st[i - 1] + 1, st[i]))
        BY <2>1, <2>7, <3>1 DEF ReadsRight
      <4>2. parts[i] = g[c.cids[i]][c.spans[i]]
        BY <2>1 DEF Parts
      <4> QED
        BY <2>1, <2>7, <3>2, <4>1, <4>2
    <3> HIDE DEF parts
    <3>5. FetchChildren(parts) = Bytes(SubSeq(f, st[0] + 1, st[Len(parts)]))
      BY <2>1, <2>6, <2>7, <3>3, <3>4, PartsJoin
    <3>6. ReadStep(T, g)[c] = ReadBlock(T, g, c)
      BY DEF ReadStep
    <3>7. ReadBlock(T, g, c)[y - x] = FetchChildren(parts)
      BY <1>2, <1>5, <2>1, <2>4 DEF ReadBlock, parts
    <3> QED
      BY <2>6, <2>9, <3>3, <3>5, <3>6, <3>7
  <2> QED
    BY <2>8, <2>9
<1>6. c.type \in {"data", "node"}
  BY HoldsSlice
<1> QED
  BY <1>3, <1>4, <1>5, <1>6

\* The sequential readers accept, and read, what a block holds.
LEMMA HeldIsRead ==
  ASSUME NEW f, NEW S, Readable(S), ReadsRight(f, S), NEW c \in S, NEW x, NEW y, Holds(f, c, x, y)
  PROVE  /\ VerifySubtree(S)[c][y - x]
         /\ FetchRangeSeq(S)[c][y - x] = Bytes(SubSeq(f, x + 1, y))
BY ReaderSolves DEF ReadsRight

\* Rows of adjoining slices, one after the other.
LEMMA TilesJoin ==
  ASSUME NEW f, NEW S, NEW a \in Rows(S), NEW b \in Rows(S), NEW x, NEW y, NEW z,
         Tiles(f, a, x, y), Tiles(f, b, y, z)
  PROVE  a \o b \in Rows(S) /\ Tiles(f, a \o b, x, z)
<1>1. PICK s : /\ Adjoining(s, a, x, y)
               /\ \A i \in 1..Len(a) : Holds(f, a[i].cid, s[i - 1], s[i])
  BY DEF Tiles
<1>2. PICK t : /\ Adjoining(t, b, y, z)
               /\ \A i \in 1..Len(b) : Holds(f, b[i].cid, t[i - 1], t[i])
  BY DEF Tiles
<1> DEFINE n == Len(a)
           m == Len(b)
           c == a \o b
           st == [i \in 0..(n + m) |-> IF i <= n THEN s[i] ELSE t[i - n]]
<1>3. n \in Nat /\ m \in Nat
  BY DEF Rows
<1>4. /\ c \in Rows(S) /\ Len(c) = n + m
      /\ \A i \in 1..(n + m) : c[i] = IF i <= n THEN a[i] ELSE b[i - n]
  BY ConcatProperties DEF Rows
<1>5. /\ s \in [0..n -> Nat] /\ s[0] = x /\ s[n] = y
      /\ \A i \in 1..n : s[i] = s[i - 1] + a[i].span
  BY <1>1 DEF Adjoining
<1>6. /\ t \in [0..m -> Nat] /\ t[0] = y /\ t[m] = z
      /\ \A i \in 1..m : t[i] = t[i - 1] + b[i].span
  BY <1>2 DEF Adjoining
<1> HIDE DEF n, m, c
<1>7. st \in [0..(n + m) -> Nat] /\ st[0] = x /\ st[n + m] = z
  <2>1. st \in [0..(n + m) -> Nat]
    <3>1. ASSUME NEW i \in 0..(n + m) PROVE (IF i <= n THEN s[i] ELSE t[i - n]) \in Nat
      <4>1. CASE i <= n
        BY <1>3, <1>5, <4>1
      <4>2. CASE ~(i <= n)
        BY <1>3, <1>6, <4>2
      <4> QED
        BY <4>1, <4>2
    <3> QED
      BY <3>1
  <2>2. st[0] = x
    BY <1>3, <1>5
  <2>3. st[n + m] = z
    <3>1. CASE m = 0
      BY <1>3, <1>5, <1>6, <3>1
    <3>2. CASE m # 0
      <4>1. ~(n + m <= n) /\ (n + m) - n = m /\ n + m \in 0..(n + m)
        BY <1>3, <3>2
      <4> QED
        BY <1>6, <4>1
    <3> QED
      BY <3>1, <3>2
  <2> QED
    BY <2>1, <2>2, <2>3
<1>8. ASSUME NEW i \in 1..(n + m)
      PROVE  st[i] = st[i - 1] + c[i].span /\ Holds(f, c[i].cid, st[i - 1], st[i])
  <2>1. CASE i <= n
    <3>1. i \in 1..n /\ st[i] = s[i] /\ st[i - 1] = s[i - 1] /\ c[i] = a[i]
      BY <1>3, <1>4, <2>1
    <3> HIDE DEF st
    <3> QED
      BY <1>1, <1>5, <3>1 DEF n
  <2>2. CASE ~(i <= n)
    <3>1. i - n \in 1..m /\ (i - n) - 1 \in 0..m /\ c[i] = b[i - n]
      BY <1>3, <1>4, <2>2
    <3>2. st[i] = t[i - n]
      BY <2>2
    <3>3. st[i - 1] = t[(i - n) - 1]
      <4>1. CASE i - 1 = n
        <5>1. (i - n) - 1 = 0 /\ i - 1 \in 0..(n + m) /\ i - 1 <= n
          BY <1>3, <4>1
        <5> QED
          BY <1>5, <1>6, <4>1, <5>1
      <4>2. CASE i - 1 # n
        <5>1. ~(i - 1 <= n) /\ i - 1 \in 0..(n + m) /\ (i - 1) - n = (i - n) - 1
          BY <1>3, <2>2, <4>2
        <5> QED
          BY <5>1
      <4> QED
        BY <4>1, <4>2
    <3> HIDE DEF st
    <3>4. t[i - n] = t[(i - n) - 1] + b[i - n].span
      BY <1>6, <3>1
    <3>5. Holds(f, b[i - n].cid, t[(i - n) - 1], t[i - n])
      BY <1>2, <3>1 DEF m
    <3> QED
      BY <3>1, <3>2, <3>3, <3>4, <3>5
  <2> QED
    BY <2>1, <2>2
<1>9. Adjoining(st, c, x, z)
  <2> HIDE DEF st
  <2> QED
    BY <1>4, <1>7, <1>8 DEF Adjoining
<1> HIDE DEF st
<1>10. Tiles(f, c, x, z)
  BY <1>4, <1>8, <1>9 DEF Tiles
<1> QED
  BY <1>4, <1>10 DEF c

\* What a row tiles is what the readers find in it.
LEMMA RowIsRead ==
  ASSUME NEW f \in Seq(Nat), NEW S, Readable(S), ReadsRight(f, S),
         NEW row \in Rows(S), NEW x, NEW y, Tiles(f, row, x, y)
  PROVE  /\ \A i \in DOMAIN row : VerifySubtree(S)[row[i].cid][row[i].span]
         /\ FetchChildren([i \in DOMAIN row |-> FetchRangeSeq(S)[row[i].cid][row[i].span]])
              = Bytes(SubSeq(f, x + 1, y))
<1>1. PICK st : /\ Adjoining(st, row, x, y)
                /\ \A i \in 1..Len(row) : Holds(f, row[i].cid, st[i - 1], st[i])
  BY DEF Tiles
<1>2. /\ Len(row) \in Nat /\ DOMAIN row = 1..Len(row)
      /\ \A i \in 1..Len(row) : row[i].cid \in S /\ row[i].span \in Nat
  BY RowMember
<1>3. /\ st \in [0..Len(row) -> Nat] /\ st[0] = x /\ st[Len(row)] = y
      /\ \A i \in 1..Len(row) : st[i] = st[i - 1] + row[i].span
  BY <1>1 DEF Adjoining
<1>4. ASSUME NEW i \in 1..Len(row)
      PROVE  /\ st[i - 1] <= st[i] /\ st[i] <= Len(f) /\ row[i].span = st[i] - st[i - 1]
             /\ VerifySubtree(S)[row[i].cid][row[i].span]
             /\ FetchRangeSeq(S)[row[i].cid][row[i].span] = Bytes(SubSeq(f, st[i - 1] + 1, st[i]))
  <2>1. Holds(f, row[i].cid, st[i - 1], st[i]) /\ row[i].cid \in S
    BY <1>1, <1>2
  <2>2. st[i - 1] \in Nat /\ st[i] \in Nat /\ st[i - 1] <= st[i] /\ st[i] <= Len(f)
    BY <2>1, HoldsSlice
  <2>3. row[i].span = st[i] - st[i - 1]
    <3>1. st[i] = st[i - 1] + row[i].span /\ row[i].span \in Nat
      BY <1>2, <1>3
    <3> QED
      BY <2>2, <3>1
  <2>4. \A u, v : Holds(f, row[i].cid, u, v) =>
          /\ VerifySubtree(S)[row[i].cid][v - u]
          /\ FetchRangeSeq(S)[row[i].cid][v - u] = Bytes(SubSeq(f, u + 1, v))
    BY <2>1, HeldIsRead
  <2>5. /\ VerifySubtree(S)[row[i].cid][st[i] - st[i - 1]]
        /\ FetchRangeSeq(S)[row[i].cid][st[i] - st[i - 1]] = Bytes(SubSeq(f, st[i - 1] + 1, st[i]))
    BY <2>1, <2>4
  <2> QED
    BY <2>2, <2>3, <2>5
<1> DEFINE parts == [i \in DOMAIN row |-> FetchRangeSeq(S)[row[i].cid][row[i].span]]
<1>5. Len(parts) = Len(row) /\ \A i \in 1..Len(row) : parts[i] = Bytes(SubSeq(f, st[i - 1] + 1, st[i]))
  BY <1>2, <1>4
<1> HIDE DEF parts
<1>6. FetchChildren(parts) = Bytes(SubSeq(f, st[0] + 1, st[Len(parts)]))
  <2>1. Len(parts) \in Nat /\ st \in [0..Len(parts) -> Nat]
    BY <1>2, <1>3, <1>5
  <2>2. \A i \in 1..Len(parts) : /\ st[i - 1] <= st[i] /\ st[i] <= Len(f)
                                 /\ parts[i] = Bytes(SubSeq(f, st[i - 1] + 1, st[i]))
    BY <1>4, <1>5
  <2> QED
    BY <2>1, <2>2, PartsJoin
<1>7. FetchChildren(parts) = Bytes(SubSeq(f, x + 1, y))
  BY <1>3, <1>5, <1>6
<1>8. \A i \in DOMAIN row : VerifySubtree(S)[row[i].cid][row[i].span]
  BY <1>2, <1>4
<1> QED
  BY <1>7, <1>8 DEF parts

(***************************************************************************)
(* Everything put so far can be read, and is read as what it holds.        *)
(***************************************************************************)
ReadersInv == Readable(store) /\ ReadsRight(file, store)

\* Before anything is put there is nothing to read.
LEMMA ReadersInit == BuildInit => ReadersInv
<1> SUFFICES ASSUME BuildInit PROVE ReadersInv
  OBVIOUS
<1>1. store = {}
  BY DEF BuildInit
<1>2. ASSUME NEW g, g = [c \in {} |-> 0]
      PROVE  g = VerifyStep({}, g) /\ g = ReadStep({}, g)
  <2>1. VerifyStep({}, g) = g
    BY <1>2 DEF VerifyStep
  <2>2. ReadStep({}, g) = g
    BY <1>2 DEF ReadStep
  <2> QED
    BY <2>1, <2>2
<1>3. Readable({})
  BY <1>2 DEF Readable
<1>4. ReadsRight(file, {})
  BY DEF ReadsRight
<1> QED
  BY <1>1, <1>3, <1>4 DEF ReadersInv

\* A node is put after its children.
LEMMA NodeRefers ==
  ASSUME NEW S, NEW row \in Rows(S), NEW n \in Nat
  PROVE  Refers(S, Node(First(n, row)))
<1> DEFINE k == IF n < Len(row) THEN n ELSE Len(row)
           T == [cid : S, span : Nat]
           group == First(n, row)
           b == Node(group)
<1>1. group \in Rows(S)
  <2> HIDE DEF T
  <2>1. row \in Seq(T) /\ Len(row) \in Nat
    BY DEF Rows, T
  <2>2. 0 \in 0..Len(row) /\ k \in 0..Len(row) /\ 0 + 1 = 1
    BY <2>1
  <2> HIDE DEF k
  <2>3. SubSeq(row, 1, k) \in Seq(T)
    BY <2>1, <2>2, SliceMembers
  <2> QED
    BY <2>3 DEF First, Rows, T, k
<1> HIDE DEF group
<1>2. /\ b.cids = [i \in DOMAIN group |-> group[i].cid]
      /\ b.spans = [i \in DOMAIN group |-> group[i].span]
  BY DEF Node
<1>3. /\ Len(group) \in Nat /\ DOMAIN group = 1..Len(group)
      /\ \A i \in 1..Len(group) : group[i].cid \in S /\ group[i].span \in Nat
  BY <1>1, RowMember
<1> HIDE DEF b
<1>4. b.cids \in Seq(S) /\ b.spans \in Seq(Nat) /\ Len(b.spans) = Len(b.cids)
  BY <1>2, <1>3
<1>5. Refers(S, b)
  BY <1>4 DEF Refers
<1> QED
  BY <1>5 DEF b, group

\* The builder puts one block at a time, after those it refers to.
LEMMA PutsInOrder ==
  ASSUME BuildInv, Build
  PROVE  file' = file /\ (store' = store \/ \E b : Refers(store, b) /\ store' = store \cup {b})
<1>1. CASE ReadChunk
  <2>1. Refers(store, Leaf(First(ChunkSize, rest)))
    BY DEF Refers, Leaf
  <2> QED
    BY <1>1, <2>1 DEF ReadChunk, Put
<1>2. CASE EndOfFile
  <2>1. Refers(store, Leaf(<<>>))
    BY DEF Refers, Leaf
  <2> QED
    BY <1>2, <2>1 DEF EndOfFile, Put
<1>3. CASE PutNode
  <2>1. cur \in Rows(store) /\ Fanout \in Nat
    BY BuilderAssumption DEF BuildInv, LevelsHold
  <2>2. Refers(store, Node(First(Fanout, cur)))
    BY <2>1, NodeRefers
  <2> QED
    BY <1>3, <2>2 DEF PutNode, Put
<1>4. CASE PutManifest
  <2>1. Refers(store, Manifest(cur[1].cid, Len(file)))
    BY DEF Refers, Manifest
  <2> QED
    BY <1>4, <2>1 DEF PutManifest, Put
<1>5. CASE BuildFails
  BY <1>5 DEF BuildFails
<1> QED
  BY <1>1, <1>2, <1>3, <1>4, <1>5 DEF Build

\* Only the builder puts blocks.
LEMMA ReadersNext == BuildInv /\ ReadersInv /\ [Next]_vars => ReadersInv'
<1> SUFFICES ASSUME BuildInv, ReadersInv, [Next]_vars PROVE ReadersInv'
  OBVIOUS
<1>1. CASE Build
  <2>1. CASE file' = file /\ store' = store
    BY <2>1 DEF ReadersInv
  <2>2. CASE \E b : Refers(store, b) /\ b \notin store /\ file' = file /\ store' = store \cup {b}
    <3>1. PICK b : Refers(store, b) /\ b \notin store /\ file' = file /\ store' = store \cup {b}
      BY <2>2
    <3>2. file \in Seq(Nat)
      BY FileIsSeq DEF BuildInv
    <3>3. Readable(store \cup {b})
      BY <3>1, ReadableGrows DEF ReadersInv
    <3>4. ReadsRight(file, store \cup {b})
      BY <3>1, <3>2, ReadsRightGrows DEF ReadersInv
    <3> QED
      BY <3>1, <3>3, <3>4 DEF ReadersInv
  <2> QED
    <3>1. \A b \in store : store \cup {b} = store
      OBVIOUS
    <3> QED
      BY <1>1, <2>1, <2>2, <3>1, PutsInOrder
<1>2. Build \/ UNCHANGED <<file, store>>
  <2>1. CASE \E p \in DOMAIN call : FetchRange(p)
    BY <2>1 DEF FetchRange, Acquire, AcquireCancelled, GetFails, GetLeaf, GetNode, NextChild,
                InlineReturns, Collect, AllCollected, Send, CallUnchanged, bvars
  <2>2. CASE ~(\E p \in DOMAIN call : FetchRange(p))
    BY <2>2 DEF Next, LoseBlock, StartFetch, Caller, GetManifest, GetManifestFails, FetchReturns,
                FetchCancelled, Cancel, Over, vars, bvars
  <2> QED
    BY <2>1, <2>2
<1>3. CASE UNCHANGED <<file, store>>
  BY <1>3 DEF ReadersInv
<1> QED
  BY <1>1, <1>2, <1>3

\* The levels, as the readers see them.
LEMMA LevelsRead == BuildInv /\ ReadersInv => LevelsHoldFile
<1> SUFFICES ASSUME BuildInv, ReadersInv, phase \in {"read", "group"}
             PROVE  /\ LevelBytes(next \o cur) = Bytes(SubSeq(file, 1, Len(file) - Len(rest)))
                    /\ \A i \in DOMAIN cur : VerifySubtree(store)[cur[i].cid][cur[i].span]
  BY DEF LevelsHoldFile
<1>1. file \in Seq(Nat) /\ Len(file) \in Nat /\ next \in Rows(store) /\ cur \in Rows(store)
  BY FileIsSeq DEF BuildInv, LevelsHold
<1>2. PICK n \in 0..Len(file) : ReadTo(n)
  BY DEF BuildInv, LevelsHold
<1>3. PICK z \in Nat : Tiles(file, next, 0, z) /\ Tiles(file, cur, z, n)
  BY <1>2 DEF ReadTo
<1>4. next \o cur \in Rows(store) /\ Tiles(file, next \o cur, 0, n)
  BY <1>1, <1>3, TilesJoin
<1>5. LevelBytes(next \o cur) = Bytes(SubSeq(file, 0 + 1, n))
  <2> DEFINE row == next \o cur
  <2>1. row \in Rows(store) /\ Tiles(file, row, 0, n) /\ Readable(store) /\ ReadsRight(file, store)
    BY <1>4 DEF ReadersInv
  <2> HIDE DEF row
  <2>2. FetchChildren([i \in DOMAIN row |-> FetchRangeSeq(store)[row[i].cid][row[i].span]])
          = Bytes(SubSeq(file, 0 + 1, n))
    BY <1>1, <2>1, RowIsRead
  <2> QED
    BY <2>2 DEF LevelBytes, row
<1>6. \A i \in DOMAIN cur : VerifySubtree(store)[cur[i].cid][cur[i].span]
  BY <1>1, <1>3, RowIsRead DEF ReadersInv
<1>7. Len(file) - Len(rest) = n
  <2>1. Len(rest) = Len(file) - n
    BY <1>1, <1>2, TailMembers DEF ReadTo, Left
  <2> QED
    BY <1>1, <2>1
<1> QED
  BY <1>5, <1>6, <1>7

\* A manifest of the store is that of the file.
LEMMA ManifestIsRead ==
  ASSUME BuildInv, ReadersInv, NEW m \in store, m.type = "manifest"
  PROVE  Verify(store, m) /\ Fetch(store, m) = Bytes(file)
<1>1. m.root \in store /\ m.size = Len(file) /\ Holds(file, m.root, 0, Len(file))
  BY DEF BuildInv, StoreSound
<1>2. file \in Seq(Nat) /\ Len(file) - 0 = Len(file) /\ 0 + 1 = 1
  BY FileIsSeq DEF BuildInv
<1>3. /\ VerifySubtree(store)[m.root][Len(file) - 0]
      /\ FetchRangeSeq(store)[m.root][Len(file) - 0] = Bytes(SubSeq(file, 0 + 1, Len(file)))
  BY <1>1, HeldIsRead DEF ReadersInv
<1>4. SubSeq(file, 1, Len(file)) = file
  BY <1>2, SubSeqFull
<1>5. VerifySubtree(store)[m.root][m.size] /\ FetchRangeSeq(store)[m.root][m.size] = Bytes(file)
  BY <1>1, <1>2, <1>3, <1>4
<1> QED
  BY <1>1, <1>5 DEF Verify, Fetch

(***************************************************************************)
(* BuildFromReader: while the levels are built, fetchRangeSeq finds in the *)
(* blocks without a parent what has been read of the file, in order, and   *)
(* verifySubtree accepts each with its span, whatever the file.            *)
(***************************************************************************)
THEOREM LevelsAreRead == Spec => []LevelsHoldFile
<1>1. FetchInit => ReadersInv
  BY ReadersInit DEF FetchInit
<1>2. BuildInv /\ ReadersInv /\ [Next]_vars => ReadersInv'
  BY ReadersNext
<1>3. BuildInv /\ ReadersInv => LevelsHoldFile
  BY LevelsRead
<1> QED
  BY <1>1, <1>2, <1>3, LevelsAreSound, PTL DEF Spec

(***************************************************************************)
(* A finished add leaves a manifest that Verify accepts and Fetch reads    *)
(* back as the file; what FetchParallel returns, with its goroutines, its  *)
(* inline calls and its shared buffer, is what the sequential Fetch would. *)
(***************************************************************************)
THEOREM FetchesAgree == Spec => []ReadersAgree
<1> DEFINE Kept == phase = "done" => \E m \in store : m.type = "manifest"
<1>1. FetchInit => ReadersInv /\ Kept
  BY ReadersInit DEF FetchInit, BuildInit
<1>2. Inv /\ Kept /\ [Next]_vars => Kept'
  BY ManifestNext
<1>3. BuildInv /\ ReadersInv /\ [Next]_vars => ReadersInv'
  BY ReadersNext
<1>4. Inv /\ ReadersInv /\ Kept => ReadersAgree
  <2> SUFFICES ASSUME Inv, ReadersInv, Kept PROVE ReadersAgree
    OBVIOUS
  <2>1. BuildInv
    BY DEF Inv
  <2>2. phase = "done" =>
          \E m \in store : m.type = "manifest" /\ Verify(store, m) /\ Fetch(store, m) = Bytes(file)
    BY <2>1, ManifestIsRead
  <2>3. ASSUME fetch = "ok" PROVE Fetch(store, target) = Bytes(out)
    <3>1. target \in store /\ target.type = "manifest" /\ <<>> \in DOMAIN call /\ IsOK(<<>>)
      BY <2>3 DEF Inv, CallerInv
    <3>2. out = file
      BY <3>1, OutIsFile
    <3> QED
      BY <2>1, <3>1, <3>2, ManifestIsRead
  <2> QED
    BY <2>2, <2>3 DEF ReadersAgree
<1>5. Inv => BuildInv
  BY DEF Inv
<1> HIDE DEF Kept
<1> QED
  BY <1>1, <1>2, <1>3, <1>4, <1>5, Invariance, PTL DEF Spec
=============================================================================
