------------------------------ MODULE Routing ------------------------------
(***************************************************************************)
(* The routing table (internal/routing) as a value: one bucket of contacts *)
(* per bit of an identifier, least recently seen first, and the functions  *)
(* that change and read it.  An identifier is the sequence of its bits; of *)
(* the XOR metric only the order matters: a is nearer to t than b when, at *)
(* the first bit in which a and b differ, a has the bit of t.              *)
(***************************************************************************)
EXTENDS Naturals, Sequences, FiniteSets

CONSTANTS
  IdBits,       \* bits of an identifier
  KBucketK,     \* contacts per bucket, and per answer
  Self,         \* the identifier of this node
  Contacts      \* the contacts that occur, records of an id and an addr

NodeID == [1..IdBits -> {0, 1}]

ASSUME RoutingAssumption ==
  /\ IdBits \in Nat \ {0} /\ KBucketK \in Nat \ {0}
  /\ Self \in NodeID
  /\ \A c \in Contacts : c.id \in NodeID

Buckets == 0..(IdBits - 1)

\* All tables with contacts that occur.
Tables == [Buckets -> Seq(Contacts)]

\* id.XorDist(a, t) < id.XorDist(b, t)
Nearer(t, a, b) ==
  \E i \in 1..IdBits :
    /\ a[i] = t[i] /\ b[i] # t[i]
    /\ \A j \in 1..(i - 1) : a[j] = b[j]

\* The number of leading bits that id shares with this node, 0..IdBits-1.
BucketIndex(id) ==
  IF id = Self THEN IdBits - 1
  ELSE CHOOSE n \in Buckets :
         id[n + 1] # Self[n + 1] /\ \A j \in 1..n : id[j] = Self[j]

Ids(list) == {list[i].id : i \in DOMAIN list}

\* A list without the contact of a peer; no list has more than one of them.
Position(list, id) == CHOOSE i \in DOMAIN list : list[i].id = id
Without(list, id) ==
  IF id \in Ids(list)
  THEN LET i == Position(list, id)
       IN SubSeq(list, 1, i - 1) \o SubSeq(list, i + 1, Len(list))
  ELSE list

\* bug: a known peer is appended again
TouchAppends(list, c) == Append(IF Len(list) < KBucketK THEN list ELSE Tail(list), c)

\* Bucket.Touch: a known peer moves to the end with its latest address, a new
\* one is appended, and a full bucket loses its first contact for it.
Touch(list, c) ==
  IF c.id \in Ids(list) THEN Append(Without(list, c.id), c)
  ELSE IF Len(list) < KBucketK THEN Append(list, c)
  ELSE Append(Tail(list), c)

\* RoutingTable.Update: a node keeps no contact of its own.
Updated(table, c) ==
  IF c.id = Self THEN table
  ELSE [table EXCEPT ![BucketIndex(c.id)] = Touch(@, c)]

\* bug: the bits of the index are counted from the other end
RemovedElsewhere(table, c) ==
  [table EXCEPT ![IdBits - 1 - BucketIndex(c.id)] = Without(@, c.id)]

\* RoutingTable.Remove, by identifier whatever the address.
Removed(table, c) == [table EXCEPT ![BucketIndex(c.id)] = Without(@, c.id)]

Members(table, bs) == UNION {{table[b][i] : i \in DOMAIN table[b]} : b \in bs}

Known(table) == Members(table, Buckets)

(***************************************************************************)
(* RoutingTable.Closest: buckets are gathered around the one of the target *)
(* until there are enough contacts, and the nearest max of those are kept. *)
(* Contacts of the table have distinct identifiers, so the nearest ones    *)
(* are determined.  The buckets are locked one after the other; here they  *)
(* are read in one step.                                                   *)
(***************************************************************************)
Around(target, radius) ==
  {b \in Buckets : /\ b <= BucketIndex(target) + radius
                   /\ BucketIndex(target) <= b + radius}

Closest(table, target, max) ==
  LET enough(radius) == \/ Cardinality(Members(table, Around(target, radius))) >= max
                        \/ Around(target, radius) = Buckets
      radius == CHOOSE r \in Buckets : enough(r) /\ \A q \in Buckets : q < r => ~enough(q)
      all == Members(table, Around(target, radius))
  IN {c \in all : Cardinality({d \in all : Nearer(target, d.id, c.id)}) < max}

-----------------------------------------------------------------------------
(***************************************************************************)
(* What a routing table must be: no node is in it twice, none is in the    *)
(* bucket of another prefix, this node is not in it, no bucket is too long.*)
(***************************************************************************)
WellFormed(table) ==
  \A b \in Buckets :
    /\ Len(table[b]) <= KBucketK
    /\ \A i \in DOMAIN table[b] :
         /\ table[b][i].id # Self
         /\ BucketIndex(table[b][i].id) = b
    /\ \A i, j \in DOMAIN table[b] : table[b][i].id = table[b][j].id => i = j
=============================================================================
