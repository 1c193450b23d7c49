---------------------------- MODULE RoutingTable ----------------------------
(***************************************************************************)
(* The Kademlia table of crates/dht/src/routing.rs.  An id is the set of   *)
(* the positions of its one bits, so that XOR is the symmetric difference  *)
(* and a distance is compared at the highest bit where two ids differ.     *)
(* A contact is an address under an id.  Several contacts may share an id, *)
(* as those of a node that moved, or an address, as those of a node that   *)
(* started anew and chose another id.                                      *)
(***************************************************************************)
EXTENDS Integers, Sequences, SequencesExt

CONSTANTS
  Bits,      \* length of an id (160)
  SelfId,    \* our own id
  Nodes,     \* contacts
  IdOf,      \* [Nodes -> SUBSET (0 .. Bits - 1)]
  K          \* capacity of a bucket

IdSpace == SUBSET (0 .. Bits - 1)

ASSUME TableAssumption ==
  /\ Bits \in Nat \ {0}
  /\ SelfId \in IdSpace
  /\ IsFiniteSet(Nodes)
  /\ IdOf \in [Nodes -> IdSpace]
  /\ K \in Nat \ {0}

Xor(a, b) == (a \ b) \cup (b \ a)

TopBit(S) == CHOOSE i \in S : \A j \in S : j <= i

\* xor_distance(a, t) < xor_distance(b, t)
Nearer(a, b, t) == a # b /\ TopBit(Xor(a, b)) \in Xor(b, t)

Buckets == 0 .. Bits - 1

NewTable == [b \in Buckets |-> <<>>]

\* bucket_index of an id that is not our own.
BucketIndex(id) == TopBit(Xor(id, SelfId))

Known(table, id) ==
  IF id = SelfId THEN {} ELSE {n \in Range(table[BucketIndex(id)]) : IdOf[n] = id}

\* A known id moves to the young end of its bucket and keeps its address.
MoveToEnd(bucket, id) ==
  LET pos == CHOOSE i \in DOMAIN bucket : IdOf[bucket[i]] = id
  IN  Append(RemoveAt(bucket, pos), bucket[pos])

\* Mutant: a full bucket gives up its oldest contact at once.
UpsertEvicts(table, node) ==
  LET id == IdOf[node]
      b  == BucketIndex(id)
  IN  IF id = SelfId THEN table
      ELSE [table EXCEPT ![b] =
              IF Known(table, id) # {} THEN MoveToEnd(@, id)
              ELSE IF Len(@) < K THEN Append(@, node)
              ELSE Append(Tail(@), node)]

\* upsert.  The actor drops the Full result: a full bucket takes nobody.
Upsert(table, node) ==
  LET id == IdOf[node]
      b  == BucketIndex(id)
  IN  IF id = SelfId THEN table
      ELSE [table EXCEPT ![b] =
              IF Known(table, id) # {} THEN MoveToEnd(@, id)
              ELSE IF Len(@) < K THEN Append(@, node) ELSE @]

\* The nodes of a response, in its order.
UpsertAll(table, nodes) ==
  LET after[n \in 0 .. Len(nodes)] == IF n = 0 THEN table ELSE Upsert(after[n - 1], nodes[n])
  IN  after[Len(nodes)]

ContactsOf(table) == UNION {Range(table[b]) : b \in Buckets}

\* n nodes of S such that no node left out is nearer to t than one taken.  Two
\* contacts of one id are equally far: the sort may keep either.
Nearest(S, t, n) ==
  {T \in SUBSET S :
     /\ Cardinality(T) = IF Cardinality(S) < n THEN Cardinality(S) ELSE n
     /\ \A x \in T, y \in S \ T : ~ Nearer(IdOf[y], IdOf[x], t)}

\* closest(target, count): ids are unique in a table.
Closest(table, t, n) == CHOOSE T \in Nearest(ContactsOf(table), t, n) : TRUE
=============================================================================
