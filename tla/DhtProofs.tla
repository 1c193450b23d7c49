----------------------------- MODULE DhtProofs -----------------------------
(***************************************************************************)
(* The DHT actor, for ids of any length, any nodes and any answers.  The   *)
(* table implements what Contacts promises, step by step.  A walk pays for *)
(* every query, and it is thorough: that nearness is an order on ids makes *)
(* it so, whatever the cap drops.                                          *)
(***************************************************************************)
EXTENDS Dht, FiniteSetTheorems, SequenceTheorems, WellFoundedInduction, TLAPS

(***************************************************************************)
(* Induction, by the least counterexample.                                 *)
(***************************************************************************)

LEMMA LeastExists ==
  ASSUME NEW S \in SUBSET Nat, S # {}
  PROVE  \E n \in S : \A c \in S : n <= c
<1> DEFINE R == OpToRel(<, Nat)
<1>1. IsWellFoundedOn(R, Nat)
  BY NatLessThanWellFounded
<1>2. \A x, y \in Nat : x < y => <<x, y>> \in R
  BY DEF OpToRel
<1> HIDE DEF R
<1>3. PICK n \in S : \A c \in S : <<c, n>> \notin R
  BY <1>1, WFMin
<1>4. ASSUME NEW c \in S PROVE n <= c
  <2>1. n \in Nat /\ c \in Nat /\ ~ (c < n)
    BY <1>2, <1>3
  <2> QED
    BY <2>1
<1> QED
  BY <1>3, <1>4

LEMMA CountUp ==
  ASSUME NEW S, 0 \in S, \A n \in Nat : n \in S => n + 1 \in S
  PROVE  \A n \in Nat : n \in S
<1> DEFINE T == {n \in Nat : n \notin S}
<1> SUFFICES ASSUME T # {} PROVE FALSE
  OBVIOUS
<1>1. PICK n \in T : \A c \in T : n <= c
  BY LeastExists
<1>2. n # 0
  OBVIOUS
<1>3. n - 1 \in Nat /\ n - 1 \notin T
  BY <1>1, <1>2
<1>4. (n - 1) + 1 \in S
  BY <1>3
<1> QED
  BY <1>1, <1>3, <1>4

(***************************************************************************)
(* Ids and distances.                                                      *)
(***************************************************************************)

BitRange == 0 .. Bits - 1

\* A set of bits that is not empty has a top bit.
LEMMA TopBitIsTop ==
  ASSUME NEW S \in SUBSET BitRange, S # {}
  PROVE  TopBit(S) \in S /\ \A j \in S : j <= TopBit(S)
<1> DEFINE T == {n \in Nat : Bits - n \in S}
<1>1. Bits \in Nat
  BY TableAssumption
<1>2. \A i \in S : i \in Int /\ 0 <= i /\ i < Bits
  BY <1>1 DEF BitRange
<1>3. PICK i \in S : TRUE
  OBVIOUS
<1>4. Bits - i \in Nat /\ Bits - (Bits - i) = i
  BY <1>1, <1>2
<1>5. Bits - i \in T
  BY <1>4
<1>6. PICK n \in T : \A c \in T : n <= c
  BY <1>5, LeastExists
<1>7. ASSUME NEW j \in S PROVE j <= Bits - n
  <2>1. Bits - j \in Nat /\ Bits - (Bits - j) = j
    BY <1>1, <1>2
  <2>2. n <= Bits - j /\ n \in Nat
    BY <1>6, <2>1
  <2> QED
    BY <1>1, <1>2, <2>2
<1>8. Bits - n \in S
  BY <1>6
<1> HIDE DEF T
<1> QED
  BY <1>7, <1>8 DEF TopBit

\* Nearer at the highest bit that tells the two ids apart.
ApartAt(a, b, t, i) ==
  /\ i \in Xor(b, t) /\ i \notin Xor(a, t)
  /\ \A j \in BitRange : j > i => (j \in a <=> j \in b)

LEMMA NearerMeans ==
  ASSUME NEW a \in IdSpace, NEW b \in IdSpace, NEW t \in IdSpace
  PROVE  Nearer(a, b, t) <=> \E i \in BitRange : ApartAt(a, b, t, i)
<1> DEFINE top == TopBit(Xor(a, b))
<1>0. a \subseteq BitRange /\ b \subseteq BitRange
  BY DEF IdSpace, BitRange
<1>1. ASSUME a # b
      PROVE  top \in Xor(a, b) /\ \A j \in Xor(a, b) : j <= top
  <2>1. Xor(a, b) # {} /\ Xor(a, b) \in SUBSET BitRange
    BY <1>0, <1>1 DEF Xor
  <2> QED
    BY <2>1, TopBitIsTop
<1>2. \A i \in BitRange : i \in Int
  BY DEF BitRange
<1> HIDE DEF top
<1>3. ASSUME Nearer(a, b, t) PROVE \E i \in BitRange : ApartAt(a, b, t, i)
  <2>1. a # b /\ top \in Xor(b, t)
    BY <1>3 DEF Nearer, top
  <2>2. top \in BitRange
    BY <1>0, <1>1, <2>1 DEF Xor
  <2>3. top \notin Xor(a, t)
    BY <1>1, <2>1 DEF Xor
  <2>4. ASSUME NEW j \in BitRange, j > top PROVE j \in a <=> j \in b
    <3>1. j \notin Xor(a, b)
      BY <1>1, <1>2, <2>1, <2>2, <2>4
    <3> QED
      BY <3>1 DEF Xor
  <2> QED
    BY <2>1, <2>2, <2>3, <2>4 DEF ApartAt
<1>4. ASSUME NEW i \in BitRange, ApartAt(a, b, t, i) PROVE Nearer(a, b, t)
  <2>1. i \in Xor(a, b) /\ a # b
    BY <1>4 DEF ApartAt, Xor
  <2>2. top \in BitRange
    BY <1>0, <1>1, <2>1 DEF Xor
  <2>3. ~ (top > i)
    <3>1. top > i => (top \in a <=> top \in b)
      BY <1>4, <2>2 DEF ApartAt
    <3> QED
      BY <1>1, <2>1, <3>1 DEF Xor
  <2>4. top = i
    BY <1>1, <1>2, <2>1, <2>2, <2>3
  <2> QED
    BY <1>4, <2>1, <2>4 DEF ApartAt, Nearer, top
<1> QED
  BY <1>3, <1>4

\* Of two different ids one is nearer.
LEMMA NearerTotal ==
  ASSUME NEW a \in IdSpace, NEW b \in IdSpace, NEW t \in IdSpace, a # b
  PROVE  Nearer(a, b, t) \/ Nearer(b, a, t)
<1>1. Xor(a, b) = Xor(b, a) /\ Xor(a, b) # {} /\ Xor(a, b) \in SUBSET BitRange
  BY DEF Xor, IdSpace, BitRange
<1>2. TopBit(Xor(a, b)) \in Xor(a, b)
  BY <1>1, TopBitIsTop
<1>3. TopBit(Xor(a, b)) \in Xor(a, t) \/ TopBit(Xor(a, b)) \in Xor(b, t)
  <2> DEFINE i == TopBit(Xor(a, b))
  <2>1. i \in Xor(a, b)
    BY <1>2
  <2> HIDE DEF i
  <2>2. i \in Xor(a, t) \/ i \in Xor(b, t)
    BY <2>1 DEF Xor
  <2> QED
    BY <2>2 DEF i
<1> QED
  BY <1>1, <1>3 DEF Nearer

LEMMA NearerTransitive ==
  ASSUME NEW a \in IdSpace, NEW b \in IdSpace, NEW c \in IdSpace, NEW t \in IdSpace,
         Nearer(a, b, t), Nearer(b, c, t)
  PROVE  Nearer(a, c, t)
<1>1. PICK i \in BitRange : ApartAt(a, b, t, i)
  BY NearerMeans
<1>2. PICK k \in BitRange : ApartAt(b, c, t, k)
  BY NearerMeans
<1>3. i \in Int /\ k \in Int /\ \A j \in BitRange : j \in Int
  BY DEF BitRange
<1>4. CASE i > k
  <2>1. i \in Xor(c, t)
    BY <1>1, <1>2, <1>4 DEF ApartAt, Xor
  <2>2. \A j \in BitRange : j > i => j > k
    BY <1>3, <1>4
  <2>3. ApartAt(a, c, t, i)
    BY <1>1, <1>2, <2>1, <2>2 DEF ApartAt
  <2> QED
    BY <2>3, NearerMeans
<1>5. CASE k > i
  <2>1. k \notin Xor(a, t)
    BY <1>1, <1>2, <1>5 DEF ApartAt, Xor
  <2>2. \A j \in BitRange : j > k => j > i
    BY <1>3, <1>5
  <2>3. ApartAt(a, c, t, k)
    BY <1>1, <1>2, <2>1, <2>2 DEF ApartAt
  <2> QED
    BY <2>3, NearerMeans
<1>6. i # k
  BY <1>1, <1>2 DEF ApartAt
<1> QED
  BY <1>3, <1>4, <1>5, <1>6

LEMMA NearerAsymmetric ==
  ASSUME NEW a \in IdSpace, NEW b \in IdSpace, NEW t \in IdSpace, Nearer(a, b, t)
  PROVE  ~ Nearer(b, a, t)
<1> SUFFICES ASSUME Nearer(b, a, t) PROVE FALSE
  OBVIOUS
<1>1. Nearer(a, a, t)
  BY NearerTransitive
<1> QED
  BY <1>1 DEF Nearer

\* What is not nearer than something not nearer is not nearer.
LEMMA NotNearerTransitive ==
  ASSUME NEW a \in IdSpace, NEW b \in IdSpace, NEW c \in IdSpace, NEW t \in IdSpace,
         ~ Nearer(a, b, t), ~ Nearer(b, c, t)
  PROVE  ~ Nearer(a, c, t)
<1>1. CASE a = b \/ b = c
  BY <1>1
<1>2. CASE a # b /\ b # c
  <2>1. Nearer(b, a, t) /\ Nearer(c, b, t)
    BY <1>2, NearerTotal
  <2>2. Nearer(c, a, t)
    BY <2>1, NearerTransitive
  <2> QED
    BY <2>2, NearerAsymmetric
<1> QED
  BY <1>1, <1>2

(***************************************************************************)
(* The nearest of a set of nodes.                                          *)
(***************************************************************************)

LEMMA NodesFinite ==
  ASSUME NEW S \in SUBSET Nodes
  PROVE  IsFiniteSet(S) /\ Cardinality(S) \in Nat
  BY FS_Subset, FS_CardinalityType, TableAssumption

LEMMA IdsTyped == \A n \in Nodes : IdOf[n] \in IdSpace
  BY TableAssumption

LEMMA NearestFacts ==
  ASSUME NEW S \in SUBSET Nodes, NEW t, NEW n \in Nat, NEW T \in Nearest(S, t, n)
  PROVE  /\ T \subseteq S /\ Cardinality(T) <= n
         /\ \A y \in S \ T : /\ Cardinality(T) = n
                             /\ \A x \in T : ~ Nearer(IdOf[y], IdOf[x], t)
<1>1. T \subseteq S /\ Cardinality(T) = IF Cardinality(S) < n THEN Cardinality(S) ELSE n
  BY DEF Nearest
<1>2. Cardinality(S) \in Nat /\ IsFiniteSet(S)
  BY NodesFinite
<1>3. ASSUME NEW y \in S \ T PROVE Cardinality(T) = n
  <2>1. Cardinality(T) # Cardinality(S)
    BY <1>1, <1>2, <1>3, FS_Subset
  <2> QED
    BY <1>1, <2>1
<1>4. Cardinality(T) <= n
  BY <1>1, <1>2
<1>5. \A y \in S \ T : \A x \in T : ~ Nearer(IdOf[y], IdOf[x], t)
  BY DEF Nearest
<1> QED
  BY <1>1, <1>3, <1>4, <1>5

\* A node than which none of the set is nearer: one with the fewest nearer ones.
LEMMA OneIsNearest ==
  ASSUME NEW S \in SUBSET Nodes, S # {}, NEW t \in IdSpace
  PROVE  \E m \in S : \A y \in S : ~ Nearer(IdOf[y], IdOf[m], t)
<1> DEFINE Before(m) == {y \in S : Nearer(IdOf[y], IdOf[m], t)}
           Counts == {n \in Nat : \E m \in S : n = Cardinality(Before(m))}
<1>1. \A m \in S : Before(m) \in SUBSET S
  OBVIOUS
<1>2. \A m \in S : IsFiniteSet(Before(m)) /\ Cardinality(Before(m)) \in Nat
  BY NodesFinite
<1>3. Counts # {}
  BY <1>2
<1>4. PICK n \in Counts : \A c \in Counts : n <= c
  <2> HIDE DEF Counts
  <2>1. Counts \in SUBSET Nat
    BY DEF Counts
  <2> QED
    BY <1>3, <2>1, LeastExists
<1>5. PICK m \in S : n = Cardinality(Before(m))
  BY <1>4
<1>6. ASSUME NEW y \in S, Nearer(IdOf[y], IdOf[m], t) PROVE FALSE
  <2>1. ASSUME NEW z \in Before(y) PROVE z \in Before(m)
    <3>1. IdOf[z] \in IdSpace /\ IdOf[y] \in IdSpace /\ IdOf[m] \in IdSpace
      BY <2>1, IdsTyped
    <3> QED
      BY <1>6, <2>1, <3>1, NearerTransitive
  <2>2. y \in Before(m) /\ y \notin Before(y)
    BY <1>6 DEF Nearer
  <2> HIDE DEF Before
  <2>3. Before(y) \subseteq Before(m) /\ Before(y) # Before(m)
    BY <2>1, <2>2
  <2>4. Cardinality(Before(y)) < Cardinality(Before(m))
    <3>1. Cardinality(Before(y)) <= Cardinality(Before(m))
      BY <1>2, <2>3, FS_Subset
    <3>2. Cardinality(Before(y)) # Cardinality(Before(m))
      BY <1>2, <2>3, FS_Subset
    <3> QED
      BY <1>2, <3>1, <3>2
  <2>5. Cardinality(Before(y)) \in Counts
    BY <1>2
  <2> HIDE DEF Counts
  <2>6. n <= Cardinality(Before(y))
    BY <1>4, <2>5
  <2> QED
    BY <1>2, <1>5, <2>4, <2>6
<1> QED
  BY <1>6

\* Any number of nearest nodes can be taken.
LEMMA NearestExists ==
  ASSUME NEW S \in SUBSET Nodes, NEW t \in IdSpace
  PROVE  \A n \in Nat : Nearest(S, t, n) # {}
<1> DEFINE Good == {n \in Nat : Nearest(S, t, n) # {}}
<1>1. Cardinality(S) \in Nat /\ IsFiniteSet(S)
  BY NodesFinite
<1>2. 0 \in Good
  <2>1. Cardinality({}) = 0
    BY FS_EmptySet
  <2>2. ~ (Cardinality(S) < 0)
    BY <1>1
  <2>3. {} \in Nearest(S, t, 0)
    BY <2>1, <2>2 DEF Nearest
  <2> QED
    BY <2>3
<1>3. ASSUME NEW n \in Nat, n \in Good PROVE n + 1 \in Good
  <2>1. PICK T \in Nearest(S, t, n) : TRUE
    BY <1>3
  <2>2. /\ T \subseteq S /\ Cardinality(T) = IF Cardinality(S) < n THEN Cardinality(S) ELSE n
        /\ \A x \in T, y \in S \ T : ~ Nearer(IdOf[y], IdOf[x], t)
    BY <2>1 DEF Nearest
  <2>3. CASE T = S
    <3>1. Cardinality(S) < n \/ Cardinality(S) = n
      BY <2>2, <2>3
    <3>2. Cardinality(S) < n + 1
      BY <1>1, <3>1
    <3>3. S \in Nearest(S, t, n + 1)
      BY <3>2 DEF Nearest
    <3> QED
      BY <3>3
  <2>4. CASE T # S
    <3>1. PICK m \in S \ T : \A y \in S \ T : ~ Nearer(IdOf[y], IdOf[m], t)
      <4>1. S \ T # {} /\ S \ T \in SUBSET Nodes
        BY <2>2, <2>4
      <4> QED
        BY <4>1, OneIsNearest
    <3> DEFINE U == T \cup {m}
    <3>2. IsFiniteSet(T) /\ Cardinality(T) \in Nat
      BY <2>2, NodesFinite
    <3>3. Cardinality(U) = Cardinality(T) + 1
      BY <3>1, <3>2, FS_AddElement
    <3>4. U \subseteq S
      BY <2>2, <3>1
    <3>5. Cardinality(T) # Cardinality(S)
      BY <1>1, <2>2, <2>4, FS_Subset
    <3>6. Cardinality(T) = n /\ Cardinality(U) <= Cardinality(S)
      BY <1>1, <2>2, <3>4, <3>5, FS_Subset
    <3>7. Cardinality(U) = IF Cardinality(S) < n + 1 THEN Cardinality(S) ELSE n + 1
      BY <1>1, <3>3, <3>6
    <3>8. \A x \in U, y \in S \ U : ~ Nearer(IdOf[y], IdOf[x], t)
      BY <2>2, <3>1
    <3>9. U \in Nearest(S, t, n + 1)
      BY <3>4, <3>7, <3>8 DEF Nearest
    <3> QED
      BY <3>9
  <2> QED
    BY <2>3, <2>4
<1> HIDE DEF Good
<1>4. \A n \in Nat : n \in Good
  BY <1>2, <1>3, CountUp
<1> QED
  BY <1>4 DEF Good

LEMMA ClosestIsNearest ==
  ASSUME NEW u, ContactsOf(u) \subseteq Nodes, NEW t \in IdSpace, NEW n \in Nat
  PROVE  Closest(u, t, n) \in Nearest(ContactsOf(u), t, n)
<1>1. Nearest(ContactsOf(u), t, n) # {}
  BY NearestExists
<1> QED
  BY <1>1 DEF Closest

(***************************************************************************)
(* The table.                                                              *)
(***************************************************************************)

\* A bucket: at most K contacts whose home it is, with different ids.
Bucket(b, s) ==
  /\ s \in Seq(Nodes) /\ Len(s) <= K
  /\ \A i \in 1 .. Len(s) : Home(s[i]) = b
  /\ \A i, j \in 1 .. Len(s) : IdOf[s[i]] = IdOf[s[j]] => i = j

Tabled(u) == u \in [Buckets -> Seq(Nodes)] /\ \A b \in Buckets : Bucket(b, u[b])

\* The later of two tables has what the earlier one has.
Grows(u, v) == Tabled(v) /\ \A b \in Buckets : Range(u[b]) \subseteq Range(v[b])

LEMMA RangeOfNodes == \A s \in Seq(Nodes) : Range(s) = {s[i] : i \in 1 .. Len(s)}
  BY DEF Range

\* Moving a contact to the end only permutes a bucket.
LEMMA MoveKeeps ==
  ASSUME NEW b, NEW s, Bucket(b, s), NEW id, NEW k \in 1 .. Len(s), IdOf[s[k]] = id
  PROVE  Bucket(b, MoveToEnd(s, id)) /\ Range(MoveToEnd(s, id)) = Range(s)
<1> DEFINE n == Len(s)
           pos == CHOOSE i \in DOMAIN s : IdOf[s[i]] = id
           front == SubSeq(s, 1, pos - 1)
           back == SubSeq(s, pos + 1, n)
           m == MoveToEnd(s, id)
           From(i) == IF i < pos THEN i ELSE IF i < n THEN i + 1 ELSE pos
<1>1. s \in Seq(Nodes) /\ n \in Nat /\ DOMAIN s = 1 .. n /\ \A i \in 1 .. n : s[i] \in Nodes
  BY DEF Bucket
<1>2. pos \in 1 .. n
  BY <1>1
<1>3. m = Append(front \o back, s[pos])
  BY DEF MoveToEnd, RemoveAt
<1> HIDE DEF pos, n, m
<1>4. /\ front \in Seq(Nodes) /\ Len(front) = pos - 1
      /\ \A i \in 1 .. pos - 1 : front[i] = s[i]
  BY <1>1, <1>2 DEF n
<1>5. /\ back \in Seq(Nodes) /\ Len(back) = n - pos
      /\ \A i \in 1 .. n - pos : back[i] = s[pos + i]
  <2>1. \A i \in pos + 1 .. n : s[i] \in Nodes
    BY <1>1, <1>2
  <2>2. pos + 1 \in Int /\ n \in Int /\ (n - (pos + 1)) + 1 = n - pos
    BY <1>1, <1>2
  <2>3. \A i \in 1 .. n - pos : (pos + 1) + i - 1 = pos + i
    BY <1>1, <1>2
  <2>4. /\ back \in Seq(Nodes)
        /\ Len(back) = IF pos + 1 <= n THEN (n - (pos + 1)) + 1 ELSE 0
        /\ \A i \in 1 .. (n - (pos + 1)) + 1 : back[i] = s[(pos + 1) + i - 1]
    BY <2>1, <2>2, SubSeqProperties DEF back
  <2>5. Len(back) = n - pos
    BY <1>1, <1>2, <2>4
  <2> QED
    BY <2>2, <2>3, <2>4, <2>5
<1> HIDE DEF front, back
<1>6. /\ front \o back \in Seq(Nodes) /\ Len(front \o back) = n - 1
      /\ \A i \in 1 .. n - 1 : (front \o back)[i] = IF i < pos THEN front[i] ELSE back[i - (pos - 1)]
  <2>1. /\ front \o back \in Seq(Nodes) /\ Len(front \o back) = Len(front) + Len(back)
        /\ \A i \in 1 .. Len(front) + Len(back) :
             (front \o back)[i] = IF i <= Len(front) THEN front[i] ELSE back[i - Len(front)]
    BY <1>4, <1>5, ConcatProperties
  <2>2. Len(front) + Len(back) = n - 1
    BY <1>1, <1>2, <1>4, <1>5
  <2>3. \A i \in 1 .. n - 1 : i <= pos - 1 <=> i < pos
    BY <1>1, <1>2
  <2> QED
    BY <1>4, <2>1, <2>2, <2>3
<1>7. /\ m \in Seq(Nodes) /\ Len(m) = n
      /\ \A i \in 1 .. n - 1 : m[i] = (front \o back)[i]
      /\ m[n] = s[pos]
  <2> DEFINE most == front \o back
  <2>1. most \in Seq(Nodes) /\ Len(most) = n - 1 /\ s[pos] \in Nodes
    BY <1>1, <1>2, <1>6
  <2> HIDE DEF most
  <2>2. /\ Append(most, s[pos]) \in Seq(Nodes) /\ Len(Append(most, s[pos])) = (n - 1) + 1
        /\ \A i \in 1 .. n - 1 : Append(most, s[pos])[i] = most[i]
        /\ Append(most, s[pos])[(n - 1) + 1] = s[pos]
    BY <2>1, AppendProperties
  <2>3. (n - 1) + 1 = n
    BY <1>1
  <2> QED
    BY <1>3, <2>2, <2>3 DEF most
<1>8. \A i \in 1 .. n : From(i) \in 1 .. n /\ m[i] = s[From(i)]
  <2> SUFFICES ASSUME NEW i \in 1 .. n PROVE From(i) \in 1 .. n /\ m[i] = s[From(i)]
    OBVIOUS
  <2>1. CASE i < pos
    <3>1. i \in 1 .. n - 1 /\ i \in 1 .. pos - 1
      BY <1>1, <1>2, <2>1
    <3> QED
      BY <1>4, <1>6, <1>7, <2>1, <3>1
  <2>2. CASE ~ (i < pos) /\ i < n
    <3>1. i \in 1 .. n - 1 /\ i - (pos - 1) \in 1 .. n - pos /\ pos + (i - (pos - 1)) = i + 1
      BY <1>1, <1>2, <2>2
    <3>2. m[i] = back[i - (pos - 1)]
      BY <1>6, <1>7, <2>2, <3>1
    <3>3. m[i] = s[i + 1] /\ i + 1 \in 1 .. n
      BY <1>1, <1>5, <3>1, <3>2
    <3> QED
      BY <2>2, <3>3
  <2>3. CASE ~ (i < pos) /\ ~ (i < n)
    <3>1. i = n
      BY <1>1, <2>3
    <3> QED
      BY <1>2, <1>7, <2>3, <3>1
  <2> QED
    BY <2>1, <2>2, <2>3
<1>9. \A i, j \in 1 .. n : From(i) = From(j) => i = j
  BY <1>1, <1>2
<1>10. \A j \in 1 .. n : \E i \in 1 .. n : From(i) = j
  <2> SUFFICES ASSUME NEW j \in 1 .. n PROVE \E i \in 1 .. n : From(i) = j
    OBVIOUS
  <2>1. CASE j < pos
    BY <2>1
  <2>2. CASE j = pos
    <3>1. n \in 1 .. n /\ ~ (n < pos) /\ ~ (n < n)
      BY <1>1, <1>2
    <3> QED
      BY <2>2, <3>1
  <2>3. CASE j > pos
    <3>1. j - 1 \in 1 .. n /\ ~ (j - 1 < pos) /\ j - 1 < n /\ (j - 1) + 1 = j
      BY <1>1, <1>2, <2>3
    <3> QED
      BY <3>1
  <2> QED
    BY <1>1, <1>2, <2>1, <2>2, <2>3
<1> HIDE DEF From
<1>11. Bucket(b, m)
  <2>1. \A i \in 1 .. n : Home(m[i]) = b
    BY <1>8 DEF Bucket, n
  <2>2. \A i, j \in 1 .. n : IdOf[m[i]] = IdOf[m[j]] => i = j
    <3>1. \A i, j \in 1 .. n : IdOf[s[i]] = IdOf[s[j]] => i = j
      BY DEF Bucket, n
    <3> SUFFICES ASSUME NEW i \in 1 .. n, NEW j \in 1 .. n, IdOf[m[i]] = IdOf[m[j]] PROVE i = j
      OBVIOUS
    <3>2. From(i) \in 1 .. n /\ From(j) \in 1 .. n /\ m[i] = s[From(i)] /\ m[j] = s[From(j)]
      BY <1>8
    <3>3. From(i) = From(j)
      BY <3>1, <3>2
    <3> QED
      BY <1>9, <3>3
  <2> QED
    BY <1>7, <2>1, <2>2 DEF Bucket, n
<1>12. Range(m) = Range(s)
  <2>1. Range(m) = {m[i] : i \in 1 .. n} /\ Range(s) = {s[i] : i \in 1 .. n}
    BY <1>1, <1>7, RangeOfNodes DEF n
  <2>2. \A i \in 1 .. n : m[i] \in Range(s)
    BY <1>8, <2>1
  <2>3. ASSUME NEW j \in 1 .. n PROVE s[j] \in Range(m)
    <3>1. PICK i \in 1 .. n : From(i) = j
      BY <1>10
    <3>2. m[i] = s[j]
      BY <1>8, <3>1
    <3> QED
      BY <2>1, <3>2
  <2> QED
    BY <2>1, <2>2, <2>3
<1> QED
  BY <1>11, <1>12 DEF m

\* A node whose id is new joins a bucket that has room.
LEMMA JoinKeeps ==
  ASSUME NEW b, NEW s, Bucket(b, s), NEW node \in Nodes, Home(node) = b, Len(s) < K,
         \A i \in 1 .. Len(s) : IdOf[s[i]] # IdOf[node]
  PROVE  Bucket(b, Append(s, node)) /\ Range(s) \subseteq Range(Append(s, node))
<1> DEFINE n == Len(s)
           m == Append(s, node)
<1>1. s \in Seq(Nodes) /\ n \in Nat
  BY DEF Bucket
<1>2. /\ m \in Seq(Nodes) /\ Len(m) = n + 1
      /\ \A i \in 1 .. n : m[i] = s[i]
      /\ m[n + 1] = node
  BY <1>1, AppendProperties
<1> HIDE DEF m
<1>3. \A i \in 1 .. n + 1 : i \in 1 .. n \/ i = n + 1
  BY <1>1
<1>4. \A i \in 1 .. n : i \in 1 .. n + 1
  BY <1>1
<1>5. Bucket(b, m)
  <2>1. Len(m) <= K
    BY <1>1, <1>2, TableAssumption
  <2>2. \A i \in 1 .. n + 1 : Home(m[i]) = b
    BY <1>2, <1>3 DEF Bucket
  <2>3. \A i, j \in 1 .. n : IdOf[s[i]] = IdOf[s[j]] => i = j
    BY DEF Bucket
  <2>4. \A i, j \in 1 .. n + 1 : IdOf[m[i]] = IdOf[m[j]] => i = j
    BY <1>2, <1>3, <2>3
  <2> QED
    BY <1>2, <2>1, <2>2, <2>4 DEF Bucket
<1>6. Range(s) \subseteq Range(m)
  <2>1. Range(m) = {m[i] : i \in 1 .. n + 1} /\ Range(s) = {s[i] : i \in 1 .. n}
    BY <1>1, <1>2, RangeOfNodes
  <2> QED
    BY <1>2, <1>4, <2>1
<1> QED
  BY <1>5, <1>6 DEF m

LEMMA UpsertGrows ==
  ASSUME NEW u, Tabled(u), NEW node \in Nodes
  PROVE  Grows(u, Upsert(u, node))
<1> DEFINE id == IdOf[node]
           b == BucketIndex(id)
           v == Upsert(u, node)
<1> SUFFICES Grows(u, v)
  OBVIOUS
<1>1. u \in [Buckets -> Seq(Nodes)] /\ \A c \in Buckets : Bucket(c, u[c])
  BY DEF Tabled
<1>2. ASSUME v = u PROVE Grows(u, v)
  BY <1>2 DEF Grows, Tabled
<1>3. ASSUME NEW new, v = [u EXCEPT ![b] = new],
             b \in Buckets => Bucket(b, new) /\ Range(u[b]) \subseteq Range(new)
      PROVE  Grows(u, v)
  <2> HIDE DEF v, b
  <2>1. CASE b \in Buckets
    <3>1. new \in Seq(Nodes)
      BY <1>3, <2>1 DEF Bucket
    <3>2. v \in [Buckets -> Seq(Nodes)] /\ v[b] = new /\ \A c \in Buckets : c # b => v[c] = u[c]
      BY <1>1, <1>3, <2>1, <3>1
    <3> QED
      BY <1>1, <1>3, <2>1, <3>2 DEF Grows, Tabled
  <2>2. CASE b \notin Buckets
    <3>1. v = u
      BY <1>1, <1>3, <2>2
    <3> QED
      BY <1>2, <3>1
  <2> QED
    BY <2>1, <2>2
<1>4. CASE id = SelfId
  BY <1>2, <1>4 DEF Upsert
<1>5. CASE id # SelfId /\ Known(u, id) # {}
  <2>1. v = [u EXCEPT ![b] = MoveToEnd(u[b], id)]
    BY <1>5 DEF Upsert
  <2>2. ASSUME b \in Buckets
        PROVE  Bucket(b, MoveToEnd(u[b], id)) /\ Range(MoveToEnd(u[b], id)) = Range(u[b])
    <3> DEFINE s == u[b]
    <3>1. PICK n \in Range(s) : IdOf[n] = id
      BY <1>5 DEF Known
    <3>2. Bucket(b, s) /\ s \in Seq(Nodes)
      BY <1>1, <2>2
    <3> HIDE DEF s, id, b
    <3>3. PICK k \in 1 .. Len(s) : IdOf[s[k]] = id
      BY <3>1, <3>2, RangeOfNodes
    <3>4. Bucket(b, MoveToEnd(s, id)) /\ Range(MoveToEnd(s, id)) = Range(s)
      BY <3>2, <3>3, MoveKeeps
    <3> QED
      BY <3>4 DEF s
  <2> HIDE DEF v, b, id
  <2> QED
    BY <1>3, <2>1, <2>2
<1>6. CASE id # SelfId /\ Known(u, id) = {} /\ Len(u[b]) < K
  <2>1. v = [u EXCEPT ![b] = Append(u[b], node)]
    BY <1>6 DEF Upsert
  <2>2. Home(node) = b
    BY <1>6 DEF Home
  <2>3. ASSUME b \in Buckets
        PROVE  Bucket(b, Append(u[b], node)) /\ Range(u[b]) \subseteq Range(Append(u[b], node))
    <3> DEFINE s == u[b]
    <3>1. \A n \in Range(s) : IdOf[n] # id
      BY <1>6 DEF Known
    <3>2. Bucket(b, s) /\ s \in Seq(Nodes) /\ Len(s) < K
      BY <1>1, <1>6, <2>3
    <3> HIDE DEF s, b
    <3>3. \A i \in 1 .. Len(s) : IdOf[s[i]] # IdOf[node]
      BY <3>1, <3>2, RangeOfNodes
    <3>4. Bucket(b, Append(s, node)) /\ Range(s) \subseteq Range(Append(s, node))
      BY <2>2, <3>2, <3>3, JoinKeeps
    <3> QED
      BY <3>4 DEF s
  <2> HIDE DEF v, b, id
  <2> QED
    BY <1>3, <2>1, <2>3
<1>7. CASE id # SelfId /\ Known(u, id) = {} /\ ~ (Len(u[b]) < K)
  <2>1. v = [u EXCEPT ![b] = u[b]]
    BY <1>7 DEF Upsert
  <2>2. v = u
    BY <1>1, <2>1
  <2> QED
    BY <1>2, <2>2
<1> HIDE DEF v, b, id
<1> QED
  BY <1>4, <1>5, <1>6, <1>7

(***************************************************************************)
(* The nodes of an answer, one after the other.                            *)
(***************************************************************************)

LEMMA GrowsTransitive ==
  ASSUME NEW u, NEW v, NEW w, Grows(u, v), Grows(v, w)
  PROVE  Grows(u, w)
<1>1. \A b \in Buckets : Range(u[b]) \subseteq Range(v[b]) /\ Range(v[b]) \subseteq Range(w[b])
  BY DEF Grows
<1> QED
  BY <1>1 DEF Grows

\* f is the function after of UpsertAll for 0 .. m, by its definition and unfolded.
Updates(u, nodes, m, f) ==
  f = [n \in 0 .. m |-> IF n = 0 THEN u ELSE Upsert(f[n - 1], nodes[n])]

UpdatesGo(u, nodes, m, f) == f[0] = u /\ \A n \in 1 .. m : f[n] = Upsert(f[n - 1], nodes[n])

LEMMA UpdatesUnfold ==
  ASSUME NEW u, NEW nodes, NEW m \in Nat, NEW f, Updates(u, nodes, m, f)
  PROVE  UpdatesGo(u, nodes, m, f)
<1> DEFINE h == [n \in 0 .. m |-> IF n = 0 THEN u ELSE Upsert(f[n - 1], nodes[n])]
<1>1. h[0] = u /\ \A n \in 1 .. m : h[n] = Upsert(f[n - 1], nodes[n])
  OBVIOUS
<1>2. f = h
  BY DEF Updates
<1> HIDE DEF h
<1> QED
  BY <1>1, <1>2 DEF UpdatesGo

LEMMA UpdatesExist ==
  ASSUME NEW u, NEW nodes
  PROVE  \A m \in Nat : \E f : Updates(u, nodes, m, f)
<1> DEFINE S == {m \in Nat : \E f : Updates(u, nodes, m, f)}
<1>1. 0 \in S
  <2> DEFINE f == [n \in 0 .. 0 |-> u]
  <2>1. \A n \in 0 .. 0 : n = 0
    OBVIOUS
  <2>2. Updates(u, nodes, 0, f)
    BY <2>1 DEF Updates
  <2> QED
    BY <2>2
<1>2. ASSUME NEW m \in Nat, m \in S PROVE m + 1 \in S
  <2>1. PICK f : Updates(u, nodes, m, f)
    BY <1>2
  <2>2. UpdatesGo(u, nodes, m, f)
    BY <2>1, UpdatesUnfold
  <2> DEFINE g == [n \in 0 .. m + 1 |-> IF n = m + 1 THEN Upsert(f[m], nodes[m + 1]) ELSE f[n]]
  <2>3. /\ \A n \in 0 .. m : g[n] = f[n]
        /\ g[m + 1] = Upsert(f[m], nodes[m + 1])
    OBVIOUS
  <2>4. DOMAIN g = 0 .. m + 1 /\ g = [n \in 0 .. m + 1 |-> g[n]]
    OBVIOUS
  <2> HIDE DEF g
  <2>5. g[0] = u /\ \A n \in 1 .. m + 1 : g[n] = Upsert(g[n - 1], nodes[n])
    <3>1. \A n \in 1 .. m + 1 : n = m + 1 \/ (n \in 1 .. m /\ n - 1 \in 0 .. m)
      OBVIOUS
    <3>2. (m + 1) - 1 = m /\ 0 \in 0 .. m /\ m \in 0 .. m
      OBVIOUS
    <3> QED
      BY <2>2, <2>3, <3>1, <3>2 DEF UpdatesGo
  <2>6. Updates(u, nodes, m + 1, g)
    <3>1. \A n \in 0 .. m + 1 : n = 0 \/ n \in 1 .. m + 1
      OBVIOUS
    <3>2. \A n \in 0 .. m + 1 : g[n] = IF n = 0 THEN u ELSE Upsert(g[n - 1], nodes[n])
      BY <2>5, <3>1
    <3> QED
      BY <2>4, <3>2 DEF Updates
  <2> QED
    BY <2>6
<1> HIDE DEF S
<1>3. \A m \in Nat : m \in S
  BY <1>1, <1>2, CountUp
<1> QED
  BY <1>3 DEF S

LEMMA UpsertAllGrows ==
  ASSUME NEW u, Tabled(u), NEW nodes \in Seq(Nodes)
  PROVE  Grows(u, UpsertAll(u, nodes))
<1> DEFINE m == Len(nodes)
           after == CHOOSE f : Updates(u, nodes, m, f)
           Good == {n \in Nat : n \in 0 .. m => Grows(u, after[n])}
<1>1. m \in Nat /\ \A n \in 1 .. m : nodes[n] \in Nodes
  OBVIOUS
<1>2. Updates(u, nodes, m, after)
  BY <1>1, UpdatesExist
<1>3. UpsertAll(u, nodes) = after[m]
  BY DEF UpsertAll, Updates
<1> HIDE DEF m, after
<1>4. UpdatesGo(u, nodes, m, after)
  BY <1>1, <1>2, UpdatesUnfold
<1>5. 0 \in Good
  <2>1. Grows(u, u)
    BY DEF Grows
  <2> QED
    BY <1>4, <2>1 DEF UpdatesGo
<1>6. ASSUME NEW n \in Nat, n \in Good PROVE n + 1 \in Good
  <2> SUFFICES ASSUME n + 1 \in 0 .. m PROVE Grows(u, after[n + 1])
    OBVIOUS
  <2>1. n \in 0 .. m /\ n + 1 \in 1 .. m /\ (n + 1) - 1 = n
    BY <1>1
  <2>2. Grows(u, after[n]) /\ Tabled(after[n])
    BY <1>6, <2>1 DEF Grows
  <2>3. after[n + 1] = Upsert(after[n], nodes[n + 1]) /\ nodes[n + 1] \in Nodes
    BY <1>1, <1>4, <2>1 DEF UpdatesGo
  <2>4. Grows(after[n], after[n + 1])
    BY <2>2, <2>3, UpsertGrows
  <2> QED
    BY <2>2, <2>4, GrowsTransitive
<1> HIDE DEF Good
<1>7. m \in Good
  BY <1>1, <1>5, <1>6, CountUp
<1> QED
  <2>1. m \in 0 .. m
    BY <1>1
  <2> QED
    BY <1>3, <1>7, <2>1 DEF Good


LEMMA NodeListsTyped == NodeLists \subseteq Seq(Nodes)
<1> SUFFICES ASSUME NEW s \in NodeLists PROVE s \in Seq(Nodes)
  OBVIOUS
<1>1. PICK k \in 0 .. MaxNodes : s \in [1 .. k -> Nodes]
  BY DEF NodeLists
<1>2. k \in Nat
  BY DhtAssumption
<1> QED
  BY <1>1, <1>2

LEMMA HearGrows ==
  ASSUME Tabled(table), NEW n, NEW m \in Nodes, NEW nodes \in NodeLists, NEW token,
         Hear(n, m, nodes, token)
  PROVE  Grows(table, table')
<1>1. Grows(table, Upsert(table, m))
  BY UpsertGrows
<1>2. Grows(Upsert(table, m), UpsertAll(Upsert(table, m), nodes))
  BY <1>1, NodeListsTyped, UpsertAllGrows DEF Grows
<1> QED
  BY <1>1, <1>2, GrowsTransitive DEF Hear

LEMMA ServeGrows ==
  ASSUME Tabled(table), NEW from \in Askers, Serve(from)
  PROVE  Grows(table, table')
  BY UpsertGrows, DhtAssumption DEF Serve

LEMMA TabledTyped ==
  ASSUME NEW u, Tabled(u)
  PROVE  ContactsOf(u) \subseteq Nodes /\ \A b \in Buckets : Range(u[b]) \subseteq Nodes
<1>1. \A b \in Buckets : Range(u[b]) \subseteq Nodes
  BY DEF Tabled, Range
<1> QED
  BY <1>1 DEF ContactsOf

(***************************************************************************)
(* The inductive invariant.  A walk heeds all that it takes up: a contact  *)
(* that is neither covered nor a candidate was dropped for MaxCandidates   *)
(* others that are no farther, and these are covered or candidates still,  *)
(* or were themselves dropped for such ones.                               *)
(***************************************************************************)

Jobs == [op : {"none", "bootstrap", "find", "announce"}, target : IdSpace, seed : Seq(Addrs)]

WalkTyped ==
  /\ job \in Jobs
  /\ any \in BOOLEAN /\ (step = "ping" => job.seed # <<>>)
  /\ step \in {"idle", "ping", "pick", "wait", "confirm"}
  /\ candidates \subseteq Nodes /\ asked \subseteq Nodes
  /\ pending \subseteq Nodes /\ late \subseteq Nodes
  /\ budget \in Nat
  /\ heard \subseteq Nodes /\ given \subseteq Addrs

RestTyped ==
  /\ commands \in Seq(AllCommands) /\ announced \subseteq Addrs
  /\ received \in [Addrs -> Ages] /\ issued \in [Addrs -> Ages]
  /\ cache \in [Hashes -> Seq(Addrs)]

\* Those of S that are no farther from t than n.
AsNear(n, S, t) == {c \in S : ~ Nearer(IdOf[n], IdOf[c], t)}

Heeded ==
  Walking =>
    /\ candidates \subseteq heard
    /\ \A n \in heard \ (candidates \cup Covered) :
         Cardinality(AsNear(n, candidates \cup Covered, job.target)) >= MaxCandidates

WalkInv == WalkTyped /\ BudgetAccounted /\ Heeded

GivenKept == (Walking => given \subseteq Fresh) /\ AnnounceReachesGivers

DhtInv == Tabled(table) /\ RestTyped /\ WalkInv /\ GivenKept

LEMMA CommandsTyped == AllCommands \subseteq Jobs /\ NoJob \in Jobs
<1>1. SelfId \in IdSpace /\ Seeds \in Seq(Addrs) /\ <<>> \in Seq(Addrs) /\ Hashes \subseteq IdSpace
  BY TableAssumption, DhtAssumption
<1>2. \A op \in {"none", "bootstrap", "find", "announce"}, t \in IdSpace, s \in Seq(Addrs) :
        Job(op, t, s) \in Jobs
  BY DEF Job, Jobs
<1>3. Job("bootstrap", SelfId, Seeds) \in Jobs /\ NoJob \in Jobs
  BY <1>1, <1>2 DEF NoJob
<1>4. \A op \in {"find", "announce"}, h \in Hashes : Job(op, h, <<>>) \in Jobs
  BY <1>1, <1>2
<1> QED
  BY <1>3, <1>4 DEF AllCommands

\* Nobody counts twice among the candidates and those covered.
LEMMA MoreAsNear ==
  ASSUME NEW S \in SUBSET Nodes, NEW T \in SUBSET Nodes, NEW n, NEW t,
         AsNear(n, S, t) \subseteq T
  PROVE  Cardinality(AsNear(n, S, t)) <= Cardinality(AsNear(n, T, t))
<1>1. AsNear(n, S, t) \subseteq AsNear(n, T, t)
  BY DEF AsNear
<1>2. AsNear(n, T, t) \in SUBSET Nodes
  BY DEF AsNear
<1>3. IsFiniteSet(AsNear(n, T, t))
  BY <1>2, NodesFinite
<1> QED
  BY <1>1, <1>3, FS_Subset

(***************************************************************************)
(* Commands.                                                               *)
(***************************************************************************)

LEMMA FinishInv ==
  ASSUME Finish PROVE WalkInv' /\ GivenKept'
<1>1. WalkTyped'
  BY CommandsTyped DEF Finish, WalkTyped
<1>2. step' = "idle"
  BY DEF Finish
<1> QED
  BY <1>1, <1>2 DEF WalkInv, BudgetAccounted, Heeded, Walking, GivenKept, AnnounceReachesGivers

LEMMA BeginInv ==
  ASSUME NEW c \in Jobs, NEW u, Tabled(u), BeginWalk(c, u)
  PROVE  WalkInv' /\ GivenKept'
<1>1. CASE ContactsOf(u) = {}
  BY <1>1, FinishInv DEF BeginWalk
<1>2. CASE ContactsOf(u) # {}
  <2>1. /\ job' = c /\ step' = "pick" /\ any' = FALSE
        /\ candidates' = Closest(u, c.target, MaxCandidates)
        /\ heard' = ContactsOf(u)
        /\ budget' = Budget
        /\ asked' = {} /\ pending' = {} /\ late' = {} /\ given' = {}
    BY <1>2 DEF BeginWalk
  <2>2. ContactsOf(u) \in SUBSET Nodes /\ c.target \in IdSpace
        /\ MaxCandidates \in Nat /\ Budget \in Nat
    BY TabledTyped, DhtAssumption DEF Jobs
  <2>3. candidates' \in Nearest(ContactsOf(u), c.target, MaxCandidates)
    BY <2>1, <2>2, ClosestIsNearest
  <2>4. /\ candidates' \subseteq ContactsOf(u)
        /\ \A y \in ContactsOf(u) \ candidates' :
             /\ Cardinality(candidates') = MaxCandidates
             /\ \A x \in candidates' : ~ Nearer(IdOf[y], IdOf[x], c.target)
    BY <2>2, <2>3, NearestFacts
  <2>5. WalkTyped'
    BY <2>1, <2>2, <2>4 DEF WalkTyped
  <2>6. BudgetAccounted'
    <3>1. Cardinality({}) = 0
      BY FS_EmptySet
    <3> QED
      BY <2>1, <2>2, <3>1 DEF BudgetAccounted
  <2>7. Heeded'
    <3>0. Covered' = {}
      BY <2>1 DEF Covered, queried
    <3> SUFFICES ASSUME NEW n \in heard' \ (candidates' \cup Covered')
                 PROVE  Cardinality(AsNear(n, candidates' \cup Covered', job'.target)) >= MaxCandidates
      BY <2>1, <2>4 DEF Heeded
    <3>1. AsNear(n, candidates' \cup Covered', job'.target) = candidates'
      BY <2>1, <2>4, <3>0 DEF AsNear
    <3>2. Cardinality(candidates') = MaxCandidates
      BY <2>1, <2>4
    <3> QED
      BY <2>2, <3>1, <3>2
  <2>8. GivenKept'
    BY <2>1 DEF GivenKept, AnnounceReachesGivers
  <2> QED
    BY <2>5, <2>6, <2>7, <2>8 DEF WalkInv
<1> QED
  BY <1>1, <1>2

LEMMA PingNextInv ==
  ASSUME WalkTyped, NEW c \in Jobs, NEW answered \in BOOLEAN, NEW u, Tabled(u),
         PingNext(c, answered, u)
  PROVE  WalkInv' /\ GivenKept'
<1>1. CASE c.seed # <<>>
  <2>1. /\ job' = c /\ step' = "ping" /\ any' = answered /\ budget' = Attempts
        /\ UNCHANGED <<candidates, asked, pending, late, heard, given>>
    BY <1>1 DEF PingNext
  <2>2. Attempts \in Nat
    BY DhtAssumption
  <2>3. any' \in BOOLEAN
    BY <2>1
  <2>4. WalkTyped'
    BY <1>1, <2>1, <2>2, <2>3 DEF WalkTyped
  <2> QED
    BY <2>1, <2>4 DEF WalkInv, BudgetAccounted, Heeded, Walking, GivenKept, AnnounceReachesGivers
<1>2. CASE c.seed = <<>>
  BY <1>2, BeginInv, FinishInv DEF PingNext
<1> QED
  BY <1>1, <1>2

LEMMA TakeCommandInv ==
  ASSUME DhtInv, TakeCommand PROVE DhtInv'
<1>1. /\ commands \in Seq(AllCommands) /\ commands # <<>>
      /\ commands' = Tail(commands)
      /\ UNCHANGED <<table, announced, received, serverVars>>
  BY DEF DhtInv, RestTyped, TakeCommand
<1>2. Head(commands) \in AllCommands /\ Tail(commands) \in Seq(AllCommands)
  BY <1>1, HeadTailProperties
<1>3. Head(commands) \in Jobs
  BY <1>2, CommandsTyped
<1>4. WalkInv' /\ GivenKept'
  <2>1. Tabled(table) /\ WalkTyped
    BY DEF DhtInv, WalkInv
  <2>2. PingNext(Head(commands), FALSE, table) \/ BeginWalk(Head(commands), table)
    BY DEF TakeCommand
  <2> QED
    BY <1>3, <2>1, <2>2, PingNextInv, BeginInv
<1> QED
  BY <1>1, <1>2, <1>4 DEF DhtInv, RestTyped, serverVars

LEMMA PingedTyped ==
  ASSUME WalkTyped, step = "ping"
  PROVE  Pinged \in Jobs
<1>1. job \in Jobs /\ job.seed \in Seq(Addrs) /\ job.seed # <<>>
  BY DEF WalkTyped, Jobs
<1>2. Tail(job.seed) \in Seq(Addrs)
  BY <1>1, HeadTailProperties
<1>3. Pinged = [job EXCEPT !.seed = Tail(job.seed)]
  BY DEF Pinged
<1>4. Pinged \in Jobs
  BY <1>1, <1>2, <1>3 DEF Jobs
<1> QED
  BY <1>4

LEMMA PongInv ==
  ASSUME DhtInv, NEW n \in Nodes, Pong(n) PROVE DhtInv'
<1> DEFINE u == Upsert(table, n)
<1>1. step = "ping" /\ WalkTyped /\ Tabled(table)
  BY DEF DhtInv, WalkInv, Pong
<1>2. Pinged \in Jobs
  BY <1>1, PingedTyped
<1>3. Tabled(u)
  BY <1>1, <1>2, UpsertGrows DEF Grows
<1>4. table' = u /\ PingNext(Pinged, TRUE, u) /\ UNCHANGED <<commands, announced, received, serverVars>>
  BY DEF Pong
<1> HIDE DEF u
<1>5. WalkInv' /\ GivenKept'
  BY <1>1, <1>2, <1>3, <1>4, PingNextInv
<1> QED
  BY <1>3, <1>4, <1>5 DEF DhtInv, RestTyped, serverVars

LEMMA PingTimeoutInv ==
  ASSUME DhtInv, PingTimeout PROVE DhtInv'
<1>1. step = "ping" /\ WalkTyped /\ Tabled(table)
  BY DEF DhtInv, WalkInv, PingTimeout
<1>2. UNCHANGED <<table, commands, announced, received, serverVars>>
  BY DEF PingTimeout
<1>3. CASE budget > 1
  <2>1. budget' = budget - 1
        /\ UNCHANGED <<job, step, any, candidates, asked, pending, late, heard, given>>
    BY <1>3 DEF PingTimeout
  <2>2. budget' \in Nat
    BY <1>1, <1>3, <2>1 DEF WalkTyped
  <2>3. WalkTyped'
    BY <1>1, <2>1, <2>2 DEF WalkTyped
  <2>4. WalkInv' /\ GivenKept'
    BY <1>1, <2>1, <2>3 DEF WalkInv, BudgetAccounted, Heeded, Walking, GivenKept, AnnounceReachesGivers
  <2> QED
    BY <1>1, <1>2, <2>4 DEF DhtInv, RestTyped, serverVars
<1>4. CASE ~ (budget > 1)
  <2>1. PingNext(Pinged, any, table) /\ any \in BOOLEAN
    BY <1>1, <1>4 DEF PingTimeout, WalkTyped
  <2>2. WalkInv' /\ GivenKept'
    BY <1>1, <2>1, PingedTyped, PingNextInv
  <2> QED
    BY <1>1, <1>2, <2>2 DEF DhtInv, RestTyped, serverVars
<1> QED
  BY <1>3, <1>4

(***************************************************************************)
(* The walk.                                                               *)
(***************************************************************************)

LEMMA PickInv ==
  ASSUME DhtInv, NEW round, NEW sentTo, Pick(round, sentTo) PROVE DhtInv'
<1>1. /\ step = "pick" /\ step' = "wait"
      /\ round \in Nearest(Unasked(candidates), job.target, RoundSize)
      /\ sentTo \subseteq round
      /\ asked' = asked \cup round
      /\ budget' = budget - Cardinality(round)
      /\ pending' = sentTo
      /\ UNCHANGED <<table, commands, job, any, candidates, late, heard, given, announced,
                     received, serverVars>>
  BY DEF Pick, Cost
<1>2. WalkTyped /\ BudgetAccounted /\ Heeded
  BY DEF DhtInv, WalkInv
<1>3. candidates \subseteq Nodes /\ asked \subseteq Nodes /\ budget \in Nat
  BY <1>2 DEF WalkTyped
<1>4. RoundSize \in Nat /\ RoundSize <= budget
  BY <1>3, DhtAssumption DEF RoundSize, LeastOf
<1>5. round \subseteq Unasked(candidates) /\ Cardinality(round) <= RoundSize
  <2>1. Unasked(candidates) \in SUBSET Nodes
    BY <1>3 DEF Unasked
  <2> QED
    BY <1>1, <1>4, <2>1, NearestFacts
<1>6. /\ IsFiniteSet(round) /\ Cardinality(round) \in Nat
      /\ IsFiniteSet(asked) /\ Cardinality(asked) \in Nat
  <2>1. round \in SUBSET Nodes
    BY <1>3, <1>5 DEF Unasked
  <2> QED
    BY <1>3, <2>1, NodesFinite
<1>7. WalkTyped'
  <2>1. budget' \in Nat
    BY <1>1, <1>3, <1>4, <1>5, <1>6
  <2>2. asked' \subseteq Nodes /\ pending' \subseteq Nodes
    BY <1>1, <1>3, <1>5 DEF Unasked
  <2> QED
    BY <1>1, <1>2, <2>1, <2>2 DEF WalkTyped
<1>8. BudgetAccounted'
  <2>1. asked \cap round = {}
    BY <1>5 DEF Unasked, queried
  <2>2. Cardinality(asked \cup round) = Cardinality(asked) + Cardinality(round)
    <3>1. Cardinality(asked \cap round) = 0
      BY <2>1, FS_EmptySet
    <3>2. Cardinality(asked \cup round)
            = Cardinality(asked) + Cardinality(round) - Cardinality(asked \cap round)
      BY <1>6, FS_Union
    <3> QED
      BY <1>6, <3>1, <3>2
  <2>3. budget + Cardinality(asked) = Budget
    BY <1>1, <1>2 DEF BudgetAccounted, Walking
  <2> QED
    BY <1>1, <1>3, <1>6, <2>2, <2>3, DhtAssumption DEF BudgetAccounted
\* More is covered now.
<1>9. Heeded'
  <2>1. Covered \subseteq Covered' /\ heard' = heard /\ heard \subseteq Nodes
    BY <1>1, <1>2 DEF Covered, queried, WalkTyped
  <2>2. candidates \subseteq heard
    BY <1>1, <1>2 DEF Heeded, Walking
  <2> SUFFICES ASSUME NEW n \in heard \ (candidates \cup Covered')
               PROVE  Cardinality(AsNear(n, candidates \cup Covered', job.target)) >= MaxCandidates
    BY <1>1, <2>1, <2>2 DEF Heeded
  <2> DEFINE S == candidates \cup Covered
             T == candidates \cup Covered'
             t == job.target
  <2>3. S \in SUBSET Nodes /\ T \in SUBSET Nodes /\ S \subseteq T
    BY <1>3, <2>1 DEF Covered
  <2>4. Cardinality(AsNear(n, S, t)) >= MaxCandidates
    BY <1>1, <1>2, <2>1 DEF Heeded, Walking
  <2> HIDE DEF S, T, t
  <2>5. AsNear(n, S, t) \in SUBSET Nodes /\ AsNear(n, T, t) \in SUBSET Nodes /\ AsNear(n, S, t) \subseteq T
    BY <2>3 DEF AsNear
  <2>6. Cardinality(AsNear(n, S, t)) <= Cardinality(AsNear(n, T, t))
    BY <2>3, <2>5, MoreAsNear
  <2>7. Cardinality(AsNear(n, S, t)) \in Nat /\ Cardinality(AsNear(n, T, t)) \in Nat /\ MaxCandidates \in Nat
    BY <2>5, NodesFinite, DhtAssumption
  <2>8. Cardinality(AsNear(n, T, t)) >= MaxCandidates
    BY <2>4, <2>6, <2>7
  <2> QED
    BY <2>8 DEF T, t
<1>10. GivenKept'
  BY <1>1 DEF DhtInv, GivenKept, Walking, AnnounceReachesGivers, Fresh
<1> QED
  BY <1>1, <1>7, <1>8, <1>9, <1>10 DEF DhtInv, WalkInv, RestTyped, serverVars

\* The cap drops only what the rest outdoes.
LEMMA MergeHeeds ==
  ASSUME WalkTyped, Heeded, Walking, NEW nodes \in SUBSET Nodes, NEW kept \in Merge(nodes)
  PROVE  /\ kept \subseteq heard \cup nodes
         /\ \A n \in (heard \cup nodes) \ (kept \cup Covered) :
              Cardinality(AsNear(n, kept \cup Covered, job.target)) >= MaxCandidates
<1> DEFINE S == candidates \cup nodes
           t == job.target
<1>1. S \in SUBSET Nodes /\ Covered \subseteq Nodes /\ heard \subseteq Nodes /\ t \in IdSpace
  BY DEF WalkTyped, Jobs, Covered
<1>2. MaxCandidates \in Nat
  BY DhtAssumption
<1>3. kept \in Nearest(S, t, MaxCandidates)
  BY DEF Merge
<1> HIDE DEF t
<1>4. /\ kept \subseteq S
      /\ \A y \in S \ kept : /\ Cardinality(kept) = MaxCandidates
                             /\ \A x \in kept : ~ Nearer(IdOf[y], IdOf[x], t)
  <2> HIDE DEF S
  <2> QED
    BY <1>1, <1>2, <1>3, NearestFacts
<1>5. kept \subseteq Nodes
  BY <1>1, <1>4
\* Dropped now, or outdone by one that is dropped now: all that is kept outdoes it.
<1>6. ASSUME NEW n \in Nodes, NEW d \in S \ kept, ~ Nearer(IdOf[n], IdOf[d], t)
      PROVE  Cardinality(AsNear(n, kept \cup Covered, t)) >= MaxCandidates
  <2>1. ASSUME NEW x \in kept PROVE ~ Nearer(IdOf[n], IdOf[x], t)
    <3>1. ~ Nearer(IdOf[d], IdOf[x], t)
      BY <1>4, <1>6
    <3>2. IdOf[n] \in IdSpace /\ IdOf[d] \in IdSpace /\ IdOf[x] \in IdSpace
      BY <1>1, <1>5, IdsTyped
    <3> QED
      BY <1>1, <1>6, <3>1, <3>2, NotNearerTransitive
  <2>2. kept \subseteq AsNear(n, kept \cup Covered, t)
    BY <2>1 DEF AsNear
  <2>3. AsNear(n, kept \cup Covered, t) \in SUBSET Nodes
    BY <1>1, <1>5 DEF AsNear
  <2> DEFINE A == AsNear(n, kept \cup Covered, t)
  <2> HIDE DEF A
  <2>4. IsFiniteSet(A) /\ Cardinality(A) \in Nat
    BY <2>3, NodesFinite DEF A
  <2>5. Cardinality(kept) <= Cardinality(A)
    BY <2>2, <2>4, FS_Subset DEF A
  <2>6. Cardinality(kept) = MaxCandidates
    BY <1>4, <1>6
  <2>7. Cardinality(A) >= MaxCandidates
    BY <1>2, <2>4, <2>5, <2>6
  <2> QED
    BY <2>7 DEF A
<1>7. ASSUME NEW n \in (heard \cup nodes) \ (kept \cup Covered)
      PROVE  Cardinality(AsNear(n, kept \cup Covered, t)) >= MaxCandidates
  <2>1. n \in Nodes
    BY <1>1, <1>7
  <2>2. CASE n \in S
    <3>1. ~ Nearer(IdOf[n], IdOf[n], t)
      BY DEF Nearer
    <3> QED
      BY <1>6, <1>7, <2>1, <2>2, <3>1
  <2>3. CASE n \notin S
    <3>1. n \in heard \ (candidates \cup Covered)
      BY <1>7, <2>3
    <3> DEFINE A == AsNear(n, candidates \cup Covered, t)
               B == AsNear(n, kept \cup Covered, t)
    <3>2. Cardinality(A) >= MaxCandidates
      BY <3>1 DEF Heeded, t
    <3>3. CASE A \subseteq kept \cup Covered
      <4>1. candidates \cup Covered \in SUBSET Nodes /\ kept \cup Covered \in SUBSET Nodes
        BY <1>1, <1>5
      <4>2. Cardinality(A) <= Cardinality(B)
        BY <3>3, <4>1, MoreAsNear
      <4>3. A \in SUBSET Nodes /\ B \in SUBSET Nodes
        BY <4>1 DEF AsNear
      <4> HIDE DEF A, B
      <4>4. Cardinality(A) \in Nat /\ Cardinality(B) \in Nat
        BY <4>3, NodesFinite
      <4>5. Cardinality(B) >= MaxCandidates
        BY <1>2, <3>2, <4>2, <4>4
      <4> QED
        BY <4>5 DEF B
    <3>4. CASE ~ (A \subseteq kept \cup Covered)
      <4>1. PICK d \in candidates : d \notin kept /\ ~ Nearer(IdOf[n], IdOf[d], t)
        BY <3>4 DEF AsNear
      <4> QED
        BY <1>6, <2>1, <4>1
    <3> QED
      BY <3>3, <3>4
  <2> QED
    BY <2>2, <2>3
<1>8. kept \subseteq heard \cup nodes
  BY <1>4 DEF Heeded
<1> QED
  BY <1>7, <1>8 DEF t

LEMMA HearInv ==
  ASSUME DhtInv, NEW n \in Nodes, NEW m \in Nodes, NEW nodes \in NodeLists,
         NEW token \in BOOLEAN, Hear(n, m, nodes, token)
  PROVE  DhtInv'
<1>1. /\ step = "wait" /\ step' = "wait"
      /\ pending' = pending \ {n} /\ late' = late \ {n}
      /\ candidates' \in Merge(New(nodes))
      /\ heard' = heard \cup New(nodes)
      /\ UNCHANGED <<commands, job, any, asked, budget, announced, serverVars>>
  BY DEF Hear
<1>2. \/ received' = [received EXCEPT ![AddrOf[n]] = "fresh"] /\ given' = given \cup {AddrOf[n]}
      \/ UNCHANGED <<received, given>>
  BY DEF Hear, KeepToken
<1>3. WalkTyped /\ BudgetAccounted /\ Heeded /\ RestTyped /\ Tabled(table) /\ GivenKept
  BY DEF DhtInv, WalkInv
<1>4. New(nodes) \subseteq Nodes /\ \A k \in New(nodes) : AddrOf[k] \notin queried
  <2>1. nodes \in Seq(Nodes)
    BY NodeListsTyped
  <2>2. \A i \in DOMAIN nodes : nodes[i] \in Nodes
    BY <2>1
  <2> QED
    BY <2>2 DEF New
<1>5. /\ candidates' \subseteq heard \cup New(nodes)
      /\ \A k \in (heard \cup New(nodes)) \ (candidates' \cup Covered) :
           Cardinality(AsNear(k, candidates' \cup Covered, job.target)) >= MaxCandidates
  BY <1>1, <1>3, <1>4, MergeHeeds DEF Walking
<1>a. Covered' = Covered
  BY <1>1, <1>4 DEF Covered, queried
<1>b. AddrOf[n] \in Addrs /\ candidates' \subseteq Nodes
  BY <1>3, <1>4, <1>5, DhtAssumption DEF WalkTyped
<1>6. Tabled(table')
  BY <1>3, HearGrows DEF Grows
<1>7. WalkTyped'
  <2>1. heard' \subseteq Nodes /\ given' \subseteq Addrs
    BY <1>1, <1>2, <1>3, <1>4, <1>b DEF WalkTyped
  <2> QED
    BY <1>1, <1>3, <1>b, <2>1 DEF WalkTyped
<1>8. BudgetAccounted' /\ Heeded'
  BY <1>1, <1>3, <1>5, <1>a DEF BudgetAccounted, Heeded, Walking
<1>9. /\ received' \in [Addrs -> Ages] /\ Fresh \subseteq Fresh'
      /\ given' # given => AddrOf[n] \in Fresh'
  <2>1. received \in [Addrs -> Ages]
    BY <1>3 DEF RestTyped
  <2>2. "fresh" \in Ages
    BY DEF Ages
  <2>3. CASE UNCHANGED <<received, given>>
    BY <2>1, <2>3 DEF Fresh
  <2>4. CASE received' = [received EXCEPT ![AddrOf[n]] = "fresh"]
    <3>1. received' \in [Addrs -> Ages] /\ received'[AddrOf[n]] = "fresh"
          /\ \A a \in Addrs : a # AddrOf[n] => received'[a] = received[a]
      BY <1>b, <2>1, <2>2, <2>4
    <3> QED
      BY <1>b, <3>1 DEF Fresh
  <2> QED
    BY <1>2, <2>3, <2>4
<1>10. GivenKept'
  BY <1>1, <1>2, <1>3, <1>9 DEF GivenKept, Walking, AnnounceReachesGivers
<1>11. RestTyped'
  BY <1>1, <1>3, <1>9 DEF RestTyped, serverVars
<1> QED
  BY <1>6, <1>7, <1>8, <1>10, <1>11 DEF DhtInv, WalkInv

\* Steps that take nobody off the candidates but those covered.
LEMMA QuietInv ==
  ASSUME DhtInv, Walking, Walking', WalkTyped',
         candidates' \subseteq candidates, candidates' \cup Covered = candidates \cup Covered,
         UNCHANGED <<table, commands, job, asked, budget, heard, given, announced, received,
                     serverVars>>
  PROVE  DhtInv'
<1>1. BudgetAccounted'
  BY DEF DhtInv, WalkInv, BudgetAccounted
<1>2. Heeded'
  <2>1. Heeded /\ Covered' = Covered
    BY DEF DhtInv, WalkInv, Covered, queried
  <2> QED
    BY <2>1 DEF Heeded
<1>3. GivenKept'
  BY DEF DhtInv, GivenKept, Walking, AnnounceReachesGivers, Fresh
<1> QED
  BY <1>1, <1>2, <1>3 DEF DhtInv, WalkInv, RestTyped, serverVars

LEMMA HearFromElsewhereInv ==
  ASSUME DhtInv, NEW n \in Nodes, HearFromElsewhere(n) PROVE DhtInv'
<1>1. /\ step = "wait" /\ pending' = pending \ {n} /\ late' = late \ {n}
      /\ UNCHANGED <<table, commands, job, step, any, candidates, asked, budget, heard, given,
                     announced, received, serverVars>>
  BY DEF HearFromElsewhere
<1>2. WalkTyped'
  BY <1>1 DEF DhtInv, WalkInv, WalkTyped
<1> QED
  BY <1>1, <1>2, QuietInv DEF Walking

LEMMA EndRoundInv ==
  ASSUME DhtInv, EndRound PROVE DhtInv'
<1>1. /\ step = "wait" /\ step' = "pick"
      /\ late' = late \cup pending /\ pending' = {}
      /\ candidates' = Unasked(candidates)
      /\ UNCHANGED <<table, commands, job, any, asked, budget, heard, given, announced, received,
                     serverVars>>
  BY DEF EndRound
<1>2. WalkTyped'
  BY <1>1 DEF DhtInv, WalkInv, WalkTyped, Unasked
<1>3. candidates' \subseteq candidates /\ candidates' \cup Covered = candidates \cup Covered
  BY <1>1 DEF DhtInv, WalkInv, Heeded, Walking, Unasked, Covered
<1> QED
  BY <1>1, <1>2, <1>3, QuietInv DEF Walking

LEMMA EndWalkInv ==
  ASSUME DhtInv, EndWalk PROVE DhtInv'
<1>1. step = "pick" /\ UNCHANGED <<table, commands, received, serverVars>>
  BY DEF EndWalk, WalkOver
<1>2. CASE Finish /\ announced' \in {Fresh, announced}
  <2>1. announced' \subseteq Addrs
    BY <1>2 DEF DhtInv, RestTyped, Fresh
  <2> QED
    BY <1>1, <1>2, <2>1, FinishInv DEF DhtInv, RestTyped, serverVars
<1>3. CASE announced' = Fresh /\ step' = "confirm" /\ UNCHANGED <<job, any, walkVars>>
  <2>1. WalkTyped'
    BY <1>3 DEF DhtInv, WalkInv, WalkTyped, walkVars
  <2>2. WalkInv'
    BY <1>3, <2>1 DEF WalkInv, BudgetAccounted, Heeded, Walking
  <2>3. GivenKept'
    BY <1>1, <1>3 DEF DhtInv, GivenKept, Walking, AnnounceReachesGivers, walkVars
  <2>4. Fresh \subseteq Addrs
    BY DEF Fresh
  <2> QED
    BY <1>1, <1>3, <2>2, <2>3, <2>4 DEF DhtInv, RestTyped, serverVars
<1> QED
  BY <1>2, <1>3 DEF EndWalk

LEMMA ConfirmedInv ==
  ASSUME DhtInv, Confirmed PROVE DhtInv'
<1>1. Finish /\ UNCHANGED <<table, commands, announced, received, serverVars>>
  BY DEF Confirmed
<1> QED
  BY <1>1, FinishInv DEF DhtInv, RestTyped, serverVars

(***************************************************************************)
(* Queries of others, and time.                                            *)
(***************************************************************************)

\* Steps that leave walks and received tokens alone.
LEMMA AsideInv ==
  ASSUME DhtInv, Tabled(table'), issued' \in [Addrs -> Ages], cache' \in [Hashes -> Seq(Addrs)],
         UNCHANGED <<commands, job, step, any, walkVars, announced, received>>
  PROVE  DhtInv'
<1>1. WalkTyped' /\ BudgetAccounted'
  BY DEF DhtInv, WalkInv, WalkTyped, BudgetAccounted, Walking, walkVars
<1>2. Heeded'
  <2>1. Heeded
    BY DEF DhtInv, WalkInv
  <2> QED
    BY <2>1 DEF Heeded, Walking, walkVars, Covered, queried
<1>3. GivenKept'
  BY DEF DhtInv, GivenKept, Walking, AnnounceReachesGivers, Fresh, walkVars
<1> QED
  BY <1>1, <1>2, <1>3 DEF DhtInv, WalkInv, RestTyped

LEMMA RememberedTyped ==
  ASSUME NEW peers \in Seq(Addrs), NEW a \in Addrs
  PROVE  Remembered(peers, a) \in Seq(Addrs)
<1> DEFINE more == IF a \in Range(peers) THEN peers ELSE Append(peers, a)
<1>1. more \in Seq(Addrs)
  BY AppendProperties
<1> HIDE DEF more
<1>2. Len(more) > CacheCap => Tail(more) \in Seq(Addrs)
  <2> SUFFICES ASSUME Len(more) > CacheCap PROVE Tail(more) \in Seq(Addrs)
    OBVIOUS
  <2>1. Len(more) # 0
    BY <1>1, DhtAssumption
  <2>2. more # <<>>
    BY <2>1
  <2> QED
    BY <1>1, <2>2, HeadTailProperties
<1> QED
  BY <1>1, <1>2 DEF Remembered, more

LEMMA ServerInv ==
  ASSUME DhtInv, ServerStep PROVE DhtInv'
<1>1. PICK n \in Askers :
        \/ ServeLookup(n)
        \/ ServeGetPeers(n)
        \/ \E h \in Hashes, right \in BOOLEAN : ServeAnnounce(n, h, right)
  BY DEF ServerStep
<1>2. Serve(n)
  BY <1>1 DEF ServeLookup, ServeGetPeers, ServeAnnounce
<1>3. /\ Tabled(table')
      /\ UNCHANGED <<commands, job, step, any, walkVars, announced, received>>
  BY <1>2, ServeGrows DEF Serve, Grows, DhtInv
<1>4. n \in Nodes /\ AddrOf[n] \in Addrs /\ issued \in [Addrs -> Ages] /\ cache \in [Hashes -> Seq(Addrs)]
  BY DhtAssumption DEF DhtInv, RestTyped
<1>5. issued' \in [Addrs -> Ages] /\ cache' \in [Hashes -> Seq(Addrs)]
  <2>1. CASE ServeLookup(n)
    BY <1>4, <2>1 DEF ServeLookup, serverVars
  <2>2. CASE ServeGetPeers(n)
    <3>1. "fresh" \in Ages
      BY DEF Ages
    <3> QED
      BY <1>4, <2>2, <3>1 DEF ServeGetPeers
  <2>3. ASSUME NEW h \in Hashes, NEW right \in BOOLEAN, ServeAnnounce(n, h, right)
        PROVE  issued' \in [Addrs -> Ages] /\ cache' \in [Hashes -> Seq(Addrs)]
    <3>1. Remembered(cache[h], AddrOf[n]) \in Seq(Addrs)
      BY <1>4, RememberedTyped
    <3>2. cache' = [cache EXCEPT ![h] = Remembered(cache[h], AddrOf[n])] \/ cache' = cache
      BY <2>3 DEF ServeAnnounce
    <3> QED
      BY <1>4, <2>3, <3>1, <3>2 DEF ServeAnnounce
  <2> QED
    BY <1>1, <2>1, <2>2, <2>3
<1> QED
  BY <1>3, <1>5, AsideInv

LEMMA TimeInv ==
  ASSUME DhtInv, TimeStep PROVE DhtInv'
<1>1. PICK n \in Addrs : ExpireReceived(n) \/ ExpireIssued(n)
  BY DEF TimeStep
<1>2. "stale" \in Ages
  BY DEF Ages
<1>3. CASE ExpireIssued(n)
  <2>1. issued' \in [Addrs -> Ages] /\ cache' \in [Hashes -> Seq(Addrs)]
    BY <1>2, <1>3 DEF ExpireIssued, DhtInv, RestTyped
  <2> QED
    BY <1>3, <2>1, AsideInv DEF ExpireIssued, DhtInv
<1>4. CASE ExpireReceived(n)
  <2>1. /\ step = "idle" /\ received' = [received EXCEPT ![n] = "stale"]
        /\ UNCHANGED <<table, commands, job, step, any, walkVars, announced, serverVars>>
    BY <1>4 DEF ExpireReceived
  <2>2. received' \in [Addrs -> Ages]
    BY <1>2, <2>1 DEF DhtInv, RestTyped
  <2>3. WalkInv'
    BY <2>1 DEF DhtInv, WalkInv, WalkTyped, BudgetAccounted, Heeded, Walking, walkVars, Covered, queried
  <2>4. GivenKept'
    BY <2>1 DEF GivenKept, Walking, AnnounceReachesGivers
  <2> QED
    BY <2>1, <2>2, <2>3, <2>4 DEF DhtInv, RestTyped, serverVars
<1> QED
  BY <1>1, <1>3, <1>4

(***************************************************************************)
(* What holds of every reachable state.                                    *)
(***************************************************************************)

LEMMA InitDht == Init => DhtInv
<1> SUFFICES ASSUME Init PROVE DhtInv
  OBVIOUS
<1>1. Tabled(table)
  <2>1. table = [b \in Buckets |-> <<>>] /\ K \in Nat
    BY TableAssumption DEF Init, NewTable
  <2>2. \A b \in Buckets : Bucket(b, <<>>)
    BY <2>1 DEF Bucket
  <2>3. <<>> \in Seq(Nodes)
    OBVIOUS
  <2> QED
    BY <2>1, <2>2, <2>3 DEF Tabled
<1>2. RestTyped
  <2>1. commands \in Seq(AllCommands)
    <3>1. PICK k \in 0 .. MaxCommands : commands \in [1 .. k -> AllCommands]
      BY DEF Init, SeqOf
    <3>2. k \in Nat
      BY DhtAssumption
    <3> QED
      BY <3>1, <3>2
  <2>2. "none" \in Ages /\ <<>> \in Seq(Addrs)
    BY DEF Ages
  <2> QED
    BY <2>1, <2>2 DEF Init, RestTyped
<1>3. WalkTyped
  BY CommandsTyped DEF Init, WalkTyped
<1>4. BudgetAccounted /\ Heeded /\ GivenKept
  BY DEF Init, BudgetAccounted, Heeded, Walking, GivenKept, AnnounceReachesGivers
<1> QED
  BY <1>1, <1>2, <1>3, <1>4 DEF DhtInv, WalkInv

LEMMA StepDht == DhtInv /\ [Next]_vars => DhtInv'
<1> SUFFICES ASSUME DhtInv, [Next]_vars PROVE DhtInv'
  OBVIOUS
<1>1. CASE OwnStep
  BY <1>1, TakeCommandInv, PongInv, PingTimeoutInv, PickInv, EndRoundInv, EndWalkInv, ConfirmedInv
  DEF OwnStep
<1>2. CASE AnswerStep
  BY <1>2, HearInv, HearFromElsewhereInv DEF AnswerStep
<1>3. CASE ServerStep
  BY <1>3, ServerInv
<1>4. CASE TimeStep
  BY <1>4, TimeInv
<1>5. CASE UNCHANGED vars
  <2>1. UNCHANGED <<table, commands, job, step, any, walkVars, announced, received, serverVars>>
    BY <1>5 DEF vars
  <2> QED
    BY <2>1, AsideInv DEF DhtInv, RestTyped, serverVars
<1> QED
  BY <1>1, <1>2, <1>3, <1>4, <1>5 DEF Next

\* Table, walk and tokens fit together in every reachable state.
THEOREM DhtInvariant == Spec => []DhtInv
  BY InitDht, StepDht, PTL DEF Spec

\* No counter of a walk goes below zero, and what answers, queries and commands
\* bring in stays nodes, tokens and ids.
THEOREM DhtTyped == Spec => []TypeOK
<1>1. DhtInv => TypeOK
  BY TabledTyped DEF DhtInv, WalkInv, WalkTyped, RestTyped, TypeOK, Jobs
<1> QED
  BY <1>1, DhtInvariant, PTL

\* Every query of a walk was paid for, also when an address known under several ids
\* is asked several times: no walk asks more than LOOKUP_BUDGET contacts, however
\* many are silent and however often nodes choose new ids.
THEOREM WalksArePaid == Spec => []BudgetAccounted
<1>1. DhtInv => BudgetAccounted
  BY DEF DhtInv, WalkInv
<1> QED
  BY <1>1, DhtInvariant, PTL

\* A walk that ends before its budget does has covered MaxCandidates contacts that
\* are no farther than any it took up and left out, in whatever order it heard of
\* them and under whatever ids.
THEOREM WalksAreThorough == Spec => []Thorough
<1>1. DhtInv => Thorough
  <2> SUFFICES ASSUME DhtInv, WalkOver, budget > 0, NEW n \in heard \ Covered
               PROVE  Cardinality({q \in Covered : ~ Nearer(IdOf[n], IdOf[q], job.target)})
                        >= MaxCandidates
    BY DEF Thorough
  <2>1. Walking /\ Unasked(candidates) = {} /\ Heeded
    <3>1. budget # 0 /\ Heeded
      BY DEF DhtInv, WalkInv, WalkTyped
    <3> QED
      BY <3>1 DEF WalkOver, Walking
  <2>2. candidates \cup Covered = Covered
    BY <2>1 DEF Heeded, Unasked, Covered
  <2>3. Cardinality(AsNear(n, Covered, job.target)) >= MaxCandidates
    BY <2>1, <2>2 DEF Heeded
  <2> QED
    BY <2>3 DEF AsNear
<1> QED
  BY <1>1, DhtInvariant, PTL

\* An announce leaves out no address that gave a token during its walk, be it late.
THEOREM GiversAreReached == Spec => []AnnounceReachesGivers
<1>1. DhtInv => AnnounceReachesGivers
  BY DEF DhtInv, GivenKept
<1> QED
  BY <1>1, DhtInvariant, PTL

(***************************************************************************)
(* Contacts, implemented: every step shows as Learn, by which one bucket   *)
(* or more grow, or as nothing.                                            *)
(***************************************************************************)

LEMMA TableStep == DhtInv /\ [Next]_vars => Grows(table, table')
<1> SUFFICES ASSUME DhtInv, [Next]_vars PROVE Grows(table, table')
  OBVIOUS
<1>1. Tabled(table) /\ WalkTyped
  BY DEF DhtInv, WalkInv
<1>2. ASSUME table' = table PROVE Grows(table, table')
  BY <1>1, <1>2 DEF Grows
<1>3. ASSUME NEW n \in Nodes, Pong(n) PROVE Grows(table, table')
  <2>1. table' = Upsert(table, n)
    BY <1>3 DEF Pong
  <2> QED
    BY <1>1, <2>1, UpsertGrows
<1>4. CASE OwnStep /\ ~ \E n \in Nodes : Pong(n)
  BY <1>2, <1>4 DEF OwnStep, TakeCommand, PingTimeout, Pick, EndRound, EndWalk, Confirmed
<1>5. CASE AnswerStep
  BY <1>1, <1>2, <1>5, HearGrows DEF AnswerStep, HearFromElsewhere
<1>6. CASE ServerStep
  <2>1. PICK n \in Askers : Serve(n)
    BY <1>6 DEF ServerStep, ServeLookup, ServeGetPeers, ServeAnnounce
  <2> QED
    BY <1>1, <2>1, ServeGrows
<1>7. CASE TimeStep
  BY <1>2, <1>7 DEF TimeStep, ExpireReceived, ExpireIssued
<1>8. CASE UNCHANGED vars
  BY <1>2, <1>8 DEF vars
<1> QED
  BY <1>3, <1>4, <1>5, <1>6, <1>7, <1>8 DEF Next

\* The contacts of a bucket: at most K, all at home in it, with different ids.
LEMMA BucketContacts ==
  ASSUME NEW b, NEW s, Bucket(b, s)
  PROVE  /\ Cardinality(Range(s)) <= K
         /\ \A n \in Range(s) : n \in Nodes /\ Home(n) = b
         /\ \A m, n \in Range(s) : IdOf[m] = IdOf[n] => m = n
<1> DEFINE k == Len(s)
<1>1. s \in Seq(Nodes) /\ k \in Nat /\ k <= K /\ Range(s) = {s[i] : i \in 1 .. k}
  BY RangeOfNodes DEF Bucket
<1>2. Cardinality(Range(s)) <= K
  <2>1. IsFiniteSet(1 .. k) /\ Cardinality(1 .. k) = k
    BY <1>1, FS_Interval
  <2>2. s \in Surjection(1 .. k, Range(s))
    <3>1. s \in [1 .. k -> Range(s)]
      BY <1>1
    <3> QED
      BY <1>1, <3>1 DEF Surjection
  <2>3. IsFiniteSet(Range(s)) /\ Cardinality(Range(s)) <= Cardinality(1 .. k)
    BY <2>1, <2>2, FS_Surjection
  <2>4. Cardinality(Range(s)) \in Nat
    BY <2>3, FS_CardinalityType
  <2> QED
    BY <1>1, <2>1, <2>3, <2>4, TableAssumption
<1>3. \A n \in Range(s) : n \in Nodes /\ Home(n) = b
  BY <1>1 DEF Bucket
<1>4. \A m, n \in Range(s) : IdOf[m] = IdOf[n] => m = n
  BY <1>1 DEF Bucket
<1> QED
  BY <1>2, <1>3, <1>4

shown == [b \in Buckets |-> Range(table[b])]

LEMMA GrowthIsLearned ==
  ASSUME Grows(table, table') PROVE C!Next
<1> DEFINE added == UNION {Range(table'[b]) : b \in Buckets}
           next == [b \in Buckets |-> shown[b] \cup {n \in added : Home(n) = b}]
<1>1. \A b \in Buckets : Bucket(b, table'[b]) /\ Range(table[b]) \subseteq Range(table'[b])
  BY DEF Grows, Tabled
<1>2. \A b \in Buckets :
        /\ Cardinality(Range(table'[b])) <= K
        /\ \A n \in Range(table'[b]) : n \in Nodes /\ Home(n) = b
        /\ \A m, n \in Range(table'[b]) : IdOf[m] = IdOf[n] => m = n
  BY <1>1, BucketContacts
<1>3. added \in SUBSET Nodes
  BY <1>2
<1>4. ASSUME NEW b \in Buckets PROVE next[b] = Range(table'[b])
  <2>1. {n \in added : Home(n) = b} = Range(table'[b])
    BY <1>2
  <2> HIDE DEF added
  <2>2. next[b] = Range(table[b]) \cup Range(table'[b])
    BY <2>1 DEF shown
  <2> QED
    BY <1>1, <2>2
<1>5. shown' = next
  <2>1. shown' = [b \in Buckets |-> Range(table'[b])]
    BY DEF shown
  <2> HIDE DEF added
  <2> QED
    BY <1>4, <2>1
<1> HIDE DEF added
<1>6. C!Learn(added)
  <2>1. next = [b \in Buckets |-> [c \in Buckets |-> Range(table[c])][b] \cup {n \in added : Home(n) = b}]
    BY DEF shown
  <2>2. \A b \in Buckets :
          /\ Cardinality(next[b]) <= K
          /\ \A m, n \in next[b] : IdOf[m] = IdOf[n] => m = n
    BY <1>2, <1>4
  <2>3. [b \in Buckets |-> Range(table'[b])] = next
    BY <1>5 DEF shown
  <2>4. \A S : C!Cardinality(S) = Cardinality(S)
    BY DEF C!Cardinality, Cardinality
  <2> HIDE DEF next
  <2> QED
    BY <2>1, <2>2, <2>3, <2>4 DEF C!Learn
<1> QED
  BY <1>3, <1>6 DEF C!Next

\* The table implements Contacts: whatever walks, answers and queries do at once,
\* contacts join their own bucket while it has room, no id twice, and stay.
THEOREM TableKeepsContacts == Spec => ContactsKept
<1>1. Init => C!Init
  <2> SUFFICES ASSUME Init PROVE C!Init
    OBVIOUS
  <2>1. \A b \in Buckets : table[b] = <<>>
    BY DEF Init, NewTable
  <2>2. Range(<<>>) = {}
    BY DEF Range
  <2> QED
    BY <2>1, <2>2 DEF C!Init
<1>2. DhtInv /\ [Next]_vars => C!Next
  BY TableStep, GrowthIsLearned
<1>3. DhtInv /\ [Next]_vars => [C!Next]_shown
  BY <1>2
<1> QED
  BY <1>1, <1>3, DhtInvariant, PTL DEF Spec, ContactsKept, C!Spec, shown
=============================================================================
