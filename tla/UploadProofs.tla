---------------------------- MODULE UploadProofs ----------------------------
(***************************************************************************)
(* The upload slots, for any number of peers and slots.  The differences   *)
(* that the hub sends keep the served peers inside the manager's set, and  *)
(* the window that becomes this set is the image of at most MaxUnchoked    *)
(* offsets; connections and disconnections only take peers away.           *)
(*                                                                         *)
(* Then the files: their slices lie one after the other over the bytes of  *)
(* the torrent, so that what is written through them is what is read back, *)
(* and a block on its way to a peer has the right bytes.                   *)
(***************************************************************************)
EXTENDS Upload, FiniteSetTheorems, FunctionTheorems, WellFoundedInduction, TLAPS

SlotsBounded == IsFiniteSet(slots) /\ Cardinality(slots) <= MaxUnchoked

Inv == ServedHoldSlots /\ SlotsBounded

\* Whatever the list is, the manager chooses at most MaxUnchoked of it.
LEMMA ChosenBounded ==
  ASSUME NEW list
  PROVE  IsFiniteSet(Chosen(list)) /\ Cardinality(Chosen(list)) <= MaxUnchoked
<1> DEFINE taken == {i \in 0 .. MaxUnchoked - 1 : i < Len(list)}
           at == [i \in taken |-> list[((cursor + i) % Len(list)) + 1]]
<1>1. IsFiniteSet(taken) /\ Cardinality(taken) <= MaxUnchoked
  <2>1. MaxUnchoked \in Nat \ {0}
    BY ChokingAssumption
  <2>2. /\ IsFiniteSet(0 .. MaxUnchoked - 1)
        /\ Cardinality(0 .. MaxUnchoked - 1) = MaxUnchoked
    <3>1. 0 \in Int /\ MaxUnchoked - 1 \in Int
      BY <2>1
    <3> QED
      BY <2>1, <3>1, FS_Interval
  <2>3. taken \in SUBSET (0 .. MaxUnchoked - 1)
    OBVIOUS
  <2> HIDE DEF taken
  <2> QED
    BY <2>2, <2>3, FS_Subset
<1>2. CASE list = <<>>
  BY <1>2, FS_EmptySet, ChokingAssumption DEF Chosen
<1>3. CASE list # <<>>
  <2>1. Chosen(list) = {at[i] : i \in taken}
    BY <1>3 DEF Chosen, Window
  <2> HIDE DEF at, taken
  <2> DEFINE image == {at[i] : i \in taken}
  <2>2. at \in Surjection(taken, image)
    <3>1. at \in [taken -> image]
      BY DEF at
    <3> QED
      BY <3>1 DEF Surjection
  <2>3. IsFiniteSet(image) /\ Cardinality(image) <= Cardinality(taken)
    <3> HIDE DEF image
    <3> QED
      BY <1>1, <2>2, FS_Surjection
  <2> HIDE DEF image
  <2>4. Cardinality(image) \in Nat /\ Cardinality(taken) \in Nat
    BY <1>1, <2>3, FS_CardinalityType
  <2>5. Cardinality(image) <= MaxUnchoked
    BY <1>1, <2>3, <2>4, ChokingAssumption
  <2> QED
    BY <2>1, <2>3, <2>5 DEF image
<1> QED
  BY <1>2, <1>3

LEMMA RecomputeKeeps ==
  ASSUME ServedHoldSlots, Recompute PROVE Inv'
<1> DEFINE chosen == Chosen(Only(order', interested'))
<1>1. slots' = chosen /\ served' = (served \cup (chosen \ slots)) \ (slots \ chosen)
  BY DEF Recompute, SlotsAfter
<1>2. IsFiniteSet(chosen) /\ Cardinality(chosen) <= MaxUnchoked
  BY ChosenBounded
<1> HIDE DEF chosen
<1> QED
  BY <1>1, <1>2 DEF Inv, ServedHoldSlots, SlotsBounded

LEMMA InitInv == Init => Inv
  BY FS_EmptySet, ChokingAssumption DEF Init, Inv, ServedHoldSlots, SlotsBounded

LEMMA NextInv == Inv /\ [Next]_vars => Inv'
<1> SUFFICES ASSUME Inv, [Next]_vars PROVE Inv'
  OBVIOUS
<1>1. ServedHoldSlots
  BY DEF Inv
<1>2. ASSUME UNCHANGED slots, served' \subseteq served PROVE Inv'
  BY <1>2 DEF Inv, ServedHoldSlots, SlotsBounded
<1>3. ASSUME NEW h \in Handles, Connected(h) PROVE Inv'
  BY <1>2, <1>3 DEF Connected
<1>4. ASSUME NEW h \in Handles, Disconnected(h) PROVE Inv'
  BY <1>2, <1>4 DEF Disconnected
<1>5. ASSUME NEW h \in Handles, Interested(h) PROVE Inv'
  BY <1>1, <1>5, RecomputeKeeps DEF Interested
<1>6. ASSUME NEW h \in Handles, NotInterested(h) PROVE Inv'
  BY <1>1, <1>6, RecomputeKeeps DEF NotInterested
<1>7. CASE Tick
  BY <1>1, <1>7, RecomputeKeeps DEF Tick
<1>8. CASE UNCHANGED vars
  BY <1>2, <1>8 DEF vars
<1> QED
  BY <1>3, <1>4, <1>5, <1>6, <1>7, <1>8 DEF Next

LEMMA AlwaysInv == Spec => []Inv
  BY InitInv, NextInv, PTL DEF Spec

LEMMA InvMeans == Inv => ServedHoldSlots /\ ServedWithinSlots
<1> SUFFICES ASSUME Inv PROVE ServedHoldSlots /\ ServedWithinSlots
  OBVIOUS
<1>1. IsFiniteSet(served) /\ Cardinality(served) <= Cardinality(slots)
  BY FS_Subset DEF Inv, ServedHoldSlots, SlotsBounded
<1>2. Cardinality(served) \in Nat /\ Cardinality(slots) \in Nat
  BY <1>1, FS_CardinalityType DEF Inv, SlotsBounded
<1> QED
  BY <1>1, <1>2, ChokingAssumption DEF Inv, SlotsBounded, ServedWithinSlots

\* Every peer that the hub told to be unchoked holds a slot of ChokeManager, so
\* recompute will choke it when its turn is over.
THEOREM ServedAreKnown == Spec => []ServedHoldSlots
  BY AlwaysInv, InvMeans, PTL

\* The differences that recompute_chokes sends never unchoke more than
\* MAX_UNCHOKED peers, however peers connect, leave and change their interest.
THEOREM SlotsRespected == Spec => []ServedWithinSlots
  BY AlwaysInv, InvMeans, PTL

(***************************************************************************)
(* The type invariant.  What it takes is that the loop of Only keeps a     *)
(* list of distinct addresses one: proved by induction, that is by the     *)
(* least counterexample.                                                   *)
(***************************************************************************)

LEMMA CountUp ==
  ASSUME NEW S, 0 \in S, \A n \in Nat : n \in S => n + 1 \in S
  PROVE  \A n \in Nat : n \in S
<1> DEFINE T == {n \in Nat : n \notin S}
           R == OpToRel(<, Nat)
<1> SUFFICES ASSUME T # {} PROVE FALSE
  OBVIOUS
<1>1. IsWellFoundedOn(R, Nat)
  BY NatLessThanWellFounded
<1>2. \A a, b \in Nat : a < b => <<a, b>> \in R
  BY DEF OpToRel
<1> HIDE DEF R
<1>3. PICK n \in T : \A c \in T : <<c, n>> \notin R
  BY <1>1, WFMin
<1>4. n # 0 /\ n \in Nat
  BY <1>3
<1>5. n - 1 \in Nat /\ n - 1 < n
  BY <1>4
<1>6. n - 1 \notin T
  BY <1>2, <1>3, <1>4, <1>5
<1>7. (n - 1) + 1 \in S
  BY <1>5, <1>6
<1> QED
  BY <1>3, <1>4, <1>7

\* f is the function upTo of Only for 0 .. m, by its definition and unfolded.
Filters(list, kept, m, f) ==
  f = [n \in 0 .. m |->
         IF n = 0 THEN <<>>
         ELSE IF list[n] \in kept THEN Append(f[n - 1], list[n]) ELSE f[n - 1]]

FiltersGo(list, kept, m, f) ==
  /\ f[0] = <<>>
  /\ \A n \in 1 .. m : f[n] = IF list[n] \in kept THEN Append(f[n - 1], list[n]) ELSE f[n - 1]

LEMMA FiltersUnfold ==
  ASSUME NEW list, NEW kept, NEW m \in Nat, NEW f, Filters(list, kept, m, f)
  PROVE  FiltersGo(list, kept, m, f)
<1> DEFINE h == [n \in 0 .. m |->
                   IF n = 0 THEN <<>>
                   ELSE IF list[n] \in kept THEN Append(f[n - 1], list[n]) ELSE f[n - 1]]
<1>1. /\ h[0] = <<>>
      /\ \A n \in 1 .. m : h[n] = IF list[n] \in kept THEN Append(f[n - 1], list[n]) ELSE f[n - 1]
  OBVIOUS
<1>2. f = h
  BY DEF Filters
<1> HIDE DEF h
<1> QED
  BY <1>1, <1>2 DEF FiltersGo

LEMMA FiltersExist ==
  ASSUME NEW list, NEW kept
  PROVE  \A m \in Nat : \E f : Filters(list, kept, m, f)
<1> DEFINE S == {m \in Nat : \E f : Filters(list, kept, m, f)}
<1>1. 0 \in S
  <2> DEFINE f == [n \in 0 .. 0 |-> <<>>]
  <2>1. \A n \in 0 .. 0 : n = 0
    OBVIOUS
  <2>2. Filters(list, kept, 0, f)
    BY <2>1 DEF Filters
  <2> QED
    BY <2>2
<1>2. ASSUME NEW m \in Nat, m \in S PROVE m + 1 \in S
  <2>1. PICK f : Filters(list, kept, m, f)
    BY <1>2
  <2>2. FiltersGo(list, kept, m, f)
    BY <2>1, FiltersUnfold
  <2> DEFINE next == IF list[m + 1] \in kept THEN Append(f[m], list[m + 1]) ELSE f[m]
             g == [n \in 0 .. m + 1 |-> IF n = m + 1 THEN next ELSE f[n]]
  <2>3. /\ \A n \in 0 .. m : g[n] = f[n]
        /\ g[m + 1] = IF list[m + 1] \in kept THEN Append(f[m], list[m + 1]) ELSE f[m]
    OBVIOUS
  <2>4. DOMAIN g = 0 .. m + 1 /\ g = [n \in 0 .. m + 1 |-> g[n]]
    OBVIOUS
  <2> HIDE DEF g, next
  <2>5. FiltersGo(list, kept, m + 1, g)
    <3>1. \A n \in 1 .. m + 1 : n = m + 1 \/ (n \in 1 .. m /\ n - 1 \in 0 .. m)
      OBVIOUS
    <3>2. (m + 1) - 1 = m /\ 0 \in 0 .. m /\ m \in 0 .. m
      OBVIOUS
    <3> QED
      BY <2>2, <2>3, <3>1, <3>2 DEF FiltersGo
  <2>6. Filters(list, kept, m + 1, g)
    <3>1. \A n \in 0 .. m + 1 : n = 0 \/ n \in 1 .. m + 1
      OBVIOUS
    <3>2. \A n \in 0 .. m + 1 :
            g[n] = IF n = 0 THEN <<>>
                   ELSE IF list[n] \in kept THEN Append(g[n - 1], list[n]) ELSE g[n - 1]
      BY <2>5, <3>1 DEF FiltersGo
    <3> QED
      BY <2>4, <3>2 DEF Filters
  <2> QED
    BY <2>6
<1> HIDE DEF S
<1>3. \A m \in Nat : m \in S
  BY <1>1, <1>2, CountUp
<1> QED
  BY <1>3 DEF S

\* An address is added at the end of a list that does not have it.
LEMMA AppendDistinct ==
  ASSUME NEW s \in Seq(Handles), IsInjective(s), NEW h \in Handles, h \notin Range(s)
  PROVE  /\ Append(s, h) \in Seq(Handles) /\ IsInjective(Append(s, h))
         /\ Range(Append(s, h)) = Range(s) \cup {h}
<1> DEFINE m == Len(s)
           t == Append(s, h)
<1>1. m \in Nat /\ DOMAIN s = 1 .. m
  OBVIOUS
<1>2. t \in Seq(Handles) /\ DOMAIN t = 1 .. m + 1 /\ t[m + 1] = h /\ \A i \in 1 .. m : t[i] = s[i]
  OBVIOUS
<1>3. \A i \in 1 .. m : s[i] # h
  BY <1>1 DEF Range
<1>4. \A i, j \in 1 .. m : s[i] = s[j] => i = j
  BY <1>1 DEF IsInjective
<1> HIDE DEF m, t
<1>5. \A i \in 1 .. m + 1 : i \in 1 .. m \/ i = m + 1
  BY <1>1
<1>6. IsInjective(t)
  BY <1>2, <1>3, <1>4, <1>5 DEF IsInjective
<1>7. Range(t) = Range(s) \cup {h}
  <2>1. m + 1 \in 1 .. m + 1 /\ \A i \in 1 .. m : i \in 1 .. m + 1
    BY <1>1
  <2> QED
    BY <1>1, <1>2, <1>5, <2>1 DEF Range
<1> QED
  BY <1>2, <1>6, <1>7 DEF t

\* Only keeps exactly what it should, and keeps it once.
LEMMA OnlyKeeps ==
  ASSUME NEW list \in Seq(Handles), IsInjective(list), NEW kept
  PROVE  /\ Only(list, kept) \in Seq(Handles) /\ IsInjective(Only(list, kept))
         /\ Range(Only(list, kept)) = Range(list) \cap kept
<1> DEFINE m == Len(list)
           upTo == CHOOSE f : Filters(list, kept, m, f)
           Seen(n) == {list[i] : i \in 1 .. n}
           Good == {n \in Nat : n \in 0 .. m =>
                      /\ upTo[n] \in Seq(Handles) /\ IsInjective(upTo[n])
                      /\ Range(upTo[n]) = Seen(n) \cap kept}
<1>1. m \in Nat /\ DOMAIN list = 1 .. m /\ \A i \in 1 .. m : list[i] \in Handles
  OBVIOUS
<1>2. Filters(list, kept, m, upTo)
  BY <1>1, FiltersExist
<1>3. Only(list, kept) = upTo[m]
  BY DEF Only, Filters
<1>4. \A i, j \in 1 .. m : list[i] = list[j] => i = j
  BY <1>1 DEF IsInjective
<1>5. Seen(m) = Range(list)
  BY <1>1 DEF Range
<1> HIDE DEF m, upTo
<1>6. FiltersGo(list, kept, m, upTo)
  BY <1>1, <1>2, FiltersUnfold
<1>7. 0 \in Good
  <2>1. upTo[0] = <<>>
    BY <1>6 DEF FiltersGo
  <2>2. Seen(0) = {}
    OBVIOUS
  <2>3. <<>> \in Seq(Handles) /\ IsInjective(<<>>) /\ Range(<<>>) = {}
    BY DEF IsInjective, Range
  <2> QED
    BY <2>1, <2>2, <2>3
<1>8. ASSUME NEW n \in Nat, n \in Good PROVE n + 1 \in Good
  <2> SUFFICES ASSUME n + 1 \in 0 .. m
               PROVE  /\ upTo[n + 1] \in Seq(Handles) /\ IsInjective(upTo[n + 1])
                      /\ Range(upTo[n + 1]) = Seen(n + 1) \cap kept
    OBVIOUS
  <2>1. n \in 0 .. m /\ n + 1 \in 1 .. m /\ (n + 1) - 1 = n
    BY <1>1
  <2>2. /\ upTo[n] \in Seq(Handles) /\ IsInjective(upTo[n])
        /\ Range(upTo[n]) = Seen(n) \cap kept
    BY <1>8, <2>1
  <2>3. upTo[n + 1] = IF list[n + 1] \in kept THEN Append(upTo[n], list[n + 1]) ELSE upTo[n]
    BY <1>6, <2>1 DEF FiltersGo
  <2>4. Seen(n + 1) = Seen(n) \cup {list[n + 1]}
    <3>1. \A i \in 1 .. n + 1 : i \in 1 .. n \/ i = n + 1
      OBVIOUS
    <3>2. n + 1 \in 1 .. n + 1 /\ \A i \in 1 .. n : i \in 1 .. n + 1
      OBVIOUS
    <3> QED
      BY <3>1, <3>2
  <2>5. list[n + 1] \notin Seen(n)
    <3>1. \A i \in 1 .. n : i \in 1 .. m /\ i # n + 1
      BY <1>1, <2>1
    <3> QED
      BY <1>4, <2>1, <3>1
  <2>6. list[n + 1] \in Handles
    BY <1>1, <2>1
  <2> HIDE DEF Seen
  <2>7. CASE list[n + 1] \in kept
    <3>1. list[n + 1] \notin Range(upTo[n])
      BY <2>2, <2>5
    <3>2. upTo[n + 1] = Append(upTo[n], list[n + 1])
      BY <2>3, <2>7
    <3>3. /\ upTo[n + 1] \in Seq(Handles) /\ IsInjective(upTo[n + 1])
          /\ Range(upTo[n + 1]) = Range(upTo[n]) \cup {list[n + 1]}
      BY <2>2, <2>6, <3>1, <3>2, AppendDistinct
    <3> QED
      BY <2>2, <2>4, <2>7, <3>3
  <2>8. CASE list[n + 1] \notin kept
    BY <2>2, <2>3, <2>4, <2>8
  <2> QED
    BY <2>7, <2>8
<1> HIDE DEF Good
<1>9. m \in Good
  BY <1>1, <1>7, <1>8, CountUp
<1> QED
  <2>1. m \in 0 .. m
    BY <1>1
  <2> QED
    BY <1>3, <1>5, <1>9, <2>1 DEF Good

\* The window takes from the list only.
LEMMA ChosenFrom ==
  ASSUME NEW list \in Seq(Handles), cursor \in Nat
  PROVE  Chosen(list) \subseteq Range(list)
<1> DEFINE n == Len(list)
<1>1. n \in Nat /\ DOMAIN list = 1 .. n
  OBVIOUS
<1>2. CASE list = <<>>
  BY <1>2 DEF Chosen
<1>3. CASE list # <<>>
  <2>1. n # 0
    BY <1>3
  <2>2. MaxUnchoked \in Nat
    BY ChokingAssumption
  <2>3. ASSUME NEW i \in 0 .. MaxUnchoked - 1 PROVE ((cursor + i) % n) + 1 \in 1 .. n
    <3>1. cursor + i \in Nat
      BY <2>2
    <3> HIDE DEF n
    <3>2. (cursor + i) % n \in 0 .. n - 1
      BY <1>1, <2>1, <3>1
    <3> QED
      BY <1>1, <3>2
  <2> QED
    BY <1>1, <1>3, <2>3 DEF Chosen, Window, Range
<1> QED
  BY <1>2, <1>3

LEMMA RecomputeTyped ==
  ASSUME order' \in Seq(Handles), IsInjective(order'), interested' \subseteq Range(order'),
         served \subseteq Range(order'), slots \subseteq Handles,
         cursor \in 0 .. CursorSize - 1, left' \subseteq Handles, Recompute
  PROVE  TypeOK'
<1> DEFINE list == Only(order', interested')
           chosen == Chosen(list)
<1>1. list \in Seq(Handles) /\ Range(list) \subseteq Range(order')
  BY OnlyKeeps
<1>2. cursor \in Nat /\ CursorSize \in Nat \ {0}
  BY ChokingAssumption
<1>3. chosen \subseteq Range(order')
  <2> HIDE DEF list
  <2>1. chosen \subseteq Range(list)
    BY <1>1, <1>2, ChosenFrom
  <2> QED
    BY <1>1, <2>1
<1>4. Range(order') \subseteq Handles
  BY DEF Range
<1>5. /\ slots' = chosen /\ cursor' = Advance(Cardinality(chosen))
      /\ served' = (served \cup (chosen \ slots)) \ (slots \ chosen)
  BY DEF Recompute, SlotsAfter
<1>6. Cardinality(chosen) \in Nat
  BY ChosenBounded, FS_CardinalityType
<1> HIDE DEF list, chosen
<1>7. cursor' \in 0 .. CursorSize - 1
  <2> DEFINE n == Cardinality(chosen)
             step == Max({n, 1})
  <2>1. n \in Nat
    BY <1>6
  <2> HIDE DEF n
  <2>2. step \in {n, 1}
    BY <2>1 DEF Max
  <2>3. cursor + step \in Nat /\ cursor' = (cursor + step) % CursorSize
    BY <1>2, <1>5, <2>1, <2>2 DEF Advance, n
  <2> HIDE DEF step
  <2> QED
    BY <1>2, <2>3
<1> QED
  BY <1>3, <1>4, <1>5, <1>7 DEF TypeOK, Links

LEMMA TypeKept == TypeOK /\ [Next]_vars => TypeOK'
<1> SUFFICES ASSUME TypeOK, [Next]_vars PROVE TypeOK'
  OBVIOUS
<1>1. ASSUME NEW h \in Handles, Connected(h) PROVE TypeOK'
  <2> DEFINE all == Links \cup {h}
             m == Cardinality(all)
  <2>1. all \subseteq Handles /\ IsFiniteSet(all)
    <3>1. Links \subseteq Handles
      BY DEF Links, TypeOK, Range
    <3> QED
      BY <3>1, FS_Subset, ChokingAssumption
  <2>2. m \in Nat
    BY <2>1, FS_CardinalityType
  <2>3. /\ order' \in [1 .. m -> all]
        /\ \A i, j \in 1 .. m : i # j => order'[i] # order'[j]
    BY <1>1 DEF Connected, SetToSeqs
  <2>4. UNCHANGED <<interested, served, slots, cursor, left>>
    BY <1>1 DEF Connected
  <2>5. Links \subseteq all
    OBVIOUS
  <2> HIDE DEF all, m
  <2>6. order' \in Injection(1 .. m, all)
    BY <2>3 DEF Injection, IsInjective
  <2>7. order' \in Surjection(1 .. m, all)
    <3>1. IsFiniteSet(1 .. m) /\ Cardinality(1 .. m) = m
      BY <2>2, FS_Interval
    <3> QED
      BY <2>1, <2>6, <3>1, FS_Injection DEF m
  <2>8. Range(order') = all
    BY <2>3, <2>7 DEF Surjection, Range
  <2>9. order' \in Seq(Handles) /\ IsInjective(order')
    BY <2>1, <2>2, <2>3, <2>6 DEF Injection
  <2> QED
    BY <2>4, <2>5, <2>8, <2>9 DEF TypeOK, Links
<1>2. ASSUME NEW h \in Handles, Disconnected(h) PROVE TypeOK'
  <2>1. /\ order' \in Seq(Handles) /\ IsInjective(order')
        /\ Range(order') = Range(order) \cap (Links \ {h})
    BY <1>2, OnlyKeeps DEF Disconnected, TypeOK
  <2>2. interested' = interested \ {h} /\ served' = served \ {h} /\ left' = left \cup {h}
        /\ UNCHANGED <<slots, cursor>>
    BY <1>2 DEF Disconnected
  <2> QED
    BY <2>1, <2>2 DEF TypeOK, Links
<1>3. ASSUME NEW h \in Handles, Interested(h) PROVE TypeOK'
  BY <1>3, RecomputeTyped DEF Interested, TypeOK, Links
<1>4. ASSUME NEW h \in Handles, NotInterested(h) PROVE TypeOK'
  BY <1>4, RecomputeTyped DEF NotInterested, TypeOK, Links
<1>5. CASE Tick
  BY <1>5, RecomputeTyped DEF Tick, TypeOK, Links
<1>6. CASE UNCHANGED vars
  BY <1>6 DEF vars, TypeOK, Links
<1> QED
  BY <1>1, <1>2, <1>3, <1>4, <1>5, <1>6 DEF Next

LEMMA InitTyped == Init => TypeOK
<1> SUFFICES ASSUME Init PROVE TypeOK
  OBVIOUS
<1>1. 0 \in 0 .. CursorSize - 1
  BY ChokingAssumption
<1>2. <<>> \in Seq(Handles) /\ IsInjective(<<>>)
  BY DEF IsInjective
<1> QED
  BY <1>1, <1>2 DEF Init, TypeOK

\* The flags of a peer go with its link, and what the manager picks through its
\* wrapping cursor are links: no index leaves the list of the interested ones.
THEOREM ChokingTyped == Spec => []TypeOK
  BY InitTyped, TypeKept, PTL DEF Spec

(***************************************************************************)
(* The files.  Offsets are sums of lengths: the files lie one after the    *)
(* other, and every byte of the torrent lies in exactly one of them.       *)
(***************************************************************************)

\* f is the function sum of Offset for 0 .. m, by its definition and unfolded.
Sums(m, f) == f = [n \in 0 .. m |-> IF n = 0 THEN 0 ELSE f[n - 1] + FileLengths[n]]

SumsGo(m, f) == f[0] = 0 /\ \A n \in 1 .. m : f[n] = f[n - 1] + FileLengths[n]

LEMMA SumsUnfold ==
  ASSUME NEW m \in Nat, NEW f, Sums(m, f) PROVE SumsGo(m, f)
<1> DEFINE h == [n \in 0 .. m |-> IF n = 0 THEN 0 ELSE f[n - 1] + FileLengths[n]]
<1>1. h[0] = 0 /\ \A n \in 1 .. m : h[n] = f[n - 1] + FileLengths[n]
  OBVIOUS
<1>2. f = h
  BY DEF Sums
<1> HIDE DEF h
<1> QED
  BY <1>1, <1>2 DEF SumsGo

LEMMA SumsExist == \A m \in Nat : \E f : Sums(m, f)
<1> DEFINE S == {m \in Nat : \E f : Sums(m, f)}
<1>1. 0 \in S
  <2> DEFINE f == [n \in 0 .. 0 |-> 0]
  <2>1. \A n \in 0 .. 0 : n = 0
    OBVIOUS
  <2>2. Sums(0, f)
    BY <2>1 DEF Sums
  <2> QED
    BY <2>2
<1>2. ASSUME NEW m \in Nat, m \in S PROVE m + 1 \in S
  <2>1. PICK f : Sums(m, f)
    BY <1>2
  <2>2. SumsGo(m, f)
    BY <2>1, SumsUnfold
  <2> DEFINE g == [n \in 0 .. m + 1 |-> IF n = m + 1 THEN f[m] + FileLengths[m + 1] ELSE f[n]]
  <2>3. (\A n \in 0 .. m : g[n] = f[n]) /\ g[m + 1] = f[m] + FileLengths[m + 1]
    OBVIOUS
  <2>4. g = [n \in 0 .. m + 1 |-> g[n]]
    OBVIOUS
  <2> HIDE DEF g
  <2>5. SumsGo(m + 1, g)
    <3>1. \A n \in 1 .. m + 1 : n = m + 1 \/ (n \in 1 .. m /\ n - 1 \in 0 .. m)
      OBVIOUS
    <3>2. (m + 1) - 1 = m /\ 0 \in 0 .. m /\ m \in 0 .. m
      OBVIOUS
    <3> QED
      BY <2>2, <2>3, <3>1, <3>2 DEF SumsGo
  <2>6. Sums(m + 1, g)
    <3>1. \A n \in 0 .. m + 1 : n = 0 \/ n \in 1 .. m + 1
      OBVIOUS
    <3>2. \A n \in 0 .. m + 1 : g[n] = IF n = 0 THEN 0 ELSE g[n - 1] + FileLengths[n]
      BY <2>5, <3>1 DEF SumsGo
    <3> QED
      BY <2>4, <3>2 DEF Sums
  <2> QED
    BY <2>6
<1> HIDE DEF S
<1>3. \A m \in Nat : m \in S
  BY <1>1, <1>2, CountUp
<1> QED
  BY <1>3 DEF S

LastFile == Len(FileLengths)

LEMMA FileTypes ==
  /\ LastFile \in Nat \ {0} /\ Files = 1 .. LastFile
  /\ \A f \in Files : FileLengths[f] \in Nat
<1> DEFINE l == FileLengths
<1>1. l \in Seq(Nat) /\ l # <<>>
  BY StorageAssumption
<1> HIDE DEF l
<1>2. Len(l) \in Nat \ {0} /\ DOMAIN l = 1 .. Len(l) /\ \A f \in DOMAIN l : l[f] \in Nat
  BY <1>1
<1> QED
  BY <1>2 DEF l, LastFile, Files

\* Each file begins where the one before it ends.
LEMMA OffsetsAdd ==
  /\ Offset(1) = 0
  /\ \A f \in 1 .. LastFile + 1 : Offset(f) \in Nat
  /\ \A f \in Files : Offset(f + 1) = Offset(f) + FileLengths[f]
  /\ TotalLength = Offset(LastFile + 1)
<1> DEFINE sum == CHOOSE f : Sums(LastFile, f)
           Good == {n \in Nat : n <= LastFile => sum[n] \in Nat}
<1>1. Sums(LastFile, sum)
  BY FileTypes, SumsExist
<1>2. \A f : Offset(f) = sum[f - 1]
  BY DEF Offset, Sums, LastFile
<1> HIDE DEF sum
<1>3. SumsGo(LastFile, sum)
  BY <1>1, FileTypes, SumsUnfold
<1>4. sum[0] = 0 /\ \A n \in 1 .. LastFile : sum[n] = sum[n - 1] + FileLengths[n]
  BY <1>3 DEF SumsGo
<1>5. ASSUME NEW n \in Nat, n \in Good PROVE n + 1 \in Good
  <2> SUFFICES ASSUME n + 1 <= LastFile PROVE sum[n + 1] \in Nat
    OBVIOUS
  <2>1. n + 1 \in 1 .. LastFile /\ (n + 1) - 1 = n /\ sum[n] \in Nat
    BY <1>5, FileTypes
  <2>2. sum[n + 1] = sum[n] + FileLengths[n + 1] /\ FileLengths[n + 1] \in Nat
    BY <1>4, <2>1, FileTypes
  <2> QED
    BY <2>1, <2>2
<1>6. 0 \in Good
  BY <1>4
<1> HIDE DEF Good
<1>7. \A n \in Nat : n \in Good
  BY <1>5, <1>6, CountUp
<1>8. \A n \in 0 .. LastFile : sum[n] \in Nat
  BY <1>7, FileTypes DEF Good
<1>9. ASSUME NEW f \in 1 .. LastFile + 1 PROVE Offset(f) \in Nat
  BY <1>2, <1>8, FileTypes
<1>10. ASSUME NEW f \in Files PROVE Offset(f + 1) = Offset(f) + FileLengths[f]
  <2>1. f \in 1 .. LastFile /\ (f + 1) - 1 = f
    BY FileTypes
  <2> QED
    BY <1>2, <1>4, <2>1
<1>11. TotalLength = Offset(LastFile + 1)
  <2>1. LastFile \in Files
    BY FileTypes
  <2> QED
    BY <1>10, <2>1 DEF TotalLength, LastFile
<1> QED
  BY <1>2, <1>4, <1>9, <1>10, <1>11

\* A file ends before the next ones begin.
LEMMA OffsetsGrow ==
  \A f \in Files, g \in 1 .. LastFile + 1 : f < g => Offset(f) + FileLengths[f] <= Offset(g)
<1> SUFFICES ASSUME NEW f \in Files
             PROVE  \A g \in 1 .. LastFile + 1 : f < g => Offset(f) + FileLengths[f] <= Offset(g)
  OBVIOUS
<1> DEFINE end == Offset(f) + FileLengths[f]
           Good == {g \in Nat : g \in 1 .. LastFile + 1 /\ f < g => end <= Offset(g)}
<1>1. 0 \in Good
  BY FileTypes
<1>2. ASSUME NEW g \in Nat, g \in Good PROVE g + 1 \in Good
  <2> SUFFICES ASSUME g + 1 \in 1 .. LastFile + 1, f < g + 1 PROVE end <= Offset(g + 1)
    OBVIOUS
  <2>1. g \in Files /\ f \in 1 .. LastFile /\ g \in 1 .. LastFile + 1
    BY FileTypes
  <2>2. Offset(g + 1) = Offset(g) + FileLengths[g] /\ Offset(g) \in Nat /\ FileLengths[g] \in Nat
    BY <2>1, OffsetsAdd, FileTypes
  <2>3. end \in Nat
    BY <2>1, OffsetsAdd, FileTypes
  <2>4. CASE f = g
    BY <2>2, <2>3, <2>4
  <2>5. CASE f < g
    <3>1. end <= Offset(g)
      BY <1>2, <2>1, <2>5
    <3> HIDE DEF end
    <3> QED
      BY <2>2, <2>3, <3>1
  <2> QED
    BY <2>1, <2>4, <2>5
<1> HIDE DEF Good
<1>3. \A g \in Nat : g \in Good
  BY <1>1, <1>2, CountUp
<1> QED
  BY <1>3, FileTypes DEF Good

InFile(g, f) == Offset(f) <= g /\ g < Offset(f) + FileLengths[f]

LEMMA OneFile ==
  ASSUME NEW g \in Int, NEW f \in Files, NEW h \in Files, InFile(g, f), InFile(g, h)
  PROVE  f = h
<1>1. f \in 1 .. LastFile /\ h \in 1 .. LastFile /\ LastFile \in Nat
  BY FileTypes
<1>2. /\ Offset(f) \in Nat /\ Offset(h) \in Nat
      /\ FileLengths[f] \in Nat /\ FileLengths[h] \in Nat
  BY <1>1, FileTypes, OffsetsAdd
<1>3. /\ f < h => Offset(f) + FileLengths[f] <= Offset(h)
      /\ h < f => Offset(h) + FileLengths[h] <= Offset(f)
  BY <1>1, OffsetsGrow
<1> QED
  BY <1>1, <1>2, <1>3 DEF InFile

LEMMA SomeFile ==
  ASSUME NEW g \in Nat, g < TotalLength
  PROVE  \E f \in Files : InFile(g, f)
<1> DEFINE Good == {n \in Nat : n <= LastFile /\ g < Offset(n + 1) => \E f \in Files : InFile(g, f)}
<1>1. 0 \in Good
  BY OffsetsAdd
<1>2. ASSUME NEW n \in Nat, n \in Good PROVE n + 1 \in Good
  <2> DEFINE m == n + 1
  <2> SUFFICES ASSUME m <= LastFile, g < Offset(m + 1) PROVE \E f \in Files : InFile(g, f)
    OBVIOUS
  <2>1. m \in Files /\ n <= LastFile /\ m \in 1 .. LastFile + 1
    BY FileTypes
  <2>2. Offset(m + 1) = Offset(m) + FileLengths[m] /\ Offset(m) \in Nat
    BY <2>1, OffsetsAdd
  <2>3. CASE g < Offset(m)
    BY <1>2, <2>1, <2>3
  <2>4. CASE Offset(m) <= g
    <3>1. InFile(g, m)
      BY <2>2, <2>4 DEF InFile
    <3> QED
      BY <2>1, <3>1
  <2> QED
    BY <2>2, <2>3, <2>4
<1> HIDE DEF Good
<1>3. LastFile \in Good
  BY <1>1, <1>2, FileTypes, CountUp
<1> QED
  BY <1>3, FileTypes, OffsetsAdd DEF Good

\* A piece lies in the torrent, and is not longer than the others.
LEMMA PieceFits ==
  ASSUME NEW p \in Pieces
  PROVE  /\ p \in Nat /\ Start(p) \in Nat /\ PieceLen(p) \in Nat /\ PieceLen(p) <= PieceLength
         /\ PieceLen(p) > 0 => Start(p) + PieceLen(p) <= TotalLength
<1>1. p \in Nat
  BY DEF Pieces
<1>2. PieceLength \in Nat \ {0}
  BY StorageAssumption
<1>3. Start(p) \in Nat
  BY <1>1, <1>2 DEF Start
<1>4. TotalLength \in Nat
  BY FileTypes, OffsetsAdd
<1> DEFINE rest == TotalLength - Start(p)
           short == Min({rest, PieceLength})
<1>5. rest \in Int
  BY <1>3, <1>4
<1>6. PieceLen(p) = Max({0, short})
  BY DEF PieceLen
<1>7. short \in {rest, PieceLength} /\ short <= rest /\ short <= PieceLength
  <2> HIDE DEF rest
  <2> QED
    BY <1>2, <1>5 DEF Min
<1> HIDE DEF short
<1>8. short \in Int
  BY <1>2, <1>5, <1>7
<1>9. PieceLen(p) \in {0, short} /\ PieceLen(p) >= 0 /\ PieceLen(p) >= short
  BY <1>6, <1>8 DEF Max
<1> QED
  BY <1>1, <1>2, <1>3, <1>4, <1>7, <1>8, <1>9

(***************************************************************************)
(* Writing and reading through the slices.                                 *)
(***************************************************************************)

Shaped(fs) ==
  DOMAIN fs = Files /\ \A f \in Files : DOMAIN fs[f] = 0 .. FileLengths[f] - 1

\* The files hold the right bytes of piece p, wherever it lies.
Holds(fs, p) ==
  \A f \in Files, g \in Start(p) .. Start(p) + PieceLen(p) - 1 :
    InFile(g, f) => fs[f][g - Offset(f)] = g

LEMMA Places ==
  ASSUME NEW f \in Files, NEW g \in Int, InFile(g, f)
  PROVE  g - Offset(f) \in 0 .. FileLengths[f] - 1 /\ Offset(f) + (g - Offset(f)) = g
<1>1. Offset(f) \in Nat /\ FileLengths[f] \in Nat
  BY FileTypes, OffsetsAdd
<1> QED
  BY <1>1 DEF InFile

\* write_piece puts every byte where it belongs and harms no other.
LEMMA WriteRight ==
  ASSUME NEW fs, Shaped(fs), NEW p \in Pieces
  PROVE  /\ Shaped(WritePiece(fs, p, Piece(p))) /\ Holds(WritePiece(fs, p, Piece(p)), p)
         /\ \A q \in Pieces : Holds(fs, q) => Holds(WritePiece(fs, p, Piece(p)), q)
<1> DEFINE w == WritePiece(fs, p, Piece(p))
           start == Start(p)
           length == PieceLen(p)
<1>1. start \in Nat /\ length \in Nat
  BY PieceFits
<1>2. Len(Piece(p)) = length /\ \A i \in 1 .. length : Piece(p)[i] = start + i - 1
  <2> HIDE DEF length, start
  <2>1. Piece(p) = [i \in 1 .. length |-> start + i - 1]
    BY DEF Piece, length, start
  <2>2. \A i \in 1 .. length : start + i - 1 \in Int
    BY <1>1
  <2>3. Piece(p) \in Seq(Int) /\ DOMAIN Piece(p) = 1 .. length
    BY <1>1, <2>1, <2>2
  <2>4. Len(Piece(p)) = length
    BY <1>1, <2>3
  <2> QED
    BY <2>1, <2>4
<1> DEFINE data == Piece(p)
<1>3. w = [f \in Files |-> [i \in DOMAIN fs[f] |->
            IF Offset(f) + i \in Slice(f, start, Len(data))
            THEN data[Offset(f) + i - start + 1] ELSE fs[f][i]]]
  BY DEF WritePiece
<1>4. Shaped(w)
  BY <1>3 DEF Shaped
<1>5. ASSUME NEW f \in Files, NEW g \in Int, InFile(g, f)
      PROVE  w[f][g - Offset(f)] = IF g \in start .. start + length - 1 THEN g
                                   ELSE fs[f][g - Offset(f)]
  <2> DEFINE i == g - Offset(f)
  <2>1. i \in DOMAIN fs[f] /\ Offset(f) + i = g /\ i \in Int /\ Offset(f) \in Int
    <3>1. i \in 0 .. FileLengths[f] - 1 /\ Offset(f) + i = g
      BY <1>5, Places
    <3>2. Offset(f) \in Nat /\ FileLengths[f] \in Nat
      BY FileTypes, OffsetsAdd
    <3> QED
      BY <3>1, <3>2 DEF Shaped
  <2> HIDE DEF data, i
  <2>2. w[f][i] = IF Offset(f) + i \in Slice(f, start, Len(data))
                  THEN data[Offset(f) + i - start + 1] ELSE fs[f][i]
    BY <1>3, <2>1
  <2>3. Offset(f) + i \in Slice(f, start, Len(data)) <=> g \in start .. start + length - 1
    BY <1>2, <1>5, <2>1 DEF Slice, InFile, data
  <2>4. ASSUME g \in start .. start + length - 1 PROVE data[Offset(f) + i - start + 1] = g
    <3>1. g - start + 1 \in 1 .. length /\ start + (g - start + 1) - 1 = g
      BY <1>1, <2>4
    <3>2. Offset(f) + i - start + 1 = g - start + 1
      BY <1>1, <2>1
    <3> HIDE DEF start, length
    <3>3. data[g - start + 1] = start + (g - start + 1) - 1
      BY <1>2, <3>1 DEF data
    <3> QED
      BY <3>1, <3>2, <3>3
  <2>5. w[f][i] = IF g \in start .. start + length - 1 THEN g ELSE fs[f][i]
    BY <2>2, <2>3, <2>4
  <2> QED
    BY <2>5 DEF i
<1> HIDE DEF w
<1>6. Holds(w, p)
  BY <1>1, <1>5 DEF Holds
<1>7. ASSUME NEW q \in Pieces, Holds(fs, q) PROVE Holds(w, q)
  <2>1. Start(q) \in Nat /\ PieceLen(q) \in Nat
    BY PieceFits
  <2> HIDE DEF start, length
  <2> SUFFICES ASSUME NEW f \in Files, NEW g \in Start(q) .. Start(q) + PieceLen(q) - 1, InFile(g, f)
               PROVE  w[f][g - Offset(f)] = g
    BY DEF Holds
  <2>2. g \in Int /\ fs[f][g - Offset(f)] = g
    BY <1>7, <2>1 DEF Holds
  <2> QED
    BY <1>5, <2>2
<1> QED
  BY <1>4, <1>6, <1>7 DEF w

\* read_block returns the bytes that were asked for, whatever files they lie in.
LEMMA ReadRight ==
  ASSUME NEW fs, NEW p \in Pieces, Holds(fs, p), NEW begin \in Nat, NEW length \in Nat,
         InPiece(p, begin, length)
  PROVE  ReadBlock(fs, p, begin, length) = [j \in 1 .. length |-> Start(p) + begin + j - 1]
<1> DEFINE start == Start(p) + begin
           F(g) == {f \in Files : g \in Slice(f, start, length)}
<1>1. /\ Start(p) \in Nat /\ PieceLen(p) \in Nat /\ start \in Nat /\ length > 0
      /\ Start(p) + PieceLen(p) <= TotalLength /\ begin + length <= PieceLen(p)
  BY PieceFits DEF InPiece
<1>2. ReadBlock(fs, p, begin, length) = ReadRange(fs, start, length)
  BY DEF ReadBlock
<1>3. ASSUME NEW j \in 1 .. length
      PROVE  LET g == start + j - 1
             IN  (IF F(g) = {} THEN Unset ELSE LET f == Max(F(g)) IN fs[f][Place(f, g, start)]) = g
  <2> DEFINE g == start + j - 1
  <2>1. /\ g \in Nat /\ g \in start .. start + length - 1
        /\ g \in Start(p) .. Start(p) + PieceLen(p) - 1 /\ g < TotalLength
    <3>1. TotalLength \in Nat
      BY FileTypes, OffsetsAdd
    <3> QED
      BY <1>1, <3>1
  <2> HIDE DEF g
  <2>2. PICK f \in Files : InFile(g, f)
    BY <2>1, SomeFile
  <2>3. F(g) = {f}
    <3>1. \A h \in Files : g \in Slice(h, start, length) <=> InFile(g, h)
      BY <2>1 DEF Slice, InFile
    <3>2. \A h \in Files : InFile(g, h) <=> h = f
      BY <2>1, <2>2, OneFile
    <3> QED
      BY <3>1, <3>2
  <2>4. Max({f}) = f
    <3>1. f \in Int
      BY FileTypes
    <3> QED
      BY <3>1 DEF Max
  <2>5. fs[f][g - Offset(f)] = g
    BY <2>1, <2>2 DEF Holds
  <2>6. (IF F(g) = {} THEN Unset ELSE LET h == Max(F(g)) IN fs[h][Place(h, g, start)]) = g
    BY <2>3, <2>4, <2>5 DEF Place
  <2> QED
    BY <2>6 DEF g
<1>4. ReadRange(fs, start, length) = [j \in 1 .. length |->
        LET g == start + j - 1
        IN  IF F(g) = {} THEN Unset ELSE LET f == Max(F(g)) IN fs[f][Place(f, g, start)]]
  BY DEF ReadRange
<1> HIDE DEF F
<1>5. ReadRange(fs, start, length) = [j \in 1 .. length |-> start + j - 1]
  BY <1>3, <1>4
<1> QED
  BY <1>2, <1>5

\* A byte of a piece belongs to no other piece.
LEMMA PieceOfByte ==
  ASSUME NEW p \in Pieces, NEW g \in Start(p) .. Start(p) + PieceLen(p) - 1
  PROVE  g \div PieceLength = p
<1> DEFINE L == PieceLength
           q == g \div L
           r == g % L
<1>1. L \in Nat \ {0} /\ p \in Nat
  BY PieceFits, StorageAssumption
<1>2. g \in Nat /\ p * L <= g /\ g < p * L + L /\ p * L \in Nat
  BY PieceFits, StorageAssumption DEF Start
<1> HIDE DEF L
<1>3. q \in Nat /\ r \in 0 .. L - 1 /\ g = L * q + r
  BY <1>1, <1>2
<1> HIDE DEF q, r
<1>4. ~ (q < p)
  <2> SUFFICES ASSUME q < p PROVE FALSE
    OBVIOUS
  <2>1. PICK d \in Nat : p = q + 1 + d
    <3>1. p - q - 1 \in Nat /\ p = q + 1 + (p - q - 1)
      BY <1>1, <1>3
    <3> QED
      BY <3>1
  <2>2. p * L = q * L + L + d * L
    BY <1>1, <1>3, <2>1
  <2>3. d * L \in Nat /\ L * q = q * L /\ q * L \in Nat
    BY <1>1, <1>3, <2>1
  <2> QED
    BY <1>1, <1>2, <1>3, <2>2, <2>3
<1>5. ~ (p < q)
  <2> SUFFICES ASSUME p < q PROVE FALSE
    OBVIOUS
  <2>1. PICK d \in Nat : q = p + 1 + d
    <3>1. q - p - 1 \in Nat /\ q = p + 1 + (q - p - 1)
      BY <1>1, <1>3
    <3> QED
      BY <3>1
  <2>2. q * L = p * L + L + d * L
    BY <1>1, <1>3, <2>1
  <2>3. d * L \in Nat /\ L * q = q * L /\ q * L \in Nat
    BY <1>1, <1>3, <2>1
  <2> QED
    BY <1>1, <1>2, <1>3, <2>2, <2>3
<1>6. q = p
  BY <1>1, <1>3, <1>4, <1>5
<1> QED
  BY <1>6 DEF q, L

\* The files that the session finds hold the pieces that its recheck accepts.
LEMMA FoundRight ==
  ASSUME NEW S \in SUBSET Pieces
  PROVE  Shaped(Holding(S)) /\ \A p \in S : Holds(Holding(S), p)
<1>1. Shaped(Holding(S))
  BY DEF Shaped, Holding
<1>2. ASSUME NEW p \in S, NEW f \in Files, NEW g \in Start(p) .. Start(p) + PieceLen(p) - 1,
             InFile(g, f)
      PROVE  Holding(S)[f][g - Offset(f)] = g
  <2>1. Start(p) \in Nat /\ PieceLen(p) \in Nat /\ g \in Int
    BY PieceFits
  <2> DEFINE i == g - Offset(f)
  <2>2. i \in 0 .. FileLengths[f] - 1 /\ Offset(f) + i = g
    BY <1>2, <2>1, Places
  <2> HIDE DEF i
  <2>3. Holding(S)[f][i] = IF (Offset(f) + i) \div PieceLength \in S THEN Offset(f) + i ELSE Unset
    BY <2>2 DEF Holding
  <2>4. g \div PieceLength = p
    BY PieceOfByte
  <2>5. Holding(S)[f][i] = g
    BY <2>2, <2>3, <2>4
  <2> QED
    BY <2>5 DEF i
<1> QED
  BY <1>1, <1>2 DEF Holds

(***************************************************************************)
(* The invariant of an upload: a piece is advertised, or answered for as   *)
(* written, only when the files hold it, and a read is queued only for an  *)
(* advertised piece.  The files never lose a byte again.                   *)
(***************************************************************************)

Commands ==
  [op : {"read", "write"}, peer : Handles \cup {""}, piece : Pieces, begin : Nat, length : Nat]

Answers == [command : Commands, data : Seq(Nat)]

MayRead(c) ==
  c.op = "read" => c.piece \in onDisk /\ InPiece(c.piece, c.begin, c.length)

UploadTyped ==
  /\ TypeOK
  /\ onDisk \subseteq Pieces
  /\ Shaped(files)
  /\ diskQ \in Seq(Commands) /\ answers \in Seq(Answers)

FilesTruth ==
  /\ \A p \in onDisk : Holds(files, p)
  /\ \A i \in DOMAIN answers :
       answers[i].command.op = "write" => Holds(files, answers[i].command.piece)

UploadInv ==
  /\ UploadTyped
  /\ FilesTruth
  /\ \A i \in DOMAIN diskQ : MayRead(diskQ[i])
  /\ ServedBytesRight

LEMMA QueueFacts ==
  ASSUME NEW S, NEW q \in Seq(S)
  PROVE  /\ q # <<>> => Head(q) \in S /\ Tail(q) \in Seq(S) /\ 1 \in DOMAIN q /\ Head(q) = q[1]
                        /\ \A i \in DOMAIN Tail(q) : i + 1 \in DOMAIN q /\ Tail(q)[i] = q[i + 1]
         /\ \A e \in S : Append(q, e) \in Seq(S)
                         /\ \A i \in DOMAIN Append(q, e) :
                              IF i = Len(q) + 1 THEN Append(q, e)[i] = e
                              ELSE i \in DOMAIN q /\ Append(q, e)[i] = q[i]
<1>1. ASSUME q # <<>>
      PROVE  /\ Head(q) \in S /\ Tail(q) \in Seq(S) /\ 1 \in DOMAIN q /\ Head(q) = q[1]
             /\ \A i \in DOMAIN Tail(q) : i + 1 \in DOMAIN q /\ Tail(q)[i] = q[i + 1]
  BY <1>1
<1>2. ASSUME NEW e \in S
      PROVE  /\ Append(q, e) \in Seq(S)
             /\ \A i \in DOMAIN Append(q, e) :
                  IF i = Len(q) + 1 THEN Append(q, e)[i] = e
                  ELSE i \in DOMAIN q /\ Append(q, e)[i] = q[i]
  OBVIOUS
<1> QED
  BY <1>1, <1>2

LEMMA UploadInitInv == UploadInit => UploadInv
<1> SUFFICES ASSUME UploadInit PROVE UploadInv
  OBVIOUS
<1>1. TypeOK
  BY InitTyped DEF UploadInit
<1>2. /\ onDisk \in SUBSET Pieces /\ files = Holding(onDisk) /\ diskQ = <<>> /\ answers = <<>>
  BY DEF UploadInit
<1>3. Shaped(files) /\ \A p \in onDisk : Holds(files, p)
  BY <1>2, FoundRight
<1>4. <<>> \in Seq(Commands) /\ <<>> \in Seq(Answers) /\ DOMAIN <<>> = {}
  OBVIOUS
<1> QED
  BY <1>1, <1>2, <1>3, <1>4 DEF UploadInv, UploadTyped, FilesTruth, ServedBytesRight

\* The slots and the files do not touch each other.
LEMMA SlotsKeep ==
  ASSUME UploadInv, [Next]_vars, UNCHANGED uploadVars PROVE UploadInv'
<1>1. TypeOK'
  BY TypeKept DEF UploadInv, UploadTyped
<1> QED
  BY <1>1 DEF UploadInv, UploadTyped, FilesTruth, ServedBytesRight, MayRead, uploadVars

LEMMA CommandQueued ==
  ASSUME UploadInv, NEW c \in Commands, MayRead(c),
         diskQ' = Append(diskQ, c), UNCHANGED <<vars, onDisk, files, answers>>
  PROVE  UploadInv'
<1>1. /\ diskQ \in Seq(Commands) /\ diskQ' \in Seq(Commands)
      /\ \A i \in DOMAIN diskQ' :
           IF i = Len(diskQ) + 1 THEN diskQ'[i] = c ELSE i \in DOMAIN diskQ /\ diskQ'[i] = diskQ[i]
  BY QueueFacts DEF UploadInv, UploadTyped
<1>2. TypeOK'
  BY DEF UploadInv, UploadTyped, TypeOK, Links, vars
<1>3. \A i \in DOMAIN diskQ' : MayRead(diskQ'[i])
  BY <1>1 DEF UploadInv
<1>4. \A i \in DOMAIN diskQ' : MayRead(diskQ[i])'
  BY <1>3 DEF MayRead
<1>5. UploadTyped' /\ FilesTruth' /\ ServedBytesRight'
  BY <1>1, <1>2 DEF UploadInv, UploadTyped, FilesTruth, ServedBytesRight
<1> QED
  BY <1>4, <1>5 DEF UploadInv

LEMMA RequestKeeps ==
  ASSUME UploadInv, NEW h \in Handles, NEW p \in 0 .. NumPieces, NEW begin \in 0 .. PieceLength,
         NEW length \in 0 .. MaxServe + 1, Request(h, p, begin, length)
  PROVE  UploadInv'
<1> DEFINE c == ReadCommand(h, p, begin, length)
<1>1. /\ p \in onDisk /\ p \in Pieces /\ InPiece(p, begin, length)
      /\ diskQ' = Append(diskQ, c) /\ UNCHANGED <<vars, onDisk, files, answers>>
  BY DEF Request
<1>2. begin \in Nat /\ length \in Nat
  BY StorageAssumption, UploadAssumption
<1>3. c \in Commands /\ MayRead(c)
  BY <1>1, <1>2 DEF ReadCommand, Commands, MayRead
<1> HIDE DEF c
<1> QED
  BY <1>1, <1>3, CommandQueued

LEMMA CompletedKeeps ==
  ASSUME UploadInv, NEW p \in Pieces, PieceCompleted(p) PROVE UploadInv'
<1> DEFINE c == WriteCommand(p)
<1>1. diskQ' = Append(diskQ, c) /\ UNCHANGED <<vars, onDisk, files, answers>>
  BY DEF PieceCompleted
<1>2. c \in Commands /\ MayRead(c)
  BY DEF WriteCommand, Commands, MayRead
<1> HIDE DEF c
<1> QED
  BY <1>1, <1>2, CommandQueued

LEMMA DiskKeeps == ASSUME UploadInv, DiskStep PROVE UploadInv'
<1> DEFINE c == Head(diskQ)
           data == IF c.op = "write" THEN <<>> ELSE ReadBlock(files, c.piece, c.begin, c.length)
           a == [command |-> c, data |-> data]
<1>1. /\ diskQ # <<>> /\ diskQ' = Tail(diskQ) /\ answers' = Append(answers, a)
      /\ files' = IF c.op = "write" THEN WritePiece(files, c.piece, Piece(c.piece)) ELSE files
      /\ UNCHANGED <<vars, paused, onDisk, written>>
  BY DEF DiskStep
<1>2. /\ c \in Commands /\ diskQ' \in Seq(Commands) /\ MayRead(c)
      /\ \A i \in DOMAIN diskQ' : i + 1 \in DOMAIN diskQ /\ diskQ'[i] = diskQ[i + 1]
  BY <1>1, QueueFacts DEF UploadInv, UploadTyped
<1>3. c.op \in {"read", "write"} /\ c.piece \in Pieces /\ c.begin \in Nat /\ c.length \in Nat
  BY <1>2 DEF Commands
<1>4. c.op = "read" => data = [j \in 1 .. c.length |-> Start(c.piece) + c.begin + j - 1]
  <2> SUFFICES ASSUME c.op = "read"
               PROVE  data = [j \in 1 .. c.length |-> Start(c.piece) + c.begin + j - 1]
    OBVIOUS
  <2>1. /\ InPiece(c.piece, c.begin, c.length) /\ Holds(files, c.piece)
    BY <1>2 DEF MayRead, UploadInv, FilesTruth
  <2> QED
    BY <1>3, <2>1, ReadRight
<1>5. data \in Seq(Nat)
  <2>1. CASE c.op = "write"
    BY <2>1
  <2>2. CASE c.op = "read"
    <3>1. Start(c.piece) \in Nat
      BY <1>3, PieceFits
    <3>2. \A j \in 1 .. c.length : Start(c.piece) + c.begin + j - 1 \in Nat
      BY <1>3, <3>1
    <3> HIDE DEF data
    <3> QED
      BY <1>3, <1>4, <2>2, <3>2
  <2> QED
    BY <1>3, <2>1, <2>2
<1>6. /\ Shaped(files')
      /\ \A p \in Pieces : Holds(files, p) => Holds(files', p)
      /\ c.op = "write" => Holds(files', c.piece)
  <2>1. Shaped(files)
    BY DEF UploadInv, UploadTyped
  <2>2. CASE c.op = "write"
    BY <1>1, <1>3, <2>1, <2>2, WriteRight
  <2>3. CASE c.op # "write"
    BY <1>1, <2>1, <2>3
  <2> QED
    BY <2>2, <2>3
<1> HIDE DEF data, c
<1>7. a \in Answers
  BY <1>2, <1>5 DEF Answers
<1>8. a.command = c /\ a.data = data
  OBVIOUS
<1> HIDE DEF a
<1>9. /\ answers \in Seq(Answers) /\ answers' \in Seq(Answers)
      /\ \A i \in DOMAIN answers' :
           IF i = Len(answers) + 1 THEN answers'[i] = a
           ELSE i \in DOMAIN answers /\ answers'[i] = answers[i]
  BY <1>1, <1>7, QueueFacts DEF UploadInv, UploadTyped
<1>10. \A i \in DOMAIN answers : answers[i].command.piece \in Pieces
  <2>1. \A i \in DOMAIN answers : answers[i] \in Answers
    BY <1>9
  <2>2. \A e \in Answers : e.command.piece \in Pieces
    BY DEF Answers, Commands
  <2> QED
    BY <2>1, <2>2
<1>11. FilesTruth'
  <2>1. \A p \in onDisk' : Holds(files', p)
    BY <1>1, <1>6 DEF UploadInv, UploadTyped, FilesTruth
  <2>2. ASSUME NEW i \in DOMAIN answers', answers'[i].command.op = "write"
        PROVE  Holds(files', answers'[i].command.piece)
    <3>1. CASE i = Len(answers) + 1
      BY <1>6, <1>8, <1>9, <2>2, <3>1
    <3>2. CASE i # Len(answers) + 1
      BY <1>6, <1>9, <1>10, <2>2, <3>2 DEF UploadInv, FilesTruth
    <3> QED
      BY <3>1, <3>2
  <2> QED
    BY <2>1, <2>2 DEF FilesTruth
<1>12. ServedBytesRight'
  <2> SUFFICES ASSUME NEW i \in DOMAIN answers', answers'[i].command.op = "read"
               PROVE  answers'[i].data =
                        [j \in 1 .. answers'[i].command.length |->
                           Start(answers'[i].command.piece) + answers'[i].command.begin + j - 1]
    BY DEF ServedBytesRight
  <2>1. CASE i = Len(answers) + 1
    BY <1>4, <1>8, <1>9, <2>1
  <2>2. CASE i # Len(answers) + 1
    <3>1. i \in DOMAIN answers /\ answers'[i] = answers[i]
      BY <1>9, <2>2
    <3> QED
      BY <3>1 DEF UploadInv, ServedBytesRight
  <2> QED
    BY <2>1, <2>2
<1>13. \A i \in DOMAIN diskQ' : MayRead(diskQ[i])'
  <2>1. ASSUME NEW i \in DOMAIN diskQ' PROVE MayRead(diskQ'[i])
    BY <1>2 DEF UploadInv
  <2> QED
    BY <1>1, <2>1 DEF MayRead
<1>14. UploadTyped'
  <2>1. TypeOK'
    BY <1>1 DEF UploadInv, UploadTyped, TypeOK, Links, vars
  <2> QED
    BY <1>1, <1>2, <1>6, <1>9, <2>1 DEF UploadInv, UploadTyped
<1> QED
  BY <1>11, <1>12, <1>13, <1>14 DEF UploadInv

LEMMA AnswerKeeps == ASSUME UploadInv, HandleAnswer PROVE UploadInv'
<1> DEFINE c == Head(answers).command
<1>1. /\ answers # <<>> /\ answers' = Tail(answers)
      /\ onDisk' = IF c.op = "write" THEN onDisk \cup {c.piece} ELSE onDisk
      /\ UNCHANGED <<vars, paused, written, files, diskQ>>
  BY DEF HandleAnswer
<1>2. /\ Head(answers) \in Answers /\ answers' \in Seq(Answers)
      /\ 1 \in DOMAIN answers /\ Head(answers) = answers[1]
      /\ \A i \in DOMAIN answers' : i + 1 \in DOMAIN answers /\ answers'[i] = answers[i + 1]
  BY <1>1, QueueFacts DEF UploadInv, UploadTyped
<1>3. c.op = "write" => c.piece \in Pieces /\ Holds(files, c.piece)
  BY <1>2 DEF Answers, Commands, UploadInv, FilesTruth
<1> HIDE DEF c
<1>4. FilesTruth'
  BY <1>1, <1>2, <1>3 DEF UploadInv, FilesTruth
<1>5. ServedBytesRight'
  BY <1>1, <1>2 DEF UploadInv, ServedBytesRight
<1>6. \A i \in DOMAIN diskQ' : MayRead(diskQ[i])'
  BY <1>1 DEF UploadInv, MayRead
<1>7. UploadTyped'
  <2>1. TypeOK'
    BY <1>1 DEF UploadInv, UploadTyped, TypeOK, Links, vars
  <2> QED
    BY <1>1, <1>2, <1>3, <2>1 DEF UploadInv, UploadTyped
<1> QED
  BY <1>4, <1>5, <1>6, <1>7 DEF UploadInv

LEMMA UploadNextInv == UploadInv /\ [UploadNext]_allVars => UploadInv'
<1> SUFFICES ASSUME UploadInv, [UploadNext]_allVars PROVE UploadInv'
  OBVIOUS
<1>1. CASE Next /\ UNCHANGED uploadVars
  BY <1>1, SlotsKeep
<1>2. ASSUME NEW p \in Pieces, PieceCompleted(p) PROVE UploadInv'
  BY <1>2, CompletedKeeps
<1>3. ASSUME NEW h \in Handles, NEW p \in 0 .. NumPieces, NEW begin \in 0 .. PieceLength,
             NEW length \in 0 .. MaxServe + 1, Request(h, p, begin, length)
      PROVE  UploadInv'
  BY <1>3, RequestKeeps
<1>4. CASE DiskStep
  BY <1>4, DiskKeeps
<1>5. CASE HandleAnswer
  BY <1>5, AnswerKeeps
<1>6. CASE Pause \/ UNCHANGED allVars
  <2>1. UNCHANGED <<vars, onDisk, written, files, diskQ, answers>>
    BY <1>6 DEF Pause, allVars, uploadVars
  <2>2. TypeOK'
    BY <2>1 DEF UploadInv, UploadTyped, TypeOK, Links, vars
  <2> QED
    BY <2>1, <2>2 DEF UploadInv, UploadTyped, FilesTruth, ServedBytesRight, MayRead
<1> QED
  BY <1>1, <1>2, <1>3, <1>4, <1>5, <1>6 DEF UploadNext, UploadStep

THEOREM UploadInvariant == UploadSpec => []UploadInv
  BY UploadInitInv, UploadNextInv, PTL DEF UploadSpec

\* A block that is served consists of the bytes that were asked for: the slices
\* of write_piece and read_range agree whatever the files and the piece length
\* are, and no queued read overtakes the write it depends on.
THEOREM ServedRight == UploadSpec => []ServedBytesRight
<1>1. UploadInv => ServedBytesRight
  BY DEF UploadInv
<1> QED
  BY UploadInvariant, <1>1, PTL

\* Uploads, writes and pauses leave the slots to the choke manager.
THEOREM UploadSlots == UploadSpec => [](ServedHoldSlots /\ ServedWithinSlots)
<1>1. UploadInit => Init
  BY DEF UploadInit
<1>2. [UploadNext]_allVars => [Next]_vars
  BY DEF UploadNext, UploadStep, PieceCompleted, Request, DiskStep, HandleAnswer, Pause, allVars
<1>3. Inv => ServedHoldSlots /\ ServedWithinSlots
  BY InvMeans
<1> QED
  BY InitInv, NextInv, <1>1, <1>2, <1>3, PTL DEF UploadSpec
=============================================================================
