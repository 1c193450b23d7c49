---------------------------- MODULE SessionProofs ----------------------------
(***************************************************************************)
(* A download session keeps what it promises, for any number of peers,     *)
(* pieces and blocks: what it calls on disk is, no verified piece is lost  *)
(* between manager and writer, the end is recognised, requests stay in the *)
(* pipeline.  The lemmas about the calls of the piece manager come from    *)
(* PiecesProofs; here are the loops of the hub (refill, the replay of the  *)
(* early bitfields), the two queues, and the invariant that ties them.     *)
(***************************************************************************)
EXTENDS Session, PiecesProofs, SequenceTheorems

(***************************************************************************)
(* Loops.  A loop of the code is a recursive function over 0 .. n: that it *)
(* exists, and that a set closed under its body holds all its values, goes *)
(* by induction on n.                                                      *)
(***************************************************************************)

LEMMA CountUp ==
  ASSUME NEW S, 0 \in S, \A n \in Nat : n \in S => n + 1 \in S
  PROVE  \A n \in Nat : n \in S
<1> DEFINE T == {n \in Nat : n \notin S}
<1> SUFFICES ASSUME T # {} PROVE FALSE
  OBVIOUS
<1>1. PICK n \in T : \A c \in T : n <= c
  BY LowestExists DEF Lowest
<1>2. n # 0
  OBVIOUS
<1>3. n - 1 \in Nat /\ n - 1 \notin T
  BY <1>1, <1>2
<1>4. (n - 1) + 1 \in S
  BY <1>3
<1> QED
  BY <1>1, <1>3, <1>4

LEMMA BlocksFinite == IsFiniteSet(Blocks)
<1>1. IsFiniteSet(0 .. PieceBlocks - 1)
  BY FS_Interval, PiecesAssumption
<1>2. IsFiniteSet(Pieces \X (0 .. PieceBlocks - 1))
  BY <1>1, PieceFacts, FS_Product
<1> QED
  BY <1>2, FS_Subset DEF Blocks

\* f is the function turn of AskAll for 0 .. m, by its definition and unfolded.
Turns(r, peer, bf, m, f) ==
  f = [n \in 0 .. m |-> IF n = 0 THEN {r} ELSE AskOnce(f[n - 1], peer, bf)]

TurnsGo(r, peer, bf, m, f) == f[0] = {r} /\ \A n \in 1 .. m : f[n] = AskOnce(f[n - 1], peer, bf)

LEMMA TurnsUnfold ==
  ASSUME NEW r, NEW peer, NEW bf, NEW m \in Nat, NEW f, Turns(r, peer, bf, m, f)
  PROVE  TurnsGo(r, peer, bf, m, f)
<1> DEFINE h == [n \in 0 .. m |-> IF n = 0 THEN {r} ELSE AskOnce(f[n - 1], peer, bf)]
<1>1. h[0] = {r} /\ \A n \in 1 .. m : h[n] = AskOnce(f[n - 1], peer, bf)
  OBVIOUS
<1>2. f = h
  BY DEF Turns
<1> HIDE DEF h
<1> QED
  BY <1>1, <1>2 DEF TurnsGo

LEMMA TurnsExist ==
  ASSUME NEW r, NEW peer, NEW bf
  PROVE  \A m \in Nat : \E f : Turns(r, peer, bf, m, f)
<1> DEFINE S == {m \in Nat : \E f : Turns(r, peer, bf, m, f)}
<1>1. 0 \in S
  <2> DEFINE f == [n \in 0 .. 0 |-> {r}]
  <2>1. \A n \in 0 .. 0 : n = 0
    OBVIOUS
  <2>2. Turns(r, peer, bf, 0, f)
    BY <2>1 DEF Turns
  <2> QED
    BY <2>2
<1>2. ASSUME NEW m \in Nat, m \in S PROVE m + 1 \in S
  <2>1. PICK f : Turns(r, peer, bf, m, f)
    BY <1>2
  <2>2. TurnsGo(r, peer, bf, m, f)
    BY <2>1, TurnsUnfold
  <2> DEFINE g == [n \in 0 .. m + 1 |-> IF n = m + 1 THEN AskOnce(f[m], peer, bf) ELSE f[n]]
  <2>3. /\ \A n \in 0 .. m : g[n] = f[n]
        /\ g[m + 1] = AskOnce(f[m], peer, bf)
    OBVIOUS
  <2>4. DOMAIN g = 0 .. m + 1 /\ g = [n \in 0 .. m + 1 |-> g[n]]
    OBVIOUS
  <2> HIDE DEF g
  <2>5. g[0] = {r} /\ \A n \in 1 .. m + 1 : g[n] = AskOnce(g[n - 1], peer, bf)
    <3>1. \A n \in 1 .. m + 1 : n = m + 1 \/ (n \in 1 .. m /\ n - 1 \in 0 .. m)
      OBVIOUS
    <3>2. (m + 1) - 1 = m /\ 0 \in 0 .. m /\ m \in 0 .. m
      OBVIOUS
    <3> QED
      BY <2>2, <2>3, <3>1, <3>2 DEF TurnsGo
  <2>6. Turns(r, peer, bf, m + 1, g)
    <3>1. \A n \in 0 .. m + 1 : n = 0 \/ n \in 1 .. m + 1
      OBVIOUS
    <3>2. \A n \in 0 .. m + 1 : g[n] = IF n = 0 THEN {r} ELSE AskOnce(g[n - 1], peer, bf)
      BY <2>5, <3>1
    <3> QED
      BY <2>4, <3>2 DEF Turns
  <2> QED
    BY <2>6
<1> HIDE DEF S
<1>3. \A m \in Nat : m \in S
  BY <1>1, <1>2, CountUp
<1> QED
  BY <1>3 DEF S

\* What holds one state and all that a turn of the loop leads to holds the rest.
LEMMA AskAllStays ==
  ASSUME NEW S, NEW r \in S, NEW peer, NEW bf,
         \A R \in SUBSET S : AskOnce(R, peer, bf) \subseteq S
  PROVE  AskAll(r, peer, bf) \subseteq S
<1> DEFINE m == RefillBound
           turn == CHOOSE f : Turns(r, peer, bf, m, f)
           Good == {n \in Nat : n \in 0 .. m => turn[n] \subseteq S}
<1>1. m \in Nat
  BY BlocksFinite, FS_CardinalityType, SessionAssumption DEF RefillBound
<1>2. Turns(r, peer, bf, m, turn)
  BY <1>1, TurnsExist
<1>3. AskAll(r, peer, bf) = turn[m]
  BY DEF AskAll, Turns
<1> HIDE DEF m, turn
<1>4. TurnsGo(r, peer, bf, m, turn)
  BY <1>1, <1>2, TurnsUnfold
<1>5. 0 \in Good
  BY <1>4 DEF TurnsGo
<1>6. ASSUME NEW n \in Nat, n \in Good PROVE n + 1 \in Good
  <2>1. SUFFICES ASSUME n + 1 \in 0 .. m PROVE turn[n + 1] \subseteq S
    OBVIOUS
  <2>2. n \in 0 .. m /\ n + 1 \in 1 .. m /\ (n + 1) - 1 = n
    BY <1>1, <2>1
  <2>3. turn[n + 1] = AskOnce(turn[n], peer, bf)
    BY <1>4, <2>2 DEF TurnsGo
  <2> QED
    BY <1>6, <2>2, <2>3
<1> HIDE DEF Good
<1>7. m \in Good
  BY <1>1, <1>5, <1>6, CountUp
<1> QED
  BY <1>1, <1>3, <1>7 DEF Good

LEMMA RefillStays ==
  ASSUME NEW S, NEW r \in S, NEW peer,
         MayAsk(peer) => \A R \in SUBSET S : AskOnce(R, peer, linkHas'[peer]) \subseteq S
  PROVE  Refill(r, peer) \subseteq S
  BY AskAllStays DEF Refill

\* f is the function upTo of RefillInOrder for 0 .. m, by its definition and unfolded.
Rounds(r, order, m, f) ==
  f = [n \in 0 .. m |-> IF n = 0 THEN {r} ELSE RefillEach(f[n - 1], order[n])]

RoundsGo(r, order, m, f) == f[0] = {r} /\ \A n \in 1 .. m : f[n] = RefillEach(f[n - 1], order[n])

LEMMA RoundsUnfold ==
  ASSUME NEW r, NEW order, NEW m \in Nat, NEW f, Rounds(r, order, m, f)
  PROVE  RoundsGo(r, order, m, f)
<1> DEFINE h == [n \in 0 .. m |-> IF n = 0 THEN {r} ELSE RefillEach(f[n - 1], order[n])]
<1>1. h[0] = {r} /\ \A n \in 1 .. m : h[n] = RefillEach(f[n - 1], order[n])
  OBVIOUS
<1>2. f = h
  BY DEF Rounds
<1> HIDE DEF h
<1> QED
  BY <1>1, <1>2 DEF RoundsGo

LEMMA RoundsExist ==
  ASSUME NEW r, NEW order
  PROVE  \A m \in Nat : \E f : Rounds(r, order, m, f)
<1> DEFINE S == {m \in Nat : \E f : Rounds(r, order, m, f)}
<1>1. 0 \in S
  <2> DEFINE f == [n \in 0 .. 0 |-> {r}]
  <2>1. \A n \in 0 .. 0 : n = 0
    OBVIOUS
  <2>2. Rounds(r, order, 0, f)
    BY <2>1 DEF Rounds
  <2> QED
    BY <2>2
<1>2. ASSUME NEW m \in Nat, m \in S PROVE m + 1 \in S
  <2>1. PICK f : Rounds(r, order, m, f)
    BY <1>2
  <2>2. RoundsGo(r, order, m, f)
    BY <2>1, RoundsUnfold
  <2> DEFINE g == [n \in 0 .. m + 1 |-> IF n = m + 1 THEN RefillEach(f[m], order[m + 1]) ELSE f[n]]
  <2>3. /\ \A n \in 0 .. m : g[n] = f[n]
        /\ g[m + 1] = RefillEach(f[m], order[m + 1])
    OBVIOUS
  <2>4. DOMAIN g = 0 .. m + 1 /\ g = [n \in 0 .. m + 1 |-> g[n]]
    OBVIOUS
  <2> HIDE DEF g
  <2>5. g[0] = {r} /\ \A n \in 1 .. m + 1 : g[n] = RefillEach(g[n - 1], order[n])
    <3>1. \A n \in 1 .. m + 1 : n = m + 1 \/ (n \in 1 .. m /\ n - 1 \in 0 .. m)
      OBVIOUS
    <3>2. (m + 1) - 1 = m /\ 0 \in 0 .. m /\ m \in 0 .. m
      OBVIOUS
    <3> QED
      BY <2>2, <2>3, <3>1, <3>2 DEF RoundsGo
  <2>6. Rounds(r, order, m + 1, g)
    <3>1. \A n \in 0 .. m + 1 : n = 0 \/ n \in 1 .. m + 1
      OBVIOUS
    <3>2. \A n \in 0 .. m + 1 : g[n] = IF n = 0 THEN {r} ELSE RefillEach(g[n - 1], order[n])
      BY <2>5, <3>1
    <3> QED
      BY <2>4, <3>2 DEF Rounds
  <2> QED
    BY <2>6
<1> HIDE DEF S
<1>3. \A m \in Nat : m \in S
  BY <1>1, <1>2, CountUp
<1> QED
  BY <1>3 DEF S

EachStays(S, order, m) == \A n \in 1 .. m : \A r \in S : Refill(r, order[n]) \subseteq S

\* The loop over the links stays in whatever set every refill stays in.
LEMMA InOrderStays ==
  ASSUME NEW S, NEW r \in S, NEW order, NEW m, m = Len(order), m \in Nat, EachStays(S, order, m)
  PROVE  RefillInOrder(r, order) \subseteq S
<1> DEFINE upTo == CHOOSE f : Rounds(r, order, m, f)
           Good == {n \in Nat : n \in 0 .. m => upTo[n] \subseteq S}
<1>1. m \in Nat
  OBVIOUS
<1>2. Rounds(r, order, m, upTo)
  BY <1>1, RoundsExist
<1>3. RefillInOrder(r, order) = upTo[m]
  BY DEF RefillInOrder, Rounds
<1> HIDE DEF upTo
<1>4. RoundsGo(r, order, m, upTo)
  BY <1>1, <1>2, RoundsUnfold
<1>5. 0 \in Good
  BY <1>4 DEF RoundsGo
<1>6. ASSUME NEW n \in Nat, n \in Good PROVE n + 1 \in Good
  <2>1. SUFFICES ASSUME n + 1 \in 0 .. m PROVE upTo[n + 1] \subseteq S
    OBVIOUS
  <2>2. n \in 0 .. m /\ n + 1 \in 1 .. m /\ (n + 1) - 1 = n
    BY <1>1, <2>1
  <2>3. upTo[n] \subseteq S
    BY <1>6, <2>2
  <2>4. upTo[n + 1] = RefillEach(upTo[n], order[n + 1])
    BY <1>4, <2>2 DEF RoundsGo
  <2> QED
    BY <2>2, <2>3, <2>4 DEF RefillEach, EachStays
<1> HIDE DEF Good
<1>7. m \in Good
  BY <1>1, <1>5, <1>6, CountUp
<1> QED
  BY <1>1, <1>3, <1>7 DEF Good

LEMMA RefillAllStays ==
  ASSUME NEW S, NEW r \in S, IsFiniteSet(links),
         \A peer \in links : MayAsk(peer) =>
           \A R \in SUBSET S : AskOnce(R, peer, linkHas'[peer]) \subseteq S
  PROVE  RefillAll(r) \subseteq S
<1> SUFFICES ASSUME NEW order \in SetToSeqs(links) PROVE RefillInOrder(r, order) \subseteq S
  BY DEF RefillAll
<1>1. Cardinality(links) \in Nat
  BY FS_CardinalityType
<1>2. order \in [1 .. Cardinality(links) -> links]
  BY DEF SetToSeqs
<1>3. order \in Seq(links) /\ Len(order) = Cardinality(links)
  BY <1>1, <1>2
<1>4. EachStays(S, order, Cardinality(links))
  BY <1>2, <1>3, RefillStays DEF EachStays
<1> QED
  BY <1>1, <1>3, <1>4, InOrderStays

\* f is the function after of ReplayInOrder for 0 .. m, by its definition and unfolded.
Replays(x, order, m, f) ==
  f = [n \in 0 .. m |-> IF n = 0 THEN x ELSE Replay(f[n - 1], order[n])]

ReplaysGo(x, order, m, f) == f[0] = x /\ \A n \in 1 .. m : f[n] = Replay(f[n - 1], order[n])

LEMMA ReplaysUnfold ==
  ASSUME NEW x, NEW order, NEW m \in Nat, NEW f, Replays(x, order, m, f)
  PROVE  ReplaysGo(x, order, m, f)
<1> DEFINE h == [n \in 0 .. m |-> IF n = 0 THEN x ELSE Replay(f[n - 1], order[n])]
<1>1. h[0] = x /\ \A n \in 1 .. m : h[n] = Replay(f[n - 1], order[n])
  OBVIOUS
<1>2. f = h
  BY DEF Replays
<1> HIDE DEF h
<1> QED
  BY <1>1, <1>2 DEF ReplaysGo

LEMMA ReplaysExist ==
  ASSUME NEW x, NEW order
  PROVE  \A m \in Nat : \E f : Replays(x, order, m, f)
<1> DEFINE S == {m \in Nat : \E f : Replays(x, order, m, f)}
<1>1. 0 \in S
  <2> DEFINE f == [n \in 0 .. 0 |-> x]
  <2>1. \A n \in 0 .. 0 : n = 0
    OBVIOUS
  <2>2. Replays(x, order, 0, f)
    BY <2>1 DEF Replays
  <2> QED
    BY <2>2
<1>2. ASSUME NEW m \in Nat, m \in S PROVE m + 1 \in S
  <2>1. PICK f : Replays(x, order, m, f)
    BY <1>2
  <2>2. ReplaysGo(x, order, m, f)
    BY <2>1, ReplaysUnfold
  <2> DEFINE g == [n \in 0 .. m + 1 |-> IF n = m + 1 THEN Replay(f[m], order[m + 1]) ELSE f[n]]
  <2>3. /\ \A n \in 0 .. m : g[n] = f[n]
        /\ g[m + 1] = Replay(f[m], order[m + 1])
    OBVIOUS
  <2>4. DOMAIN g = 0 .. m + 1 /\ g = [n \in 0 .. m + 1 |-> g[n]]
    OBVIOUS
  <2> HIDE DEF g
  <2>5. g[0] = x /\ \A n \in 1 .. m + 1 : g[n] = Replay(g[n - 1], order[n])
    <3>1. \A n \in 1 .. m + 1 : n = m + 1 \/ (n \in 1 .. m /\ n - 1 \in 0 .. m)
      OBVIOUS
    <3>2. (m + 1) - 1 = m /\ 0 \in 0 .. m /\ m \in 0 .. m
      OBVIOUS
    <3> QED
      BY <2>2, <2>3, <3>1, <3>2 DEF ReplaysGo
  <2>6. Replays(x, order, m + 1, g)
    <3>1. \A n \in 0 .. m + 1 : n = 0 \/ n \in 1 .. m + 1
      OBVIOUS
    <3>2. \A n \in 0 .. m + 1 : g[n] = IF n = 0 THEN x ELSE Replay(g[n - 1], order[n])
      BY <2>5, <3>1
    <3> QED
      BY <2>4, <3>2 DEF Replays
  <2> QED
    BY <2>6
<1> HIDE DEF S
<1>3. \A m \in Nat : m \in S
  BY <1>1, <1>2, CountUp
<1> QED
  BY <1>3 DEF S

\* What the replays preserve holds of the manager they leave.
LEMMA ReplayStays ==
  ASSUME NEW S, NEW x, NEW order, NEW m, m = Len(order), m \in Nat, <<0, x>> \in S,
         \A n \in 1 .. m : \A y : <<n - 1, y>> \in S => <<n, Replay(y, order[n])>> \in S
  PROVE  <<m, ReplayInOrder(x, order)>> \in S
<1> DEFINE after == CHOOSE f : Replays(x, order, m, f)
           Good == {n \in Nat : n \in 0 .. m => <<n, after[n]>> \in S}
<1>1. m \in Nat
  OBVIOUS
<1>2. Replays(x, order, m, after)
  BY <1>1, ReplaysExist
<1>3. ReplayInOrder(x, order) = after[m]
  BY DEF ReplayInOrder, Replays
<1> HIDE DEF after
<1>4. ReplaysGo(x, order, m, after)
  BY <1>1, <1>2, ReplaysUnfold
<1>5. 0 \in Good
  BY <1>4 DEF ReplaysGo
<1>6. ASSUME NEW n \in Nat, n \in Good PROVE n + 1 \in Good
  <2>1. SUFFICES ASSUME n + 1 \in 0 .. m PROVE <<n + 1, after[n + 1]>> \in S
    OBVIOUS
  <2>2. n \in 0 .. m /\ n + 1 \in 1 .. m /\ (n + 1) - 1 = n
    BY <1>1, <2>1
  <2>3. <<n, after[n]>> \in S
    BY <1>6, <2>2
  <2>4. after[n + 1] = Replay(after[n], order[n + 1])
    BY <1>4, <2>2 DEF ReplaysGo
  <2> QED
    BY <2>2, <2>3, <2>4
<1> HIDE DEF Good
<1>7. m \in Good
  BY <1>1, <1>5, <1>6, CountUp
<1> QED
  BY <1>1, <1>3, <1>7 DEF Good

(***************************************************************************)
(* What the loops do to the manager.                                       *)
(***************************************************************************)

\* Requests stay in the pipeline, at links that may be asked.
Bounded(f, asked) ==
  \A q \in Peers : Cardinality(f[q]) <= Pipeline /\ (f[q] # {} => q \in asked)

\* The links that may hold requests.
Askable == {peer \in links : peer \in unchoked \/ Ghosts(peer) > 0}

\* Refills add requests to the manager m, at the links that unchoked us, none
\* during a pause; they change nothing else that the session depends on.
Asked(m, n) ==
  /\ Consistent(n)
  /\ n.known = m.known /\ n.has = m.has /\ DonePieces(n) = DonePieces(m)
  /\ Bounded(n.inFlight, Askable')
  /\ paused' => n.inFlight = m.inFlight

AskedStates(m) == {r \in [pm : PMs, owed : [Peers -> SUBSET Blocks]] : Asked(m, r.pm)}

LEMMA OneMore ==
  ASSUME NEW F, IsFiniteSet(F), NEW k, Cardinality(F) < Pipeline
  PROVE  Cardinality(F \cup {k}) <= Pipeline
<1> DEFINE c == Cardinality(F)
           d == Cardinality(F \cup {k})
<1>1. c \in Nat
  BY FS_CardinalityType
<1>2. d = IF k \in F THEN c ELSE c + 1
  BY FS_AddElement
<1>3. c < Pipeline /\ Pipeline \in Nat
  BY SessionAssumption
<1> HIDE DEF c, d
<1>4. d <= Pipeline
  BY <1>1, <1>2, <1>3
<1> QED
  BY <1>4 DEF d

LEMMA AskKeeps ==
  ASSUME NEW m, NEW r \in AskedStates(m), NEW peer \in Peers, MayAsk(peer),
         HasSlot(r.pm, peer), NEW bf \in SUBSET Pieces, NEW k \in NextBlockRequest(r.pm, peer, bf)
  PROVE  Ask(r, peer, k) \in AskedStates(m)
<1> DEFINE x == r.pm
           n == Issue(x, peer, k)
<1>1. Consistent(x) /\ Typed(x) /\ Asked(m, x) /\ r.owed \in [Peers -> SUBSET Blocks]
  BY DEF AskedStates, Asked, Consistent
<1>2. k \in Blocks /\ Needed(x, k)
  BY <1>1, ChoiceIsNeeded
<1>3. Consistent(n)
  BY <1>1, <1>2, IssueConsistent
<1>4. n \in PMs
  BY <1>3 DEF Consistent, Typed
<1>5. n.known = x.known /\ n.has = x.has /\ n.inFlight = [x.inFlight EXCEPT ![peer] = @ \cup {k}]
  BY <1>1 DEF Typed, PMs, Issue
<1>6. DonePieces(n) = DonePieces(x)
  BY <1>1, <1>2, PieceFacts DEF Typed, PMs, DonePieces, Issue, Needed
<1>7. Bounded(n.inFlight, Askable')
  <2>1. x.inFlight \in [Peers -> SUBSET Blocks]
    BY <1>1 DEF Typed, PMs
  <2>2. IsFiniteSet(x.inFlight[peer])
    BY <2>1, BlocksFinite, FS_Subset
  <2>3. Cardinality(x.inFlight[peer] \cup {k}) <= Pipeline
    BY <2>2, OneMore DEF HasSlot
  <2>4. n.inFlight[peer] = x.inFlight[peer] \cup {k}
        /\ \A q \in Peers \ {peer} : n.inFlight[q] = x.inFlight[q]
    BY <1>5, <2>1
  <2> QED
    <3>1. peer \in Askable'
      BY DEF MayAsk, Askable
    <3> QED
      BY <1>1, <2>3, <2>4, <3>1 DEF Asked, Bounded
<1>8. Ask(r, peer, k).pm = n /\ Ask(r, peer, k).owed \in [Peers -> SUBSET Blocks]
  <2>1. ASSUME NEW q \in Peers PROVE Ask(r, peer, k).owed[q] \in SUBSET Blocks
    BY <1>1, <1>2 DEF Ask
  <2> QED
    BY <2>1 DEF Ask
<1>9. Asked(m, n)
  BY <1>1, <1>3, <1>5, <1>6, <1>7 DEF Asked, MayAsk
<1> QED
  BY <1>4, <1>8, <1>9 DEF AskedStates, Ask

LEMMA AskOnceKeeps ==
  ASSUME NEW m, NEW R \in SUBSET AskedStates(m), NEW peer \in Peers, MayAsk(peer),
         NEW bf \in SUBSET Pieces
  PROVE  AskOnce(R, peer, bf) \subseteq AskedStates(m)
<1> SUFFICES ASSUME NEW r \in R, HasSlot(r.pm, peer), NEW k \in NextBlockRequest(r.pm, peer, bf)
             PROVE  Ask(r, peer, k) \in AskedStates(m)
  BY DEF AskOnce
<1> QED
  BY AskKeeps

LEMMA RefillAsks ==
  ASSUME NEW m, NEW r \in AskedStates(m), NEW peer \in Peers, linkHas' \in [Peers -> SUBSET Pieces]
  PROVE  Refill(r, peer) \subseteq AskedStates(m)
  BY AskOnceKeeps, RefillStays

LEMMA RefillAllAsks ==
  ASSUME NEW m, NEW r \in AskedStates(m), links \subseteq Peers, linkHas' \in [Peers -> SUBSET Pieces]
  PROVE  RefillAll(r) \subseteq AskedStates(m)
<1>1. IsFiniteSet(links)
  BY FS_Subset, PeersAssumption
<1> QED
  BY <1>1, AskOnceKeeps, RefillAllStays

\* The manager that has the early bitfields of these links.
Replaying(n, known) ==
  /\ Consistent(n) /\ n.known = known
  /\ \A peer \in known : n.has[peer] = UNION raw[peer]
  /\ n.state = pm.state /\ n.inFlight = pm.inFlight

LEMMA ReplayKeeps ==
  ASSUME NEW n, NEW known \in SUBSET Peers, Replaying(n, known),
         NEW peer \in Peers \ known, UNION raw[peer] \in SUBSET Pieces
  PROVE  Replaying(Replay(n, peer), known \cup {peer})
<1> DEFINE x == Replay(n, peer)
           bf == UNION raw[peer]
<1>1. bf \in SUBSET Pieces
  OBVIOUS
<1>2. Consistent(n) /\ n.known = known /\ n \in PMs
  BY DEF Replaying, Consistent, Typed
<1>3. Consistent(x)
  BY <1>1, <1>2, BitfieldConsistent DEF Replay
<1> HIDE DEF bf
<1>4. x = OnPeerBitfield(n, peer, bf)
  BY DEF Replay, bf
<1>5. /\ x.known = known \cup {peer} /\ x.state = n.state /\ x.inFlight = n.inFlight
      /\ x.has = [n.has EXCEPT ![peer] = bf]
  BY <1>2, <1>4 DEF OnPeerBitfield, PMs
<1>6. n.has \in [Peers -> SUBSET Pieces]
  BY <1>2 DEF PMs
<1>7. ASSUME NEW q \in known \cup {peer} PROVE x.has[q] = UNION raw[q]
  <2>1. CASE q = peer
    BY <1>5, <1>6, <2>1 DEF bf
  <2>2. CASE q \in known /\ q # peer
    BY <1>5, <1>6, <2>2 DEF Replaying
  <2> QED
    BY <2>1, <2>2
<1> QED
  BY <1>3, <1>5, <1>7 DEF Replaying

LEMMA ReplayedAll ==
  ASSUME Consistent(pm), pm.known = {}, links \subseteq Peers,
         \A peer \in Replayed : UNION raw[peer] \in SUBSET Pieces,
         NEW order \in SetToSeqs(Replayed)
  PROVE  Replaying(ReplayInOrder(pm, order), Replayed)
<1> DEFINE m == Cardinality(Replayed)
           Names(i) == {order[j] : j \in 1 .. i}
           S == {w \in Nat \X PMs : Replaying(w[2], Names(w[1]))}
<1>1. Replayed \in SUBSET Peers /\ IsFiniteSet(Replayed)
  BY FS_Subset, PeersAssumption DEF Replayed
<1>2. m \in Nat
  BY <1>1, FS_CardinalityType
<1>3. order \in [1 .. m -> Replayed] /\ \A i, j \in 1 .. m : i # j => order[i] # order[j]
  BY DEF SetToSeqs
<1>4. Len(order) = m
  BY <1>2, <1>3
<1>5. Names(m) = Replayed
  <2>1. IsFiniteSet(1 .. m) /\ Cardinality(1 .. m) = m
    BY <1>2, FS_Interval
  <2>2. order \in Injection(1 .. m, Replayed)
    BY <1>3 DEF Injection, IsInjective
  <2>3. order \in Surjection(1 .. m, Replayed)
    BY <1>1, <2>1, <2>2, FS_Injection
  <2> QED
    BY <1>3, <2>3 DEF Surjection
<1> HIDE DEF m
<1>6. <<0, pm>> \in S
  <2>1. Names(0) = {} /\ pm \in PMs
    BY DEF Consistent, Typed
  <2> QED
    BY <2>1 DEF Replaying
<1>7. ASSUME NEW i \in 1 .. m, NEW y, <<i - 1, y>> \in S PROVE <<i, Replay(y, order[i])>> \in S
  <2>1. i \in Nat /\ i - 1 \in Nat /\ y \in PMs /\ Replaying(y, Names(i - 1))
    <3> DEFINE w == <<i - 1, y>>
    <3>1. w \in Nat \X PMs /\ Replaying(w[2], Names(w[1]))
      BY <1>7
    <3>2. w[1] = i - 1 /\ w[2] = y
      OBVIOUS
    <3> HIDE DEF Names
    <3> QED
      BY <1>2, <3>1, <3>2
  <2>2. Names(i - 1) \in SUBSET Peers
    BY <1>1, <1>2, <1>3
  <2>3. order[i] \in Peers \ Names(i - 1) /\ order[i] \in Replayed
    BY <1>1, <1>2, <1>3
  <2>4. Names(i) = Names(i - 1) \cup {order[i]}
    <3>1. 1 .. i = (1 .. i - 1) \cup {i}
      BY <1>2
    <3> QED
      BY <3>1
  <2> HIDE DEF Names
  <2>5. Replaying(Replay(y, order[i]), Names(i))
    BY <2>1, <2>2, <2>3, <2>4, ReplayKeeps
  <2>6. Replay(y, order[i]) \in PMs
    BY <2>5 DEF Replaying, Consistent, Typed
  <2> QED
    BY <2>1, <2>5, <2>6
<1> HIDE DEF S
<1>8. <<m, ReplayInOrder(pm, order)>> \in S
  BY <1>2, <1>4, <1>6, <1>7, ReplayStays
<1> QED
  BY <1>5, <1>8 DEF S

(***************************************************************************)
(* The two queues: pieces to write, and what the hub is told of them.      *)
(***************************************************************************)

EventSet == [kind : {"Disk", "Recheck", "RecheckDone"}, piece : Pieces, ok : BOOLEAN]

Unanswered == Len(writeQ) + Cardinality(Acks)

\* No piece is in the queues twice.
Distinct ==
  /\ \A i, j \in 1 .. Len(writeQ) : i # j => writeQ[i] # writeQ[j]
  /\ \A i, j \in Acks : i # j => events[i].piece # events[j].piece
  /\ \A i \in 1 .. Len(writeQ), j \in Acks : writeQ[i] # events[j].piece

QueuesInv ==
  /\ writeQ \in Seq(Pieces) /\ events \in Seq(EventSet)
  /\ Distinct
  /\ Cardinality(OnTheWay) = Unanswered

LEMMA QueueFacts ==
  ASSUME writeQ \in Seq(Pieces), events \in Seq(EventSet)
  PROVE  /\ Len(writeQ) \in Nat /\ Len(events) \in Nat
         /\ \A i \in 1 .. Len(writeQ) : writeQ[i] \in Pieces
         /\ \A i \in 1 .. Len(events) : events[i] \in EventSet
         /\ Acks \in SUBSET (1 .. Len(events)) /\ IsFiniteSet(Acks) /\ Cardinality(Acks) \in Nat
         /\ OnTheWay = {writeQ[i] : i \in 1 .. Len(writeQ)} \cup {events[i].piece : i \in Acks}
         /\ OnTheWay \in SUBSET Pieces /\ IsFiniteSet(OnTheWay)
<1>1. /\ Len(writeQ) \in Nat /\ Len(events) \in Nat
      /\ \A i \in 1 .. Len(writeQ) : writeQ[i] \in Pieces
      /\ \A i \in 1 .. Len(events) : events[i] \in EventSet
  BY ElementOfSeq, LenProperties
<1>2. Acks \in SUBSET (1 .. Len(events))
  BY DEF Acks
<1>3. IsFiniteSet(1 .. Len(events))
  BY <1>1, FS_Interval
<1>4. IsFiniteSet(Acks) /\ Cardinality(Acks) \in Nat
  BY <1>2, <1>3, FS_Subset, FS_CardinalityType
<1>5. OnTheWay = {writeQ[i] : i \in 1 .. Len(writeQ)} \cup {events[i].piece : i \in Acks}
  BY RangeEquality DEF OnTheWay
<1>6. OnTheWay \in SUBSET Pieces
  BY <1>1, <1>2, <1>5 DEF EventSet
<1>7. IsFiniteSet(OnTheWay)
  BY <1>6, PieceFacts, FS_Subset
<1> QED
  BY <1>1, <1>2, <1>4, <1>5, <1>6, <1>7

LEMMA RangeOfPieces == \A w \in Seq(Pieces) : Range(w) = {w[i] : i \in 1 .. Len(w)}
  BY RangeEquality

\* One element more or less, counted.
LEMMA CountMore ==
  ASSUME NEW F, IsFiniteSet(F), NEW x, x \notin F
  PROVE  Cardinality(F \cup {x}) = Cardinality(F) + 1
  BY FS_AddElement

LEMMA CountLess ==
  ASSUME NEW F, IsFiniteSet(F), NEW x \in F
  PROVE  Cardinality(F \ {x}) = Cardinality(F) - 1
  BY FS_RemoveElement

LEMMA AppendedEvent ==
  ASSUME events \in Seq(EventSet), NEW e \in EventSet, events' = Append(events, e)
  PROVE  /\ events' \in Seq(EventSet) /\ Len(events') = Len(events) + 1
         /\ \A i \in 1 .. Len(events) : events'[i] = events[i]
         /\ events'[Len(events) + 1] = e
         /\ Acks' = IF e.kind = "Disk" THEN Acks \cup {Len(events) + 1} ELSE Acks
<1>1. /\ events' \in Seq(EventSet) /\ Len(events') = Len(events) + 1
      /\ \A i \in 1 .. Len(events) : events'[i] = events[i]
      /\ events'[Len(events) + 1] = e
  BY AppendProperties
<1>2. Len(events) \in Nat
  BY LenProperties
<1>3. Acks' = {i \in 1 .. Len(events) + 1 : events'[i].kind = "Disk"}
  BY <1>1 DEF Acks
<1>4. 1 .. Len(events) + 1 = (1 .. Len(events)) \cup {Len(events) + 1}
  BY <1>2
<1>5. Acks' = IF e.kind = "Disk" THEN Acks \cup {Len(events) + 1} ELSE Acks
  BY <1>1, <1>3, <1>4 DEF Acks
<1> QED
  BY <1>1, <1>5

LEMMA HandledEvent ==
  ASSUME events \in Seq(EventSet), events # <<>>, events' = Tail(events)
  PROVE  /\ events' \in Seq(EventSet) /\ Len(events) \in Nat \ {0}
         /\ Len(events') = Len(events) - 1
         /\ \A i \in 1 .. Len(events) - 1 : events'[i] = events[i + 1]
         /\ Head(events) = events[1] /\ events[1] \in EventSet
         /\ \A i \in Acks' : i + 1 \in Acks
         /\ \A i \in Acks \ {1} : i - 1 \in Acks'
<1>1. /\ events' \in Seq(EventSet) /\ Len(events') = Len(events) - 1
      /\ \A i \in 1 .. Len(events) - 1 : events'[i] = events[i + 1]
  BY HeadTailProperties
<1>2. Len(events) \in Nat \ {0}
  BY EmptySeq
<1>3. Head(events) = events[1] /\ events[1] \in EventSet
  BY <1>2, ElementOfSeq
<1>4. Acks' = {i \in 1 .. Len(events) - 1 : events[i + 1].kind = "Disk"}
  BY <1>1 DEF Acks
<1>5. /\ \A i \in Acks' : i + 1 \in Acks
      /\ \A i \in Acks \ {1} : i - 1 \in Acks'
  BY <1>2, <1>4 DEF Acks
<1> QED
  BY <1>1, <1>2, <1>3, <1>5

\* A verified piece is queued for the writer.
LEMMA QueueSend ==
  ASSUME QueuesInv, NEW p \in Pieces \ OnTheWay, writeQ' = Append(writeQ, p), events' = events
  PROVE  QueuesInv' /\ OnTheWay' = OnTheWay \cup {p} /\ Unanswered' = Unanswered + 1
<1> DEFINE n == Len(writeQ)
<1>1. writeQ \in Seq(Pieces) /\ events \in Seq(EventSet)
  BY DEF QueuesInv
<1>2. /\ writeQ' \in Seq(Pieces) /\ Len(writeQ') = n + 1 /\ writeQ'[n + 1] = p
      /\ \A i \in 1 .. n : writeQ'[i] = writeQ[i]
  BY <1>1, AppendProperties
<1>3. n \in Nat /\ 1 .. n + 1 = (1 .. n) \cup {n + 1}
  BY <1>1, LenProperties
<1>4. Acks' = Acks /\ events' \in Seq(EventSet)
  BY <1>1 DEF Acks
<1>5. OnTheWay = {writeQ[i] : i \in 1 .. n} \cup {events[i].piece : i \in Acks}
  BY <1>1, QueueFacts
<1>6. OnTheWay' = {writeQ'[i] : i \in 1 .. n + 1} \cup {events[i].piece : i \in Acks}
  <2>1. Range(writeQ') = {writeQ'[i] : i \in 1 .. n + 1}
    BY <1>2, RangeOfPieces
  <2> QED
    BY <1>4, <2>1 DEF OnTheWay
<1>7. {writeQ'[i] : i \in 1 .. n + 1} = {writeQ[i] : i \in 1 .. n} \cup {p}
  BY <1>2, <1>3
<1>8. OnTheWay' = OnTheWay \cup {p}
  BY <1>5, <1>6, <1>7
<1>9. /\ \A i \in 1 .. n : writeQ[i] # p
      /\ \A i \in Acks : events[i].piece # p
  BY <1>5
<1>10. Distinct'
  <2>1. Distinct
    BY DEF QueuesInv
  <2>2. \A i, j \in 1 .. n + 1 : i # j => writeQ'[i] # writeQ'[j]
    BY <1>2, <1>3, <1>9, <2>1 DEF Distinct
  <2>3. \A i \in 1 .. n + 1, j \in Acks : writeQ'[i] # events[j].piece
    BY <1>2, <1>3, <1>9, <2>1 DEF Distinct
  <2> QED
    BY <1>2, <1>4, <2>1, <2>2, <2>3 DEF Distinct
<1>11. Cardinality(OnTheWay \cup {p}) = Cardinality(OnTheWay) + 1
  BY <1>1, QueueFacts, CountMore
<1>12. Cardinality(Acks) \in Nat
  BY <1>1, QueueFacts
<1>13. Unanswered' = Unanswered + 1
  BY <1>2, <1>3, <1>4, <1>12 DEF Unanswered
<1> QED
  BY <1>2, <1>4, <1>8, <1>10, <1>11, <1>13 DEF QueuesInv

\* The writer takes the first piece and answers at the end of the channel.
LEMMA QueueWrite ==
  ASSUME QueuesInv, writeQ # <<>>, NEW e \in EventSet, e.kind = "Disk", e.piece = Head(writeQ),
         writeQ' = Tail(writeQ), events' = Append(events, e)
  PROVE  QueuesInv' /\ OnTheWay' = OnTheWay /\ Unanswered' = Unanswered
<1> DEFINE n == Len(writeQ)
           l == Len(events)
<1>1. writeQ \in Seq(Pieces) /\ events \in Seq(EventSet) /\ Distinct
  BY DEF QueuesInv
<1>2. /\ writeQ' \in Seq(Pieces) /\ Len(writeQ') = n - 1
      /\ \A i \in 1 .. n - 1 : writeQ'[i] = writeQ[i + 1]
  BY <1>1, HeadTailProperties
<1>3. n \in Nat \ {0} /\ l \in Nat /\ Head(writeQ) = writeQ[1]
  BY <1>1, EmptySeq, LenProperties
<1>4. /\ events' \in Seq(EventSet) /\ \A i \in Acks : events'[i] = events[i]
      /\ events'[l + 1].piece = writeQ[1]
      /\ Acks' = Acks \cup {l + 1}
  BY <1>1, <1>3, AppendedEvent DEF Acks
<1>5. /\ Acks \subseteq 1 .. l /\ IsFiniteSet(Acks) /\ Cardinality(Acks) \in Nat
      /\ OnTheWay = {writeQ[i] : i \in 1 .. n} \cup {events[i].piece : i \in Acks}
  BY <1>1, QueueFacts
<1>6. OnTheWay' = {writeQ'[i] : i \in 1 .. n - 1} \cup {events'[i].piece : i \in Acks'}
  <2>1. Range(writeQ') = {writeQ'[i] : i \in 1 .. n - 1}
    BY <1>2, RangeOfPieces
  <2> QED
    BY <2>1 DEF OnTheWay
<1>7. {events'[i].piece : i \in Acks'} = {events[i].piece : i \in Acks} \cup {writeQ[1]}
  <2>1. ASSUME NEW i \in Acks'
        PROVE  events'[i].piece \in {events[j].piece : j \in Acks} \cup {writeQ[1]}
    <3>1. CASE i \in Acks
      BY <1>4, <3>1
    <3>2. CASE i = l + 1
      BY <1>4, <3>2
    <3> QED
      BY <1>4, <3>1, <3>2
  <2>2. ASSUME NEW i \in Acks  PROVE events[i].piece \in {events'[j].piece : j \in Acks'}
    <3>1. i \in Acks' /\ events'[i] = events[i]
      BY <1>4
    <3> QED
      BY <3>1
  <2>3. writeQ[1] \in {events'[j].piece : j \in Acks'}
    <3>1. l + 1 \in Acks'
      BY <1>4
    <3> QED
      BY <1>4, <3>1
  <2> QED
    BY <2>1, <2>2, <2>3
<1>8. {writeQ[i] : i \in 1 .. n} = {writeQ'[i] : i \in 1 .. n - 1} \cup {writeQ[1]}
  <2>1. ASSUME NEW i \in 1 .. n  PROVE writeQ[i] \in {writeQ'[j] : j \in 1 .. n - 1} \cup {writeQ[1]}
    <3>1. CASE i = 1
      BY <3>1
    <3>2. CASE i # 1
      <4>1. i - 1 \in 1 .. n - 1 /\ (i - 1) + 1 = i
        BY <1>3, <3>2
      <4>2. writeQ'[i - 1] = writeQ[i]
        BY <1>2, <4>1
      <4> QED
        BY <4>1, <4>2
    <3> QED
      BY <3>1, <3>2
  <2>2. \A i \in 1 .. n - 1 : i + 1 \in 1 .. n
    BY <1>3
  <2>3. 1 \in 1 .. n
    BY <1>3
  <2> QED
    BY <1>2, <2>1, <2>2, <2>3
<1>9. OnTheWay' = OnTheWay
  BY <1>5, <1>6, <1>7, <1>8
<1>10. Distinct'
  <2>1. \A i \in 1 .. n - 1 : i + 1 \in 1 .. n /\ i + 1 # 1 /\ writeQ'[i] = writeQ[i + 1]
    BY <1>2, <1>3
  <2>2. \A i, j \in 1 .. n - 1 : i # j => i + 1 # j + 1
    OBVIOUS
  <2>3. \A i, j \in 1 .. n - 1 : i # j => writeQ'[i] # writeQ'[j]
    BY <1>1, <2>1, <2>2 DEF Distinct
  <2>4. \A i \in 1 .. n - 1 : writeQ'[i] # writeQ[1]
    BY <1>1, <1>3, <2>1 DEF Distinct
  <2>5. \A i \in 1 .. n - 1, j \in Acks : writeQ'[i] # events[j].piece
    BY <1>1, <2>1 DEF Distinct
  <2>6. \A j \in Acks : writeQ[1] # events[j].piece
    BY <1>1, <1>3 DEF Distinct
  <2>7. \A i, j \in Acks' : i # j => events'[i].piece # events'[j].piece
    <3>1. SUFFICES ASSUME NEW i \in Acks', NEW j \in Acks', i # j
                   PROVE  events'[i].piece # events'[j].piece
      OBVIOUS
    <3>2. \A a, b \in Acks : a # b => events[a].piece # events[b].piece
      BY <1>1 DEF Distinct
    <3>3. CASE i \in Acks /\ j \in Acks
      <4>1. events'[i] = events[i] /\ events'[j] = events[j]
        BY <1>4, <3>3
      <4> QED
        BY <3>1, <3>2, <3>3, <4>1
    <3>4. CASE i = l + 1 /\ j \in Acks
      <4>1. events'[i].piece = writeQ[1] /\ events'[j] = events[j]
        BY <1>4, <3>4
      <4> QED
        BY <2>6, <3>4, <4>1
    <3>5. CASE i \in Acks /\ j = l + 1
      <4>1. events'[j].piece = writeQ[1] /\ events'[i] = events[i]
        BY <1>4, <3>5
      <4> QED
        BY <2>6, <3>5, <4>1
    <3> QED
      BY <1>4, <3>1, <3>3, <3>4, <3>5
  <2>8. \A i \in 1 .. n - 1, j \in Acks' : writeQ'[i] # events'[j].piece
    BY <1>4, <2>4, <2>5
  <2> QED
    <3>1. \A i, j \in 1 .. Len(writeQ') : i # j => writeQ'[i] # writeQ'[j]
      BY <1>2, <2>3
    <3>2. \A i \in 1 .. Len(writeQ'), j \in Acks' : writeQ'[i] # events'[j].piece
      BY <1>2, <2>8
    <3> QED
      BY <2>7, <3>1, <3>2 DEF Distinct
<1>11. Cardinality(Acks \cup {l + 1}) = Cardinality(Acks) + 1
  <2>1. l + 1 \notin Acks
    BY <1>3, <1>5
  <2> QED
    BY <1>5, <2>1, CountMore
<1>12. Unanswered' = Unanswered
  BY <1>2, <1>3, <1>4, <1>5, <1>11 DEF Unanswered
<1> QED
  BY <1>2, <1>4, <1>9, <1>10, <1>12 DEF QueuesInv

\* A verdict of the recheck is no answer.
LEMMA QueueVerdict ==
  ASSUME QueuesInv, NEW e \in EventSet, e.kind # "Disk", writeQ' = writeQ, events' = Append(events, e)
  PROVE  QueuesInv' /\ OnTheWay' = OnTheWay /\ Unanswered' = Unanswered
<1>1. writeQ \in Seq(Pieces) /\ events \in Seq(EventSet) /\ Distinct
  BY DEF QueuesInv
<1>2. events' \in Seq(EventSet) /\ Acks' = Acks /\ \A i \in Acks : events'[i] = events[i]
  BY <1>1, AppendedEvent DEF Acks
<1>3. {events'[i].piece : i \in Acks'} = {events[i].piece : i \in Acks}
  BY <1>2
<1>4. OnTheWay' = OnTheWay
  BY <1>3 DEF OnTheWay
<1>5. Distinct'
  <2>1. \A i, j \in Acks : i # j => events[i].piece # events[j].piece
    BY <1>1 DEF Distinct
  <2>2. \A i, j \in Acks' : i # j => events'[i].piece # events'[j].piece
    <3>1. SUFFICES ASSUME NEW i \in Acks', NEW j \in Acks', i # j
                   PROVE  events'[i].piece # events'[j].piece
      OBVIOUS
    <3>2. i \in Acks /\ j \in Acks /\ events'[i] = events[i] /\ events'[j] = events[j]
      BY <1>2
    <3> QED
      BY <2>1, <3>1, <3>2
  <2>3. \A i \in 1 .. Len(writeQ), j \in Acks : writeQ[i] # events[j].piece
    BY <1>1 DEF Distinct
  <2>4. \A i \in 1 .. Len(writeQ), j \in Acks' : writeQ[i] # events'[j].piece
    BY <1>2, <2>3
  <2> QED
    BY <1>1, <2>2, <2>4 DEF Distinct
<1>6. Unanswered' = Unanswered
  BY <1>2 DEF Unanswered
<1> QED
  BY <1>1, <1>2, <1>4, <1>5, <1>6 DEF QueuesInv

\* The hub takes the first event: an answer leaves its piece for good.
LEMMA QueueHandle ==
  ASSUME QueuesInv, events # <<>>, events' = Tail(events), writeQ' = writeQ
  PROVE  /\ QueuesInv' /\ Head(events) \in EventSet
         /\ IF Head(events).kind = "Disk"
            THEN /\ Head(events).piece \in OnTheWay
                 /\ OnTheWay' = OnTheWay \ {Head(events).piece}
                 /\ Unanswered' = Unanswered - 1 /\ Unanswered \in Nat \ {0}
            ELSE OnTheWay' = OnTheWay /\ Unanswered' = Unanswered
<1> DEFINE n == Len(writeQ)
           l == Len(events)
           Old == Acks \ {1}
<1>1. writeQ \in Seq(Pieces) /\ events \in Seq(EventSet) /\ Distinct
  BY DEF QueuesInv
<1>2. /\ events' \in Seq(EventSet) /\ l \in Nat \ {0} /\ Len(events') = l - 1
      /\ \A i \in 1 .. l - 1 : events'[i] = events[i + 1]
      /\ Head(events) = events[1] /\ events[1] \in EventSet
      /\ \A i \in Acks' : i + 1 \in Acks
      /\ \A i \in Old : i - 1 \in Acks'
  BY <1>1, HandledEvent
<1>3. /\ n \in Nat /\ Acks \subseteq 1 .. l /\ IsFiniteSet(Acks) /\ Cardinality(Acks) \in Nat
      /\ OnTheWay = {writeQ[i] : i \in 1 .. n} \cup {events[i].piece : i \in Acks}
  BY <1>1, QueueFacts
<1>4. Acks' \subseteq 1 .. l - 1
  BY <1>2 DEF Acks
<1>5. OnTheWay' = {writeQ[i] : i \in 1 .. n} \cup {events'[i].piece : i \in Acks'}
  BY <1>1, RangeEquality DEF OnTheWay
<1>6. \A i \in Acks' : i + 1 \in Old /\ events'[i] = events[i + 1]
  BY <1>2, <1>4
<1>7. \A i \in Old : i - 1 \in Acks' /\ events'[i - 1] = events[i]
  <2>1. \A i \in Old : i - 1 \in 1 .. l - 1 /\ (i - 1) + 1 = i
    BY <1>2, <1>3
  <2> QED
    BY <1>2, <2>1
<1>8. {events'[i].piece : i \in Acks'} = {events[i].piece : i \in Old}
  <2>1. ASSUME NEW i \in Acks'  PROVE events'[i].piece \in {events[j].piece : j \in Old}
    BY <1>6
  <2>2. ASSUME NEW j \in Old  PROVE events[j].piece \in {events'[i].piece : i \in Acks'}
    BY <1>7
  <2> QED
    BY <2>1, <2>2
<1>9. Cardinality(Acks') = Cardinality(Old)
  <2> DEFINE shift == [i \in Acks' |-> i + 1]
  <2>1. IsFiniteSet(Acks') /\ IsFiniteSet(Old)
    <3>1. IsFiniteSet(1 .. l - 1)
      BY <1>2, FS_Interval
    <3> QED
      BY <1>3, <1>4, <3>1, FS_Subset
  <2>2. shift \in Injection(Acks', Old)
    <3>1. \A i \in Acks' : i \in Int
      BY <1>4
    <3>2. shift \in [Acks' -> Old] /\ \A i, j \in Acks' : shift[i] = shift[j] => i = j
      BY <1>6, <3>1
    <3> HIDE DEF shift
    <3> QED
      BY <3>2 DEF Injection, IsInjective
  <2>3. \A j \in Old : \E i \in Acks' : shift[i] = j
    <3> TAKE j \in Old
    <3>1. j \in Nat
      BY <1>3
    <3>2. (j - 1) + 1 = j /\ j - 1 \in Acks'
      BY <1>7, <3>1
    <3> QED
      BY <3>2
  <2>4. shift \in Bijection(Acks', Old)
    BY <2>2, <2>3 DEF Bijection, Injection, Surjection
  <2> QED
    BY <2>1, <2>4, FS_Bijection, FS_CardinalityType DEF ExistsBijection
<1>10. Distinct'
  <2>1. \A i, j \in Acks' : i # j => i + 1 # j + 1
    BY <1>4
  <2>2. \A i, j \in Acks' : i # j => events'[i].piece # events'[j].piece
    <3>1. SUFFICES ASSUME NEW i \in Acks', NEW j \in Acks', i # j
                   PROVE  events'[i].piece # events'[j].piece
      OBVIOUS
    <3>2. \A a, b \in Acks : a # b => events[a].piece # events[b].piece
      BY <1>1 DEF Distinct
    <3>3. events[i + 1].piece # events[j + 1].piece
      BY <1>6, <2>1, <3>1, <3>2
    <3> QED
      BY <1>6, <3>3
  <2>3. \A i \in 1 .. n, j \in Acks' : writeQ[i] # events'[j].piece
    BY <1>1, <1>6 DEF Distinct
  <2> QED
    BY <1>1, <2>2, <2>3 DEF Distinct
<1>11. CASE events[1].kind = "Disk"
  <2>1. 1 \in Acks
    BY <1>2, <1>11 DEF Acks
  <2>2. Cardinality(Old) = Cardinality(Acks) - 1 /\ Cardinality(Acks) # 0
    BY <1>3, <2>1, CountLess, FS_EmptySet
  <2>3. /\ \A i \in Old : events[i].piece # events[1].piece
        /\ \A i \in 1 .. n : writeQ[i] # events[1].piece
    BY <1>1, <2>1 DEF Distinct
  <2>4. /\ events[1].piece \in OnTheWay
        /\ OnTheWay' = OnTheWay \ {events[1].piece}
    BY <1>3, <1>5, <1>8, <2>1, <2>3
  <2>5. Unanswered' = Unanswered - 1 /\ Unanswered \in Nat \ {0}
    BY <1>3, <1>9, <2>2 DEF Unanswered
  <2>6. Cardinality(OnTheWay') = Unanswered'
    <3>1. Cardinality(OnTheWay \ {events[1].piece}) = Cardinality(OnTheWay) - 1
      BY <1>1, <2>4, QueueFacts, CountLess
    <3> QED
      BY <2>4, <2>5, <3>1 DEF QueuesInv
  <2> QED
    BY <1>1, <1>2, <1>10, <1>11, <2>4, <2>5, <2>6 DEF QueuesInv
<1>12. CASE events[1].kind # "Disk"
  <2>1. Old = Acks
    BY <1>12 DEF Acks
  <2>2. OnTheWay' = OnTheWay /\ Unanswered' = Unanswered
    BY <1>3, <1>5, <1>8, <1>9, <2>1 DEF Unanswered
  <2> QED
    BY <1>1, <1>2, <1>10, <1>12, <2>2 DEF QueuesInv
<1> QED
  BY <1>2, <1>11, <1>12

(***************************************************************************)
(* What the manager's operations leave of verified pieces and requests.    *)
(***************************************************************************)

\* The counter tells whether all pieces are verified.
LEMMA CompleteIsAll ==
  ASSUME NEW m, Consistent(m)
  PROVE  IsComplete(m) <=> DonePieces(m) = Pieces
<1>1. IsFiniteSet(Pieces) /\ Cardinality(Pieces) = NumPieces
  BY FS_Interval, PiecesAssumption DEF Pieces
<1>2. DonePieces(m) \in SUBSET Pieces
  BY DEF DonePieces
<1>3. Cardinality(DonePieces(m)) = Cardinality(Pieces) => DonePieces(m) = Pieces
  BY <1>1, <1>2, FS_Subset
<1> QED
  BY <1>1, <1>3 DEF Consistent, Counted, IsComplete

\* Fewer requests are within the pipeline when more were.
LEMMA BoundedLess ==
  ASSUME NEW f \in [Peers -> SUBSET Blocks], NEW asked, Bounded(f, asked),
         NEW g \in [Peers -> SUBSET Blocks], \A q \in Peers : g[q] \subseteq f[q],
         NEW later, \A q \in Peers : q \in asked /\ g[q] # {} => q \in later
  PROVE  Bounded(g, later)
<1> SUFFICES ASSUME NEW q \in Peers
             PROVE  Cardinality(g[q]) <= Pipeline /\ (g[q] # {} => q \in later)
  BY DEF Bounded
<1>1. f[q] \in SUBSET Blocks /\ IsFiniteSet(f[q]) /\ g[q] \subseteq f[q]
  BY BlocksFinite, FS_Subset
<1>2. /\ Cardinality(f[q]) \in Nat /\ Cardinality(g[q]) \in Nat
      /\ Cardinality(g[q]) <= Cardinality(f[q])
  <2>1. IsFiniteSet(g[q])
    BY <1>1, FS_Subset
  <2> QED
    BY <1>1, <2>1, FS_Subset, FS_CardinalityType
<1>3. Cardinality(f[q]) <= Pipeline /\ Pipeline \in Nat
  BY SessionAssumption DEF Bounded
<1>4. Cardinality(g[q]) <= Pipeline
  <2> DEFINE c == Cardinality(f[q])
             d == Cardinality(g[q])
  <2>1. c \in Nat /\ d \in Nat /\ d <= c /\ c <= Pipeline
    BY <1>2, <1>3
  <2> HIDE DEF c, d
  <2>2. d <= Pipeline
    BY <1>3, <2>1
  <2> QED
    BY <2>2 DEF d
<1>5. g[q] # {} => q \in later
  BY <1>1 DEF Bounded
<1> QED
  BY <1>4, <1>5

LEMMA InFlightTyped ==
  ASSUME NEW m, Consistent(m)
  PROVE  m \in PMs /\ m.inFlight \in [Peers -> SUBSET Blocks] /\ m.has \in [Peers -> SUBSET Pieces]
         /\ m.known \in SUBSET Peers
  BY DEF Consistent, Typed, PMs

LEMMA BitfieldLeaves ==
  ASSUME NEW m, Consistent(m), NEW peer \in Peers, NEW bf \in SUBSET Pieces
  PROVE  LET n == OnPeerBitfield(m, peer, bf)
         IN  /\ DonePieces(n) = DonePieces(m) /\ n.inFlight = m.inFlight
             /\ n.known = m.known \cup {peer} /\ n.has = [m.has EXCEPT ![peer] = bf]
  BY InFlightTyped DEF OnPeerBitfield, DonePieces, PMs

LEMMA HaveLeaves ==
  ASSUME NEW m, Consistent(m), NEW peer \in Peers, NEW p \in Pieces
  PROVE  LET n == OnPeerHave(m, peer, p)
         IN  /\ DonePieces(n) = DonePieces(m) /\ n.inFlight = m.inFlight
             /\ n.known = m.known
             /\ \A q \in Peers : n.has[q] = IF q = peer /\ q \in m.known THEN m.has[q] \cup {p}
                                            ELSE m.has[q]
<1>1. CASE peer \notin m.known \/ p \in m.has[peer]
  <2>1. OnPeerHave(m, peer, p) = m
    BY <1>1 DEF OnPeerHave
  <2>2. \A q \in Peers : m.has[q] = IF q = peer /\ q \in m.known THEN m.has[q] \cup {p} ELSE m.has[q]
    BY <1>1, InFlightTyped
  <2> QED
    BY <2>1, <2>2
<1>2. CASE peer \in m.known /\ p \notin m.has[peer]
  <2> DEFINE n == [m EXCEPT !.has[peer] = @ \cup {p}, !.rarity[p] = @ + 1]
  <2>1. OnPeerHave(m, peer, p) = n
    BY <1>2 DEF OnPeerHave
  <2>2. /\ n.state = m.state /\ n.inFlight = m.inFlight /\ n.known = m.known
        /\ n.has = [m.has EXCEPT ![peer] = @ \cup {p}]
    BY InFlightTyped DEF PMs
  <2> HIDE DEF n
  <2>3. \A q \in Peers : n.has[q] = IF q = peer /\ q \in m.known THEN m.has[q] \cup {p} ELSE m.has[q]
    BY <1>2, <2>2, InFlightTyped
  <2> QED
    BY <2>1, <2>2, <2>3 DEF DonePieces
<1> QED
  BY <1>1, <1>2

LEMMA ReleaseLeaves ==
  ASSUME NEW m, Consistent(m), NEW peer \in Peers
  PROVE  LET n == ReleaseInFlight(m, peer)
         IN  /\ DonePieces(n) = DonePieces(m) /\ n.inFlight = [m.inFlight EXCEPT ![peer] = {}]
             /\ n.known = m.known /\ n.has = m.has
  BY InFlightTyped DEF ReleaseInFlight, DonePieces, PMs

LEMMA DisconnectedLeaves ==
  ASSUME NEW m, Consistent(m), NEW peer \in Peers
  PROVE  LET n == OnPeerDisconnected(m, peer)
         IN  /\ DonePieces(n) = DonePieces(m) /\ n.inFlight = [m.inFlight EXCEPT ![peer] = {}]
             /\ n.known = m.known \ {peer} /\ \A q \in Peers \ {peer} : n.has[q] = m.has[q]
<1>1. CASE peer \notin m.known
  BY <1>1, InFlightTyped DEF OnPeerDisconnected, ReleaseInFlight, DonePieces, PMs
<1>2. CASE peer \in m.known
  BY <1>2, InFlightTyped DEF OnPeerDisconnected, ReleaseInFlight, DonePieces, PMs
<1> QED
  BY <1>1, <1>2

LEMMA VerifiedLeaves ==
  ASSUME NEW m, Consistent(m), NEW p \in Pieces
  PROVE  LET n == MarkVerified(m, p)
         IN  /\ DonePieces(n) = DonePieces(m) \cup {p} /\ n.inFlight = m.inFlight
             /\ n.known = m.known /\ n.has = m.has
<1>1. CASE m.state[p] = "Done"
  BY <1>1 DEF MarkVerified, DonePieces
<1>2. CASE m.state[p] # "Done"
  BY <1>2, InFlightTyped DEF MarkVerified, Finish, DonePieces, PMs
<1> QED
  BY <1>1, <1>2

\* Only the block that completes a piece adds to the verified ones, and that
\* piece was not verified before.
LEMMA BlockLeaves ==
  ASSUME NEW m, Consistent(m), NEW peer \in Peers, NEW k \in Blocks, NEW kind
  PROVE  LET res == OnBlockReceived(m, peer, k, kind)
         IN  /\ res.pm.known = m.known /\ res.pm.has = m.has
             /\ IF res.event = "PieceCompleted"
                THEN k[1] \notin DonePieces(m) /\ DonePieces(res.pm) = DonePieces(m) \cup {k[1]}
                ELSE DonePieces(res.pm) = DonePieces(m)
<1> DEFINE u == IF kind = "skewed" THEN m ELSE Unassign(m, peer, k)
           s == Store(u, k, kind)
           p == k[1]
           res == OnBlockReceived(m, peer, k, kind)
           Same(n) == n.known = m.known /\ n.has = m.has
<1>1. p \in Pieces
  BY PieceFacts
<1>2. u \in PMs /\ Same(u) /\ u.state = m.state
  <2>1. m \in PMs
    BY InFlightTyped
  <2>2. Unassign(m, peer, k) \in PMs /\ Same(Unassign(m, peer, k))
    BY <2>1, UnassignConsistent DEF Consistent, Typed, Unassign, PMs
  <2> QED
    BY <2>1, <2>2, UnassignConsistent
<1> HIDE DEF u
<1>3. Same(s) /\ s.state = u.state
  BY <1>2 DEF Store, PMs
<1>4. Same(Finish(s, p)) /\ DonePieces(Finish(s, p)) = DonePieces(m) \cup {p}
  <2>1. Same(Finish(s, p)) /\ Finish(s, p).state = [m.state EXCEPT ![p] = "Done"]
    BY <1>2, <1>3 DEF Finish, Store, PMs
  <2>2. m.state \in [Pieces -> PieceStates]
    BY InFlightTyped DEF PMs
  <2> QED
    BY <1>1, <2>1, <2>2 DEF DonePieces
<1>5. u.state[p] = "Progress" => Same(Reset(s, p)) /\ DonePieces(Reset(s, p)) = DonePieces(m)
  <2>1. Same(Reset(s, p)) /\ Reset(s, p).state = [m.state EXCEPT ![p] = "Progress"]
    BY <1>2, <1>3 DEF Reset, Store, PMs
  <2>2. m.state \in [Pieces -> PieceStates]
    BY InFlightTyped DEF PMs
  <2> QED
    BY <1>1, <1>2, <2>1, <2>2 DEF DonePieces
<1>6. DonePieces(u) = DonePieces(m) /\ DonePieces(s) = DonePieces(m)
  BY <1>2, <1>3 DEF DonePieces
<1>7. \/ res.event # "PieceCompleted" /\ res.pm \in {u, s}
      \/ res.event # "PieceCompleted" /\ u.state[p] = "Progress" /\ res.pm = Reset(s, p)
      \/ res.event = "PieceCompleted" /\ u.state[p] = "Progress" /\ res.pm = Finish(s, p)
  BY DEF OnBlockReceived, Result, Accepts, u
<1>8. u.state[p] = "Progress" => p \notin DonePieces(m)
  BY <1>2 DEF DonePieces
<1> HIDE DEF s, res
<1>9. /\ res.pm.known = m.known /\ res.pm.has = m.has
      /\ IF res.event = "PieceCompleted"
         THEN p \notin DonePieces(m) /\ DonePieces(res.pm) = DonePieces(m) \cup {p}
         ELSE DonePieces(res.pm) = DonePieces(m)
  BY <1>2, <1>3, <1>4, <1>5, <1>6, <1>7, <1>8
<1> QED
  BY <1>9 DEF res

(***************************************************************************)
(* The state a handler leaves when it ends with a refill of the manager m. *)
(***************************************************************************)

LEMMA RefillLeaves ==
  ASSUME NEW m, Consistent(m), Bounded(m.inFlight, Askable'),
         NEW w \in [Peers -> SUBSET Blocks], NEW peer \in Peers,
         linkHas' \in [Peers -> SUBSET Pieces], Becomes(Refill([pm |-> m, owed |-> w], peer))
  PROVE  pm' \in PMs /\ owed' \in [Peers -> SUBSET Blocks] /\ Asked(m, pm')
<1> DEFINE r == [pm |-> m, owed |-> w]
<1>1. r \in AskedStates(m)
  BY InFlightTyped DEF AskedStates, Asked
<1> HIDE DEF r
<1>2. Refill(r, peer) \subseteq AskedStates(m)
  BY <1>1, RefillAsks
<1>3. PICK x \in Refill(r, peer) : pm' = x.pm /\ owed' = x.owed
  BY DEF Becomes, r
<1> QED
  BY <1>2, <1>3 DEF AskedStates

LEMMA RefillAllLeaves ==
  ASSUME Consistent(pm), Bounded(pm.inFlight, Askable'),
         owed \in [Peers -> SUBSET Blocks], links \subseteq Peers,
         linkHas' \in [Peers -> SUBSET Pieces], Becomes(RefillAll([pm |-> pm, owed |-> owed]))
  PROVE  pm' \in PMs /\ owed' \in [Peers -> SUBSET Blocks] /\ Asked(pm, pm')
<1> DEFINE r == [pm |-> pm, owed |-> owed]
<1>1. r \in AskedStates(pm)
  BY InFlightTyped DEF AskedStates, Asked
<1> HIDE DEF r
<1>2. RefillAll(r) \subseteq AskedStates(pm)
  BY <1>1, RefillAllAsks
<1>3. PICK x \in RefillAll(r) : pm' = x.pm /\ owed' = x.owed
  BY DEF Becomes, r
<1> QED
  BY <1>2, <1>3 DEF AskedStates

(***************************************************************************)
(* The invariant.                                                          *)
(***************************************************************************)

\* TypeOK, in what the peers and what the tasks change.
PeersTyped ==
  /\ pm \in PMs
  /\ links \subseteq Peers /\ unchoked \subseteq Peers
  /\ linkHas \in [Peers -> SUBSET Pieces]
  /\ blind \subseteq links /\ raw \in [Peers -> SUBSET Wire]
  /\ collector \in [Peers -> [total : 0 .. MaxDeclared, next : 0 .. MaxDeclared, clean : BOOLEAN]]
  /\ owed \in [Peers -> SUBSET Blocks]

\* A peer has at most two connections, the second one because we dialled it, and a
\* link has one.
TasksInv ==
  /\ tasks \in [Peers -> 0 .. 2] /\ fresh \in [Peers -> 0 .. 2] /\ dialled \subseteq Named
  /\ \A peer \in Peers :
       /\ fresh[peer] <= tasks[peer]
       /\ peer \in links => tasks[peer] > 0
       /\ tasks[peer] > 0 => peer \in links \cup dialled
       /\ tasks[peer] > 1 => peer \in links \cap dialled

HubTyped ==
  /\ phase \in Phases /\ paused \in BOOLEAN /\ seed \in BOOLEAN
  /\ onDisk \subseteq Pieces /\ verifiedBytes \in Nat /\ pendingWrites \in Nat
  /\ writeQ \in Seq(Pieces) /\ events \in Seq(EventSet)
  /\ disk \subseteq Pieces
  /\ read \in [Pieces -> {"unread", "ok", "no"}]
  /\ sent \in 0 .. NumPieces + 1
  /\ ended \in Endings

\* The manager agrees with the links; a link without pieces is unknown to it.
ManagerInv ==
  /\ Consistent(pm) /\ Bounded(pm.inFlight, Askable)
  /\ BitfieldsAgree /\ blind \cap pm.known = {}

\* Before there is a torrent no task runs and the manager knows nobody; a link
\* keeps one bitfield, and a collector still misses a piece.
MagnetInv ==
  /\ phase = "Metadata" => pm.known = {} /\ sent = 0 /\ events = <<>> /\ writeQ = <<>>
  /\ \A peer \in Peers : raw[peer] = {} \/ \E bf \in Wire : raw[peer] = {bf}
  /\ \A peer \in Peers :
       collector[peer] = NoCollector \/ collector[peer].next < collector[peer].total

\* RecheckDone is the last event of the recheck.
DoneIsLast ==
  /\ sent <= NumPieces => \A i \in 1 .. Len(events) : events[i].kind # "RecheckDone"
  /\ \A i, j \in 1 .. Len(events) :
       i < j /\ events[i].kind = "RecheckDone" => events[j].kind = "Disk"

OnlyDisk == \A i \in 1 .. Len(events) : events[i].kind = "Disk"

EventsTrue ==
  \A i \in 1 .. Len(events) :
    events[i].kind \in {"Disk", "Recheck"} /\ events[i].ok => events[i].piece \in disk

\* The download begins when RecheckDone was handled; what seeds is complete.
PhaseInv ==
  /\ DoneIsLast
  /\ phase = "Download" => sent = NumPieces + 1 /\ OnlyDisk
  /\ phase = "Seed" => IsComplete(pm)
  /\ NeverStuckComplete

\* Whatever claims a piece found its right bytes in the files.
DiskInv ==
  /\ OnDiskTruth
  /\ \A p \in Pieces : read[p] = "ok" => p \in disk
  /\ EventsTrue

WritesInv ==
  /\ QueuesInv
  /\ VerifiedIsAccounted
  /\ Running => pendingWrites = Unanswered

PeersSide == PeersTyped /\ TasksInv /\ ManagerInv /\ MagnetInv
HubSide == HubTyped /\ PhaseInv /\ DiskInv /\ WritesInv

SessionInv == PeersSide /\ HubSide

LEMMA InitInv == Init => SessionInv
<1> SUFFICES ASSUME Init PROVE SessionInv
  OBVIOUS
<1>1. Consistent(NewPM) /\ pm = NewPM /\ NewPM \in PMs
  BY NewPMConsistent DEF Init, Consistent, Typed
<1>2. NewPM.inFlight = [peer \in Peers |-> {}] /\ NewPM.known = {} /\ DonePieces(NewPM) = {}
  BY DEF NewPM, DonePieces
<1>3. PeersTyped
  <2>1. NoCollector \in [total : 0 .. MaxDeclared, next : 0 .. MaxDeclared, clean : BOOLEAN]
    BY SessionAssumption DEF NoCollector
  <2> QED
    BY <1>1, <2>1 DEF Init, PeersTyped
<1>10. TasksInv
  BY DEF Init, TasksInv
<1>4. ManagerInv
  <2>1. Bounded(NewPM.inFlight, Askable)
    BY <1>2, FS_EmptySet, SessionAssumption DEF Bounded
  <2> QED
    BY <1>1, <1>2, <2>1 DEF Init, ManagerInv, BitfieldsAgree
<1>5. MagnetInv
  BY <1>1, <1>2 DEF Init, MagnetInv
<1>6. HubTyped
  <2>1. phase \in Phases /\ sent \in 0 .. NumPieces + 1 /\ ended \in Endings
    BY PiecesAssumption, SessionAssumption DEF Init, Phases, Endings
  <2>2. writeQ \in Seq(Pieces) /\ events \in Seq(EventSet)
    BY DEF Init
  <2> QED
    BY <2>1, <2>2 DEF Init, HubTyped
<1>7. PhaseInv
  <2>1. Len(events) = 0 /\ phase \in {"Metadata", "Recheck"}
    BY SessionAssumption DEF Init
  <2> QED
    BY <2>1 DEF PhaseInv, NeverStuckComplete, DoneIsLast, OnlyDisk
<1>8. DiskInv
  <2>1. Len(events) = 0
    BY DEF Init
  <2> QED
    BY <2>1 DEF Init, DiskInv, OnDiskTruth, EventsTrue
<1>9. WritesInv
  <2>1. Len(events) = 0 /\ Len(writeQ) = 0 /\ Acks = {}
    BY DEF Init, Acks
  <2>2. OnTheWay = {}
    <3>1. Range(writeQ) = {}
      <4>1. writeQ \in Seq(Pieces)
        BY <1>6 DEF HubTyped
      <4>2. Range(writeQ) = {writeQ[i] : i \in 1 .. 0}
        BY <2>1, <4>1, RangeOfPieces
      <4> QED
        BY <4>2
    <3> QED
      BY <2>1, <3>1 DEF OnTheWay
  <2>3. Unanswered = 0 /\ Cardinality(OnTheWay) = 0
    BY <2>1, <2>2, FS_EmptySet DEF Unanswered
  <2>4. QueuesInv
    BY <2>1, <2>3 DEF Init, QueuesInv, Distinct
  <2> QED
    BY <1>1, <1>2, <2>2, <2>3, <2>4 DEF Init, WritesInv, VerifiedIsAccounted
<1> QED
  BY <1>3, <1>4, <1>5, <1>6, <1>7, <1>8, <1>9, <1>10 DEF SessionInv, PeersSide, HubSide

\* A handler that verifies no piece and leaves the tasks alone.
LEMMA HubKeeps ==
  ASSUME HubSide, Consistent(pm), Consistent(pm'), DonePieces(pm') = DonePieces(pm),
         phase' \in {phase, "Recheck"}, paused' \in BOOLEAN, ended' \in {ended} \cup (Endings \ {"no"}),
         UNCHANGED <<seed, onDisk, verifiedBytes, pendingWrites, taskVars>>
  PROVE  HubSide'
<1>1. HubTyped'
  BY DEF HubSide, HubTyped, taskVars, Phases
<1>2. Acks' = Acks /\ OnTheWay' = OnTheWay /\ Unanswered' = Unanswered /\ QueuesInv'
  BY DEF HubSide, WritesInv, QueuesInv, Distinct, Unanswered, OnTheWay, Acks, taskVars
<1>3. (Running' => Running) /\ IsComplete(pm') = IsComplete(pm)
  BY CompleteIsAll DEF Running, Consistent, Counted, IsComplete
<1>4. PhaseInv'
  BY <1>3 DEF HubSide, PhaseInv, NeverStuckComplete, DoneIsLast, OnlyDisk, taskVars
<1>5. DiskInv'
  BY DEF HubSide, DiskInv, OnDiskTruth, EventsTrue, taskVars
<1>6. WritesInv'
  BY <1>2, <1>3 DEF HubSide, WritesInv, VerifiedIsAccounted
<1> QED
  BY <1>1, <1>4, <1>5, <1>6 DEF HubSide

\* A step that opens, loses and ends no connection.
LEMMA TasksKept ==
  ASSUME UNCHANGED <<links, taskCounts>>
  PROVE  (\A q : Ghosts(q)' = Ghosts(q)) /\ (TasksInv => TasksInv')
<1>1. \A q : Ghosts(q)' = Ghosts(q)
  BY DEF Ghosts, taskCounts
<1>2. TasksInv => TasksInv'
  BY DEF TasksInv, taskCounts
<1> QED
  BY <1>1, <1>2

LEMMA AskableKept ==
  ASSUME UNCHANGED peerVars
  PROVE  /\ UNCHANGED <<links, unchoked, linkHas, taskCounts>>
         /\ \A q : Ghosts(q)' = Ghosts(q)
         /\ Askable' = Askable /\ (TasksInv => TasksInv')
<1>1. UNCHANGED <<links, unchoked, linkHas, taskCounts>>
  BY DEF peerVars
<1>2. (\A q : Ghosts(q)' = Ghosts(q)) /\ (TasksInv => TasksInv')
  BY <1>1, TasksKept
<1>3. Askable' = Askable
  BY <1>1, <1>2 DEF Askable
<1> QED
  BY <1>1, <1>2, <1>3

\* A step of the tasks that leaves the peers alone.
LEMMA PeersKeep ==
  ASSUME PeersSide, UNCHANGED <<pm, peerVars, magnetVars, owed, phase>>, phase # "Metadata"
  PROVE  PeersSide'
<1>1. PeersTyped' /\ MagnetInv'
  BY DEF PeersSide, PeersTyped, MagnetInv, peerVars, magnetVars
<1>2. ManagerInv'
  BY AskableKept DEF PeersSide, ManagerInv, BitfieldsAgree, magnetVars
<1> QED
  BY <1>1, <1>2, AskableKept DEF PeersSide

LEMMA NoCollectorTyped ==
  NoCollector \in [total : 0 .. MaxDeclared, next : 0 .. MaxDeclared, clean : BOOLEAN]
  BY SessionAssumption DEF NoCollector

(***************************************************************************)
(* Each action keeps the invariant.  First those of the peers.             *)
(***************************************************************************)

\* A link that is overwritten leaves the manager the requests and the bitfield of
\* the old connection, which is a ghost from now on.
LEMMA RegisterInv ==
  ASSUME SessionInv, NEW peer \in Peers, Register(peer),
         \/ peer \in Named \ dialled /\ dialled' = dialled \cup {peer}
         \/ peer \notin links /\ dialled' = dialled
  PROVE  SessionInv'
<1>1. PeersTyped /\ TasksInv /\ ManagerInv /\ MagnetInv
  BY DEF SessionInv, PeersSide
<1>2. /\ links' = links \cup {peer} /\ UNCHANGED pm /\ unchoked' = unchoked \ {peer}
      /\ tasks' = [tasks EXCEPT ![peer] = @ + 1] /\ fresh' = [fresh EXCEPT ![peer] = @ + 1]
      /\ linkHas' = [linkHas EXCEPT ![peer] = {}]
  BY DEF Register
<1>3. HubSide'
  BY HubKeeps DEF SessionInv, PeersSide, ManagerInv, HubSide, HubTyped, Register, UNCHANGED_HUB
<1>4. PeersTyped'
  BY <1>1, NoCollectorTyped DEF PeersTyped, Register
<1>5. MagnetInv'
  BY <1>1 DEF PeersTyped, MagnetInv, Register, UNCHANGED_HUB, taskVars
<1>6. TasksInv'
  <2>1. ASSUME NEW q \in Peers
        PROVE  /\ tasks'[q] \in 0 .. 2 /\ fresh'[q] \in 0 .. 2 /\ fresh'[q] <= tasks'[q]
               /\ q \in links' => tasks'[q] > 0
               /\ tasks'[q] > 0 => q \in links' \cup dialled'
               /\ tasks'[q] > 1 => q \in links' \cap dialled'
    BY <1>1, <1>2 DEF TasksInv
  <2> QED
    BY <1>1, <1>2, <2>1 DEF TasksInv
<1>7. ASSUME NEW q \in Peers
      PROVE  /\ q # peer => Ghosts(q)' = Ghosts(q)
             /\ Ghosts(peer)' = tasks[peer] /\ tasks[peer] \in Nat
  BY <1>1, <1>2 DEF TasksInv, Ghosts
<1>8. ManagerInv'
  <2>1. ASSUME NEW q \in Askable  PROVE q \in Askable'
    <3>1. q \in Peers /\ q \in links /\ tasks[q] > 0
      BY <1>1 DEF Askable, PeersTyped, TasksInv
    <3> QED
      BY <1>2, <1>7, <3>1 DEF Askable
  <2>2. Bounded(pm'.inFlight, Askable')
    BY <1>1, <1>2, <2>1 DEF ManagerInv, Bounded
  <2>3. blind' \cap pm'.known = {}
    BY <1>1, <1>2 DEF ManagerInv, MagnetInv, Register, HasTorrent
  <2>4. ASSUME NEW q \in pm'.known, Ghosts(q)' = 0
        PROVE  q \in links' /\ linkHas'[q] = pm'.has[q]
    <3>1. q \in pm.known /\ q \in Peers /\ pm.has = pm'.has
      BY <1>1, <1>2, InFlightTyped DEF ManagerInv
    <3>2. CASE q = peer
      <4>1. tasks[peer] = 0
        BY <1>7, <2>4, <3>2
      <4>2. peer \notin links
        BY <1>1, <4>1 DEF TasksInv
      <4>3. Ghosts(peer) = tasks[peer] - 0
        BY <4>2 DEF Ghosts
      <4>4. Ghosts(peer) = 0
        BY <4>1, <4>3
      <4> QED
        BY <1>1, <3>1, <3>2, <4>2, <4>4 DEF ManagerInv, BitfieldsAgree
    <3>3. CASE q # peer
      <4>1. Ghosts(q) = 0
        BY <1>7, <2>4, <3>1, <3>3
      <4>2. q \in links /\ linkHas[q] = pm.has[q]
        BY <1>1, <3>1, <4>1 DEF ManagerInv, BitfieldsAgree
      <4> QED
        BY <1>1, <1>2, <3>1, <3>3, <4>2 DEF PeersTyped
    <3> QED
      BY <3>2, <3>3
  <2> QED
    BY <1>1, <1>2, <2>2, <2>3, <2>4 DEF ManagerInv, BitfieldsAgree
<1> QED
  BY <1>3, <1>4, <1>5, <1>6, <1>8 DEF SessionInv, PeersSide

LEMMA ConnectedInv ==
  ASSUME SessionInv, NEW peer \in Peers, Dial(peer) \/ Accept(peer)
  PROVE  SessionInv'
  BY RegisterInv DEF Dial, Accept

\* A bitfield leaves the connections as they are: one of them sent it.
LEMMA BitfieldComesLeaves ==
  ASSUME TasksInv, NEW peer \in Peers, BitfieldComes(peer)
  PROVE  /\ TasksInv' /\ (\A q : Ghosts(q)' = Ghosts(q)) /\ Askable' = Askable
         /\ UNCHANGED <<links, unchoked>>
         /\ Ghosts(peer) = 0 => peer \in links
<1>1. /\ fresh[peer] > 0 /\ fresh' = [fresh EXCEPT ![peer] = @ - 1]
      /\ UNCHANGED <<links, unchoked, tasks, dialled>>
  BY DEF BitfieldComes
<1>2. TasksInv'
  <2>1. \A q \in Peers : fresh'[q] \in 0 .. 2 /\ fresh'[q] <= fresh[q]
    BY <1>1 DEF TasksInv
  <2>2. \A q \in Peers : fresh'[q] <= tasks[q]
    BY <2>1 DEF TasksInv
  <2> QED
    BY <1>1, <2>1, <2>2 DEF TasksInv
<1>3. \A q : Ghosts(q)' = Ghosts(q)
  BY <1>1 DEF Ghosts
<1>4. Askable' = Askable
  BY <1>1, <1>3 DEF Askable
<1>5. Ghosts(peer) = 0 => peer \in links
  <2>1. tasks[peer] \in 0 .. 2 /\ fresh[peer] \in 0 .. 2 /\ fresh[peer] <= tasks[peer]
    BY DEF TasksInv
  <2> QED
    BY <1>1, <2>1 DEF Ghosts
<1> QED
  BY <1>1, <1>2, <1>3, <1>4, <1>5

LEMMA KeepRawInv ==
  ASSUME SessionInv, NEW peer \in Peers, NEW bf \in Wire, KeepRaw(peer, bf)
  PROVE  SessionInv'
<1>1. PeersTyped /\ TasksInv /\ ManagerInv /\ MagnetInv /\ BitfieldComes(peer)
  BY DEF SessionInv, PeersSide, KeepRaw
<1>2. HubSide'
  BY HubKeeps DEF SessionInv, PeersSide, ManagerInv, HubSide, HubTyped, KeepRaw, BitfieldComes,
                  UNCHANGED_HUB
<1>3. PeersTyped' /\ MagnetInv'
  BY <1>1 DEF PeersTyped, MagnetInv, KeepRaw, BitfieldComes, UNCHANGED_HUB, taskVars
<1>4. TasksInv' /\ ManagerInv'
  BY <1>1, BitfieldComesLeaves DEF ManagerInv, BitfieldsAgree, KeepRaw
<1> QED
  BY <1>2, <1>3, <1>4 DEF SessionInv, PeersSide

LEMMA RefuseBitfieldInv ==
  ASSUME SessionInv, NEW peer \in Peers, RefuseBitfield(peer)
  PROVE  SessionInv'
<1>1. PeersTyped /\ TasksInv /\ ManagerInv /\ MagnetInv /\ BitfieldComes(peer)
  BY DEF SessionInv, PeersSide, RefuseBitfield
<1>2. HubSide'
  BY HubKeeps DEF SessionInv, PeersSide, ManagerInv, HubSide, HubTyped, RefuseBitfield,
                  BitfieldComes, UNCHANGED_HUB
<1>3. PeersTyped' /\ MagnetInv'
  BY <1>1 DEF PeersTyped, MagnetInv, RefuseBitfield, BitfieldComes, UNCHANGED_HUB, taskVars
<1>4. TasksInv' /\ ManagerInv'
  BY <1>1, BitfieldComesLeaves DEF ManagerInv, BitfieldsAgree, RefuseBitfield
<1> QED
  BY <1>2, <1>3, <1>4 DEF SessionInv, PeersSide

\* The manager after a bitfield and the refill that follows it.
LEMMA RecvBitfieldLeaves ==
  ASSUME SessionInv, NEW peer \in Peers, NEW bf \in SUBSET Pieces, RecvBitfield(peer, bf)
  PROVE  /\ pm' \in PMs /\ owed' \in [Peers -> SUBSET Blocks]
         /\ Consistent(pm') /\ DonePieces(pm') = DonePieces(pm)
         /\ pm'.known = pm.known \cup {peer} /\ pm'.has = [pm.has EXCEPT ![peer] = bf]
         /\ Bounded(pm'.inFlight, Askable')
         /\ paused' => pm'.inFlight = pm.inFlight
<1> DEFINE m == OnPeerBitfield(pm, peer, bf)
<1>1. PeersTyped /\ TasksInv /\ ManagerInv /\ BitfieldComes(peer)
  BY DEF SessionInv, PeersSide, RecvBitfield
<1>2. Consistent(pm) /\ Consistent(m)
  BY <1>1, BitfieldConsistent DEF ManagerInv
<1>3. /\ DonePieces(m) = DonePieces(pm) /\ m.inFlight = pm.inFlight
      /\ m.known = pm.known \cup {peer} /\ m.has = [pm.has EXCEPT ![peer] = bf]
  BY <1>2, BitfieldLeaves
<1>4. linkHas' \in [Peers -> SUBSET Pieces]
  BY <1>1 DEF RecvBitfield, PeersTyped
<1>5. Bounded(m.inFlight, Askable')
  BY <1>1, <1>3, BitfieldComesLeaves DEF ManagerInv
<1>6. owed \in [Peers -> SUBSET Blocks] /\ Becomes(Refill([pm |-> m, owed |-> owed], peer))
  BY <1>1 DEF PeersTyped, RecvBitfield
<1> HIDE DEF m
<1>7. pm' \in PMs /\ owed' \in [Peers -> SUBSET Blocks] /\ Asked(m, pm')
  BY <1>2, <1>4, <1>5, <1>6, RefillLeaves
<1> QED
  BY <1>3, <1>7 DEF Asked

LEMMA RecvBitfieldInv ==
  ASSUME SessionInv, NEW peer \in Peers, NEW bf \in SUBSET Pieces, RecvBitfield(peer, bf)
  PROVE  SessionInv'
<1>1. /\ PeersTyped /\ TasksInv /\ ManagerInv /\ MagnetInv /\ HubSide /\ HubTyped /\ Consistent(pm)
      /\ BitfieldComes(peer)
  BY DEF SessionInv, PeersSide, HubSide, ManagerInv, RecvBitfield
<1>2. /\ pm' \in PMs /\ owed' \in [Peers -> SUBSET Blocks]
      /\ Consistent(pm') /\ DonePieces(pm') = DonePieces(pm)
      /\ pm'.known = pm.known \cup {peer} /\ pm'.has = [pm.has EXCEPT ![peer] = bf]
      /\ Bounded(pm'.inFlight, Askable')
  BY RecvBitfieldLeaves
<1>3. /\ TasksInv' /\ (\A q : Ghosts(q)' = Ghosts(q)) /\ UNCHANGED <<links, unchoked>>
      /\ Ghosts(peer) = 0 => peer \in links
  BY <1>1, BitfieldComesLeaves
<1>4. /\ linkHas' = IF peer \in links THEN [linkHas EXCEPT ![peer] = bf] ELSE linkHas
      /\ linkHas' \in [Peers -> SUBSET Pieces]
      /\ UNCHANGED <<raw, collector>> /\ blind' = blind \ {peer}
  BY <1>1 DEF RecvBitfield, BitfieldComes, PeersTyped
<1>5. HubSide'
  BY <1>1, <1>2, HubKeeps DEF HubTyped, BitfieldComes, UNCHANGED_HUB
<1>6. PeersTyped' /\ MagnetInv'
  BY <1>1, <1>2, <1>3, <1>4
     DEF PeersTyped, MagnetInv, RecvBitfield, BitfieldComes, HasTorrent, UNCHANGED_HUB, taskVars
<1>7. ManagerInv'
  <2>1. pm.has \in [Peers -> SUBSET Pieces] /\ pm.known \in SUBSET Peers
    BY <1>1, InFlightTyped
  <2>2. blind' \cap pm'.known = {}
    BY <1>1, <1>2, <1>4 DEF ManagerInv
  <2>3. ASSUME NEW q \in pm'.known, Ghosts(q)' = 0
        PROVE  q \in links' /\ linkHas'[q] = pm'.has[q]
    <3>1. Ghosts(q) = 0 /\ q \in Peers
      BY <1>2, <1>3, <2>1, <2>3
    <3>2. CASE q = peer
      BY <1>1, <1>2, <1>3, <1>4, <2>1, <3>1, <3>2 DEF PeersTyped
    <3>3. CASE q # peer
      <4>1. q \in links /\ linkHas[q] = pm.has[q]
        BY <1>1, <1>2, <3>1, <3>3 DEF ManagerInv, BitfieldsAgree
      <4> QED
        BY <1>1, <1>2, <1>3, <1>4, <2>1, <3>1, <3>3, <4>1 DEF PeersTyped
    <3> QED
      BY <3>2, <3>3
  <2> QED
    BY <1>2, <2>2, <2>3 DEF ManagerInv, BitfieldsAgree
<1> QED
  BY <1>3, <1>5, <1>6, <1>7 DEF SessionInv, PeersSide

LEMMA RecvHaveInv ==
  ASSUME SessionInv, NEW peer \in Peers, NEW p \in Pieces, RecvHave(peer, p)
  PROVE  SessionInv'
<1>1. PeersTyped /\ TasksInv /\ ManagerInv /\ MagnetInv /\ HubSide /\ HubTyped /\ Consistent(pm)
  BY DEF SessionInv, PeersSide, HubSide, ManagerInv
<1>2. Consistent(pm')
  BY <1>1, HaveConsistent DEF RecvHave
<1>3. /\ DonePieces(pm') = DonePieces(pm) /\ pm'.inFlight = pm.inFlight
      /\ pm'.known = pm.known
      /\ \A q \in Peers : pm'.has[q] = IF q = peer /\ q \in pm.known THEN pm.has[q] \cup {p}
                                       ELSE pm.has[q]
  BY <1>1, HaveLeaves DEF RecvHave
<1>4. HubSide'
  BY <1>1, <1>2, <1>3, HubKeeps DEF HubTyped, RecvHave, UNCHANGED_HUB
<1>5. PeersTyped' /\ MagnetInv'
  <2>1. pm' \in PMs
    BY <1>2, InFlightTyped
  <2>2. linkHas' \in [Peers -> SUBSET Pieces]
    BY <1>1 DEF PeersTyped, RecvHave
  <2> QED
    BY <1>1, <1>3, <2>1, <2>2
       DEF PeersTyped, MagnetInv, RecvHave, UNCHANGED_HUB, magnetVars, taskVars
<1>7. /\ UNCHANGED <<links, unchoked>> /\ (\A q : Ghosts(q)' = Ghosts(q)) /\ TasksInv'
      /\ Askable' = Askable
  <2>1. UNCHANGED <<links, unchoked, taskCounts>>
    BY DEF RecvHave
  <2> QED
    BY <1>1, <2>1, TasksKept DEF Askable
<1>6. ManagerInv'
  <2>1. Bounded(pm'.inFlight, Askable')
    BY <1>1, <1>3, <1>7 DEF ManagerInv
  <2>2. blind' \cap pm'.known = {}
    BY <1>1, <1>3 DEF ManagerInv, RecvHave, magnetVars
  <2>3. ASSUME NEW q \in pm'.known, Ghosts(q)' = 0
        PROVE  q \in links' /\ linkHas'[q] = pm'.has[q]
    <3>1. q \in Peers /\ q \in pm.known /\ q \notin blind /\ Ghosts(q) = 0
      BY <1>1, <1>3, <1>7, <2>3, InFlightTyped DEF ManagerInv
    <3>2. q \in links /\ linkHas[q] = pm.has[q]
      BY <1>1, <3>1 DEF ManagerInv, BitfieldsAgree
    <3>3. linkHas'[q] = IF q = peer THEN linkHas[q] \cup {p} ELSE linkHas[q]
      BY <1>1, <3>1, <3>2 DEF PeersTyped, RecvHave
    <3> QED
      BY <1>3, <1>7, <3>1, <3>2, <3>3
  <2> QED
    BY <1>2, <2>1, <2>2, <2>3 DEF ManagerInv, BitfieldsAgree
<1> QED
  BY <1>4, <1>5, <1>6, <1>7 DEF SessionInv, PeersSide

LEMMA RecvChokeInv ==
  ASSUME SessionInv, NEW peer \in Peers, RecvChoke(peer)
  PROVE  SessionInv'
<1>1. PeersTyped /\ TasksInv /\ ManagerInv /\ MagnetInv /\ HubSide /\ HubTyped /\ Consistent(pm)
  BY DEF SessionInv, PeersSide, HubSide, ManagerInv
<1>2. Consistent(pm')
  BY <1>1, ReleaseConsistent DEF RecvChoke
<1>3. /\ DonePieces(pm') = DonePieces(pm) /\ pm'.inFlight = [pm.inFlight EXCEPT ![peer] = {}]
      /\ pm'.known = pm.known /\ pm'.has = pm.has
  BY <1>1, ReleaseLeaves DEF RecvChoke
<1>4. HubSide'
  BY <1>1, <1>2, <1>3, HubKeeps DEF HubTyped, RecvChoke, UNCHANGED_HUB
<1>5. PeersTyped' /\ MagnetInv'
  <2>1. pm' \in PMs
    BY <1>2, InFlightTyped
  <2> QED
    BY <1>1, <1>3, <2>1
       DEF PeersTyped, MagnetInv, RecvChoke, UNCHANGED_HUB, magnetVars, taskVars
<1>7. UNCHANGED <<links, linkHas>> /\ (\A q : Ghosts(q)' = Ghosts(q)) /\ TasksInv'
  <2>1. UNCHANGED <<links, linkHas, taskCounts>>
    BY DEF RecvChoke
  <2> QED
    BY <1>1, <2>1, TasksKept
<1>6. ManagerInv'
  <2>1. Bounded(pm'.inFlight, Askable')
    <3>1. pm.inFlight \in [Peers -> SUBSET Blocks] /\ pm'.inFlight \in [Peers -> SUBSET Blocks]
      BY <1>1, <1>2, InFlightTyped
    <3>2. \A q \in Peers : pm'.inFlight[q] = IF q = peer THEN {} ELSE pm.inFlight[q]
      BY <1>3, <3>1
    <3>3. \A q \in Peers : q \in Askable /\ q # peer => q \in Askable'
      BY <1>7 DEF RecvChoke, Askable
    <3> QED
      BY <1>1, <3>1, <3>2, <3>3, BoundedLess DEF ManagerInv
  <2> QED
    BY <1>1, <1>2, <1>3, <1>7, <2>1 DEF ManagerInv, BitfieldsAgree, RecvChoke, magnetVars
<1> QED
  BY <1>4, <1>5, <1>6, <1>7 DEF SessionInv, PeersSide

LEMMA RecvUnchokeLeaves ==
  ASSUME SessionInv, NEW peer \in Peers, RecvUnchoke(peer)
  PROVE  pm' \in PMs /\ owed' \in [Peers -> SUBSET Blocks] /\ Asked(pm, pm')
<1>1. PeersTyped /\ ManagerInv /\ Consistent(pm)
  BY DEF SessionInv, PeersSide, ManagerInv
<1>2. Bounded(pm.inFlight, Askable')
  <2>1. \A q : Ghosts(q)' = Ghosts(q)
    BY TasksKept DEF RecvUnchoke
  <2>2. \A q \in Askable : q \in Askable'
    BY <2>1 DEF RecvUnchoke, Askable
  <2> QED
    BY <1>1, <2>2 DEF ManagerInv, Bounded
<1>3. /\ owed \in [Peers -> SUBSET Blocks] /\ linkHas' \in [Peers -> SUBSET Pieces]
      /\ Becomes(Refill([pm |-> pm, owed |-> owed], peer))
  BY <1>1 DEF PeersTyped, RecvUnchoke
<1> QED
  BY <1>1, <1>2, <1>3, RefillLeaves

LEMMA RecvUnchokeInv ==
  ASSUME SessionInv, NEW peer \in Peers, RecvUnchoke(peer)
  PROVE  SessionInv'
<1>1. PeersTyped /\ TasksInv /\ ManagerInv /\ MagnetInv /\ HubSide /\ HubTyped /\ Consistent(pm)
  BY DEF SessionInv, PeersSide, HubSide, ManagerInv
<1>2. pm' \in PMs /\ owed' \in [Peers -> SUBSET Blocks] /\ Asked(pm, pm')
  BY RecvUnchokeLeaves
<1>3. HubSide'
  <2>1. Consistent(pm') /\ DonePieces(pm') = DonePieces(pm)
    BY <1>2 DEF Asked
  <2> QED
    BY <1>1, <2>1, HubKeeps DEF HubTyped, RecvUnchoke, UNCHANGED_HUB
<1>4. PeersTyped' /\ MagnetInv'
  BY <1>1, <1>2
     DEF PeersTyped, MagnetInv, Asked, RecvUnchoke, UNCHANGED_HUB, magnetVars, taskVars
<1>5. (\A q : Ghosts(q)' = Ghosts(q)) /\ TasksInv'
  BY <1>1, TasksKept DEF RecvUnchoke
<1>6. ManagerInv'
  BY <1>1, <1>2, <1>5 DEF ManagerInv, BitfieldsAgree, Asked, RecvUnchoke, magnetVars
<1> QED
  BY <1>3, <1>4, <1>5, <1>6 DEF SessionInv, PeersSide

\* The manager after a block message and the refill that follows it.
LEMMA RecvBlockLeaves ==
  ASSUME SessionInv, NEW peer \in Peers, NEW k \in Blocks, NEW kind, RecvBlock(peer, k, kind)
  PROVE  /\ pm' \in PMs /\ owed' \in [Peers -> SUBSET Blocks]
         /\ Asked(OnBlockReceived(pm, peer, k, kind).pm, pm')
<1> DEFINE res == OnBlockReceived(pm, peer, k, kind)
           m == res.pm
           w == [owed EXCEPT ![peer] = @ \ {k}]
<1>1. Consistent(pm) /\ PeersTyped /\ Bounded(pm.inFlight, Askable)
  BY DEF SessionInv, PeersSide, ManagerInv
<1>2. Consistent(m) /\ \A q \in Peers : m.inFlight[q] \subseteq pm.inFlight[q]
  BY <1>1, BlockConsistent, BlockKeeps
<1>3. w \in [Peers -> SUBSET Blocks]
  BY <1>1 DEF PeersTyped
<1>4. UNCHANGED peerVars /\ linkHas' \in [Peers -> SUBSET Pieces]
  BY <1>1 DEF RecvBlock, PeersTyped, peerVars
<1>5. Bounded(m.inFlight, Askable')
  <2>2. Askable' = Askable
    BY <1>4, AskableKept
  <2> HIDE DEF m
  <2>1. pm.inFlight \in [Peers -> SUBSET Blocks] /\ m.inFlight \in [Peers -> SUBSET Blocks]
    BY <1>1, <1>2, InFlightTyped
  <2> QED
    BY <1>1, <1>2, <2>1, <2>2, BoundedLess
<1>6. CASE res.event = "InvalidBlock"
  <2>1. pm' = m /\ owed' = w
    BY <1>6 DEF RecvBlock, Becomes
  <2> HIDE DEF m, w
  <2>2. m \in PMs
    BY <1>2, InFlightTyped
  <2> QED
    BY <1>2, <1>3, <1>5, <2>1, <2>2 DEF Asked, m
<1>7. CASE res.event # "InvalidBlock"
  <2>1. Becomes(Refill([pm |-> m, owed |-> w], peer))
    BY <1>7 DEF RecvBlock
  <2> HIDE DEF m, w
  <2>2. pm' \in PMs /\ owed' \in [Peers -> SUBSET Blocks] /\ Asked(m, pm')
    BY <1>2, <1>3, <1>4, <1>5, <2>1, RefillLeaves
  <2> QED
    BY <2>2 DEF m
<1> QED
  BY <1>6, <1>7

LEMMA RecvBlockInv ==
  ASSUME SessionInv, NEW peer \in Peers, NEW k \in Blocks, NEW kind, RecvBlock(peer, k, kind)
  PROVE  SessionInv'
<1> DEFINE res == OnBlockReceived(pm, peer, k, kind)
<1>1. /\ PeersTyped /\ TasksInv /\ ManagerInv /\ MagnetInv /\ HubSide /\ Consistent(pm)
      /\ HubTyped /\ PhaseInv /\ DiskInv /\ WritesInv
  BY DEF SessionInv, PeersSide, HubSide, ManagerInv
<1>2. pm' \in PMs /\ owed' \in [Peers -> SUBSET Blocks] /\ Asked(res.pm, pm')
  BY RecvBlockLeaves
<1>3. /\ res.pm.known = pm.known /\ res.pm.has = pm.has
      /\ IF res.event = "PieceCompleted"
         THEN k[1] \notin DonePieces(pm) /\ DonePieces(res.pm) = DonePieces(pm) \cup {k[1]}
         ELSE DonePieces(res.pm) = DonePieces(pm)
  BY <1>1, BlockLeaves
<1>4. /\ UNCHANGED <<peerVars, magnetVars, phase, paused, seed, onDisk, verifiedBytes, events,
                     disk, read, sent, ended>>
      /\ Running /\ HasTorrent
  BY DEF RecvBlock
<1>5. IF res.event = "PieceCompleted" THEN SendToWriter(k[1]) ELSE UNCHANGED <<pendingWrites, writeQ>>
  BY DEF RecvBlock
<1> HIDE DEF res
<1>6. Consistent(pm') /\ DonePieces(pm') = DonePieces(res.pm)
  BY <1>2 DEF Asked
<1>7. PeersTyped' /\ MagnetInv' /\ TasksInv'
  BY <1>1, <1>2, <1>4, AskableKept DEF PeersTyped, MagnetInv, HasTorrent, peerVars, magnetVars
<1>8. ManagerInv'
  BY <1>1, <1>2, <1>3, <1>4, AskableKept DEF ManagerInv, BitfieldsAgree, Asked, magnetVars
<1>9. CASE res.event # "PieceCompleted"
  <2>1. HubSide'
    BY <1>1, <1>3, <1>4, <1>5, <1>6, <1>9, HubKeeps DEF HubTyped, taskVars
  <2> QED
    BY <1>7, <1>8, <2>1 DEF SessionInv, PeersSide
<1>10. CASE res.event = "PieceCompleted"
  <2>1. /\ pendingWrites' = pendingWrites + 1 /\ writeQ' = Append(writeQ, k[1])
        /\ k[1] \in Pieces \ DonePieces(pm) /\ DonePieces(pm') = DonePieces(pm) \cup {k[1]}
    BY <1>3, <1>5, <1>6, <1>10, PieceFacts DEF SendToWriter
  <2>2. DonePieces(pm) = onDisk \cup OnTheWay /\ pendingWrites = Unanswered /\ QueuesInv
    BY <1>1, <1>4 DEF WritesInv, VerifiedIsAccounted
  <2>3. QueuesInv' /\ OnTheWay' = OnTheWay \cup {k[1]} /\ Unanswered' = Unanswered + 1
    BY <1>4, <2>1, <2>2, QueueSend
  <2>4. WritesInv'
    BY <1>4, <2>1, <2>2, <2>3 DEF WritesInv, VerifiedIsAccounted
  <2>5. HubTyped'
    BY <1>1, <1>4, <2>1, <2>3 DEF HubTyped, QueuesInv
  <2>6. PhaseInv'
    <3>1. IsComplete(pm) => IsComplete(pm')
      BY <1>1, <1>6, <2>1, CompleteIsAll DEF DonePieces
    <3>2. NeverStuckComplete'
      BY <1>1, <2>1 DEF HubTyped, NeverStuckComplete
    <3> QED
      BY <1>1, <1>4, <3>1, <3>2 DEF PhaseInv, DoneIsLast, OnlyDisk
  <2>7. DiskInv'
    BY <1>1, <1>4 DEF DiskInv, OnDiskTruth, EventsTrue
  <2> QED
    BY <1>7, <1>8, <2>4, <2>5, <2>6, <2>7 DEF SessionInv, PeersSide, HubSide
<1> QED
  BY <1>9, <1>10

LEMMA DisconnectedInv ==
  ASSUME SessionInv, NEW peer \in Peers, Disconnected(peer)
  PROVE  SessionInv'
<1>1. PeersTyped /\ TasksInv /\ ManagerInv /\ MagnetInv /\ HubSide /\ HubTyped /\ Consistent(pm)
  BY DEF SessionInv, PeersSide, HubSide, ManagerInv
<1>2. Consistent(pm')
  BY <1>1, DisconnectedConsistent DEF Disconnected, Forget
<1>3. /\ DonePieces(pm') = DonePieces(pm) /\ pm'.inFlight = [pm.inFlight EXCEPT ![peer] = {}]
      /\ pm'.known = pm.known \ {peer} /\ \A q \in Peers \ {peer} : pm'.has[q] = pm.has[q]
  BY <1>1, DisconnectedLeaves DEF Disconnected, Forget
<1>4. HubSide'
  BY <1>1, <1>2, <1>3, HubKeeps DEF HubTyped, Disconnected, UNCHANGED_HUB
<1>5. PeersTyped' /\ MagnetInv'
  <2>1. pm' \in PMs
    BY <1>2, InFlightTyped
  <2>3. PeersTyped'
    BY <1>1, <2>1, NoCollectorTyped DEF PeersTyped, Disconnected
  <2> QED
    BY <1>1, <1>3, <2>3
       DEF PeersTyped, MagnetInv, Disconnected, UNCHANGED_HUB, taskVars
<1>7. /\ links' = links \ {peer} /\ unchoked' = unchoked \ {peer} /\ dialled' = dialled
      /\ tasks' = [tasks EXCEPT ![peer] = @ - 1] /\ tasks[peer] > 0
      /\ \E n \in {fresh[peer], fresh[peer] - 1} \cap (0 .. tasks[peer] - 1) :
           fresh' = [fresh EXCEPT ![peer] = n]
  BY DEF Disconnected
<1>8. TasksInv'
  <2>1. PICK n \in {fresh[peer], fresh[peer] - 1} \cap (0 .. tasks[peer] - 1) :
          fresh' = [fresh EXCEPT ![peer] = n]
    BY <1>7
  <2>2. ASSUME NEW q \in Peers
        PROVE  /\ tasks'[q] \in 0 .. 2 /\ fresh'[q] \in 0 .. 2 /\ fresh'[q] <= tasks'[q]
               /\ q \in links' => tasks'[q] > 0
               /\ tasks'[q] > 0 => q \in links' \cup dialled'
               /\ tasks'[q] > 1 => q \in links' \cap dialled'
    BY <1>1, <1>7, <2>1 DEF TasksInv
  <2> QED
    BY <1>1, <1>7, <2>1, <2>2 DEF TasksInv
<1>9. \A q \in Peers \ {peer} : Ghosts(q)' = Ghosts(q)
  BY <1>1, <1>7 DEF TasksInv, Ghosts
<1>6. ManagerInv'
  <2>1. Bounded(pm'.inFlight, Askable')
    <3>1. pm.inFlight \in [Peers -> SUBSET Blocks] /\ pm'.inFlight \in [Peers -> SUBSET Blocks]
      BY <1>1, <1>2, InFlightTyped
    <3>2. \A q \in Peers : pm'.inFlight[q] = IF q = peer THEN {} ELSE pm.inFlight[q]
      BY <1>3, <3>1
    <3>3. \A q \in Peers : q \in Askable /\ q # peer => q \in Askable'
      BY <1>7, <1>9 DEF Askable
    <3> QED
      BY <1>1, <3>1, <3>2, <3>3, BoundedLess DEF ManagerInv
  <2>2. blind' \cap pm'.known = {}
    BY <1>1, <1>3 DEF ManagerInv, Disconnected
  <2>3. ASSUME NEW q \in pm'.known, Ghosts(q)' = 0
        PROVE  q \in links' /\ linkHas'[q] = pm'.has[q]
    <3>1. q \in Peers \ {peer} /\ q \in pm.known /\ Ghosts(q) = 0
      BY <1>1, <1>3, <1>9, <2>3, InFlightTyped
    <3>2. q \in links /\ linkHas[q] = pm.has[q]
      BY <1>1, <3>1 DEF ManagerInv, BitfieldsAgree
    <3> QED
      BY <1>1, <1>3, <3>1, <3>2 DEF PeersTyped, Disconnected
  <2> QED
    BY <1>2, <2>1, <2>2, <2>3 DEF ManagerInv, BitfieldsAgree
<1> QED
  BY <1>4, <1>5, <1>6, <1>8 DEF SessionInv, PeersSide

(***************************************************************************)
(* The magnet phase.                                                       *)
(***************************************************************************)

\* A step of it that leaves manager, links and phase alone.
LEMMA MagnetKeeps ==
  ASSUME SessionInv, NEW peer \in Peers, InMetadata(peer),
         UNCHANGED <<pm, linkHas, blind, raw, phase>>,
         NEW c, c = NoCollector \/ c.next < c.total,
         c \in [total : 0 .. MaxDeclared, next : 0 .. MaxDeclared, clean : BOOLEAN],
         collector' = [collector EXCEPT ![peer] = c]
  PROVE  SessionInv'
<1>1. HubSide'
  BY HubKeeps DEF SessionInv, PeersSide, ManagerInv, HubSide, HubTyped, InMetadata
<1>2. PeersTyped' /\ MagnetInv'
  BY DEF SessionInv, PeersSide, PeersTyped, MagnetInv, InMetadata, taskVars
<1>3. UNCHANGED peerVars
  BY DEF InMetadata, peerVars
<1>4. ManagerInv' /\ TasksInv'
  BY <1>3, AskableKept DEF SessionInv, PeersSide, ManagerInv, BitfieldsAgree
<1> QED
  BY <1>1, <1>2, <1>4 DEF SessionInv, PeersSide

LEMMA ExtHandshakeInv ==
  ASSUME SessionInv, NEW peer \in Peers, NEW total \in 1 .. MaxDeclared, ExtHandshake(peer, total)
  PROVE  SessionInv'
<1> DEFINE c == [NoCollector EXCEPT !.total = total]
<1>1. c.next < c.total
  BY DEF NoCollector
<1>2. c \in [total : 0 .. MaxDeclared, next : 0 .. MaxDeclared, clean : BOOLEAN]
  BY NoCollectorTyped, SessionAssumption
<1>3. /\ InMetadata(peer) /\ UNCHANGED <<pm, linkHas, blind, raw, phase>>
      /\ collector' = [collector EXCEPT ![peer] = c]
  BY DEF ExtHandshake
<1> HIDE DEF c
<1> QED
  BY <1>1, <1>2, <1>3, MagnetKeeps

LEMMA MetadataFailedInv ==
  ASSUME SessionInv, NEW peer \in Peers, MetadataFailed(peer)
  PROVE  SessionInv'
  BY NoCollectorTyped, MagnetKeeps DEF MetadataFailed

\* What is replayed is one bitfield that fits the torrent.
LEMMA EarlyBitfields ==
  ASSUME PeersTyped, MagnetInv, NEW q \in Replayed
  PROVE  UNION raw[q] \in SUBSET Pieces /\ raw[q] = {UNION raw[q]}
<1>1. raw[q] # {} /\ raw[q] # {Malformed} /\ q \in Peers
  BY DEF Replayed, PeersTyped
<1>2. PICK bf \in Wire : raw[q] = {bf}
  BY <1>1 DEF MagnetInv
<1>3. bf \in SUBSET Pieces
  BY <1>1, <1>2 DEF Wire
<1>4. UNION {bf} = bf
  OBVIOUS
<1> QED
  BY <1>2, <1>3, <1>4

\* What the hub hands over when the dictionary is there.
LEMMA MetadataCompleteLeaves ==
  ASSUME SessionInv, ~ HasTorrent, MetadataComplete
  PROVE  /\ Consistent(pm') /\ DonePieces(pm') = DonePieces(pm) /\ pm'.inFlight = pm.inFlight
         /\ pm'.known = Replayed
         /\ \A q \in Replayed : pm'.has[q] = linkHas'[q] /\ raw[q] = {linkHas'[q]}
<1>1. /\ Consistent(pm) /\ pm.known = {} /\ links \subseteq Peers
      /\ \A q \in Replayed : UNION raw[q] \in SUBSET Pieces /\ raw[q] = {UNION raw[q]}
  <2>1. PeersTyped /\ MagnetInv
    BY DEF SessionInv, PeersSide
  <2> QED
    BY <2>1, EarlyBitfields DEF SessionInv, PeersSide, ManagerInv, MagnetInv, PeersTyped, HasTorrent
<1>2. PICK order \in SetToSeqs(Replayed) : pm' = ReplayInOrder(pm, order)
  BY DEF MetadataComplete
<1>3. Replaying(pm', Replayed)
  BY <1>1, <1>2, ReplayedAll
<1>4. Replayed \in SUBSET Peers
  BY <1>1 DEF Replayed
<1>5. \A q \in Replayed : linkHas'[q] = UNION raw[q]
  BY <1>4 DEF MetadataComplete
<1> QED
  BY <1>1, <1>3, <1>5 DEF Replaying, DonePieces

LEMMA MetadataPieceInv ==
  ASSUME SessionInv, NEW peer \in Peers, NEW good \in BOOLEAN, MetadataPiece(peer, good)
  PROVE  SessionInv'
<1> DEFINE c == [collector[peer] EXCEPT !.next = @ + 1, !.clean = @ /\ good]
<1>1. /\ PeersTyped /\ TasksInv /\ ManagerInv /\ MagnetInv /\ HubSide /\ HubTyped
  BY DEF SessionInv, PeersSide, HubSide
<1>2. InMetadata(peer) /\ collector[peer] # NoCollector
  BY DEF MetadataPiece
<1>3. CASE ~ Verified(c)
  <2> DEFINE d == IF c.next < c.total THEN c ELSE NoCollector
  <2>1. collector' = [collector EXCEPT ![peer] = d] /\ UNCHANGED <<pm, linkHas, blind, raw, phase>>
    BY <1>3 DEF MetadataPiece
  <2>2. c \in [total : 0 .. MaxDeclared, next : 0 .. MaxDeclared, clean : BOOLEAN]
    <3>1. /\ collector[peer].next < collector[peer].total
          /\ collector[peer] \in [total : 0 .. MaxDeclared, next : 0 .. MaxDeclared, clean : BOOLEAN]
      BY <1>1, <1>2 DEF MagnetInv, PeersTyped
    <3>2. collector[peer].next + 1 \in 0 .. MaxDeclared /\ (collector[peer].clean /\ good) \in BOOLEAN
      BY <3>1, SessionAssumption
    <3> QED
      BY <3>1, <3>2
  <2>3. d = NoCollector \/ d.next < d.total
    OBVIOUS
  <2>4. d \in [total : 0 .. MaxDeclared, next : 0 .. MaxDeclared, clean : BOOLEAN]
    BY <2>2, NoCollectorTyped
  <2> HIDE DEF d
  <2> QED
    BY <1>2, <2>1, <2>3, <2>4, MagnetKeeps
<1>4. CASE Verified(c)
  <2>1. MetadataComplete /\ ~ HasTorrent
    BY <1>2, <1>4 DEF MetadataPiece, InMetadata
  <2>2. /\ Consistent(pm') /\ DonePieces(pm') = DonePieces(pm) /\ pm'.inFlight = pm.inFlight
        /\ pm'.known = Replayed
        /\ \A q \in Replayed : pm'.has[q] = linkHas'[q]
    BY <2>1, MetadataCompleteLeaves
  <2>3. HubSide'
    BY <1>1, <1>2, <2>1, <2>2, HubKeeps DEF ManagerInv, HubTyped, InMetadata, MetadataComplete
  <2>4. PeersTyped'
    <3>1. linkHas' \in [Peers -> SUBSET Pieces]
      <4>1. \A q \in Replayed : UNION raw[q] \in SUBSET Pieces
        BY <1>1, EarlyBitfields
      <4> QED
        BY <2>1, <4>1 DEF MetadataComplete
    <3>2. pm' \in PMs
      BY <2>2, InFlightTyped
    <3> QED
      BY <1>1, <1>2, <2>1, <3>1, <3>2, NoCollectorTyped DEF PeersTyped, InMetadata, MetadataComplete
  <2>5. MagnetInv'
    BY <2>1 DEF MagnetInv, MetadataComplete
  <2>6. TasksInv' /\ Askable' = Askable
    <3>1. UNCHANGED <<links, unchoked, taskCounts>>
      BY <1>2 DEF InMetadata
    <3> QED
      BY <1>1, <3>1, TasksKept DEF Askable
  <2>7. ManagerInv'
    BY <1>1, <1>2, <2>1, <2>2, <2>6
       DEF ManagerInv, BitfieldsAgree, InMetadata, MetadataComplete, Replayed
  <2> QED
    BY <2>3, <2>4, <2>5, <2>6, <2>7 DEF SessionInv, PeersSide
<1> QED
  BY <1>3, <1>4

(***************************************************************************)
(* The tasks.                                                              *)
(***************************************************************************)

LEMMA ChannelMore ==
  ASSUME events \in Seq(EventSet), NEW e \in EventSet, events' = Append(events, e),
         DoneIsLast, EventsTrue, disk \subseteq disk',
         e.kind \in {"Disk", "Recheck"} /\ e.ok => e.piece \in disk',
         \/ e.kind = "Disk" /\ sent' = sent
         \/ e.kind = "Recheck" /\ sent <= NumPieces
         \/ e.kind = "RecheckDone" /\ sent <= NumPieces /\ ~ sent' <= NumPieces
  PROVE  DoneIsLast' /\ EventsTrue' /\ (OnlyDisk /\ e.kind = "Disk" => OnlyDisk')
<1> DEFINE l == Len(events)
<1>1. /\ Len(events') = l + 1 /\ \A i \in 1 .. l : events'[i] = events[i]
      /\ events'[l + 1] = e
  BY AppendedEvent
<1>2. l \in Nat /\ 1 .. l + 1 = (1 .. l) \cup {l + 1}
  BY LenProperties
<1>3. \A i \in 1 .. l + 1 : i \in 1 .. l \/ (i = l + 1 /\ events'[i] = e)
  BY <1>1, <1>2
<1>4. EventsTrue'
  <2> SUFFICES ASSUME NEW i \in 1 .. l + 1, events'[i].kind \in {"Disk", "Recheck"}, events'[i].ok
               PROVE  events'[i].piece \in disk'
    BY <1>1 DEF EventsTrue
  <2>1. CASE i \in 1 .. l
    BY <1>1, <2>1 DEF EventsTrue
  <2>2. CASE i = l + 1
    BY <1>1, <2>2
  <2> QED
    BY <1>3, <2>1, <2>2
<1>5. sent' <= NumPieces => \A i \in 1 .. l + 1 : events'[i].kind # "RecheckDone"
  BY <1>1, <1>3 DEF DoneIsLast
<1>6. ASSUME NEW i \in 1 .. l + 1, NEW j \in 1 .. l + 1, i < j, events'[i].kind = "RecheckDone"
      PROVE  events'[j].kind = "Disk"
  <2>1. i \in 1 .. l /\ events[i].kind = "RecheckDone"
    BY <1>1, <1>2, <1>6
  <2>2. e.kind = "Disk"
    BY <2>1 DEF DoneIsLast
  <2>3. CASE j \in 1 .. l
    BY <1>1, <1>6, <2>1, <2>3 DEF DoneIsLast
  <2>4. CASE j = l + 1
    BY <1>1, <2>2, <2>4
  <2> QED
    BY <1>3, <2>3, <2>4
<1>7. OnlyDisk /\ e.kind = "Disk" => OnlyDisk'
  BY <1>1, <1>3 DEF OnlyDisk
<1>8. DoneIsLast'
  BY <1>1, <1>5, <1>6 DEF DoneIsLast
<1> QED
  BY <1>4, <1>7, <1>8

LEMMA ChannelLess ==
  ASSUME events \in Seq(EventSet), events # <<>>, events' = Tail(events),
         DoneIsLast, EventsTrue, sent \in Nat, UNCHANGED <<sent, disk>>
  PROVE  /\ DoneIsLast' /\ EventsTrue' /\ (OnlyDisk => OnlyDisk')
         /\ Head(events).kind = "RecheckDone" => OnlyDisk' /\ ~ sent <= NumPieces
         /\ OnlyDisk => Head(events).kind = "Disk"
         /\ Head(events).kind \in {"Disk", "Recheck"} /\ Head(events).ok =>
              Head(events).piece \in disk
<1> DEFINE l == Len(events)
<1>1. /\ l \in Nat \ {0} /\ Len(events') = l - 1
      /\ \A i \in 1 .. l - 1 : events'[i] = events[i + 1]
      /\ Head(events) = events[1] /\ 1 \in 1 .. l
  BY HandledEvent
<1>2. \A i \in 1 .. l - 1 : i + 1 \in 1 .. l /\ events'[i] = events[i + 1] /\ 1 < i + 1
  BY <1>1
<1>3. EventsTrue' /\ (OnlyDisk => OnlyDisk')
  BY <1>1, <1>2 DEF EventsTrue, OnlyDisk
<1>4. ASSUME NEW i \in 1 .. l - 1, NEW j \in 1 .. l - 1, i < j, events'[i].kind = "RecheckDone"
      PROVE  events'[j].kind = "Disk"
  BY <1>2, <1>4 DEF DoneIsLast
<1>5. sent <= NumPieces => \A i \in 1 .. l - 1 : events'[i].kind # "RecheckDone"
  BY <1>2 DEF DoneIsLast
<1>6. DoneIsLast'
  BY <1>1, <1>4, <1>5 DEF DoneIsLast
<1>7. events[1].kind = "RecheckDone" => OnlyDisk' /\ ~ sent <= NumPieces
  BY <1>1, <1>2 DEF DoneIsLast, OnlyDisk
<1>8. OnlyDisk => events[1].kind = "Disk"
  BY <1>1 DEF OnlyDisk
<1>9. events[1].kind \in {"Disk", "Recheck"} /\ events[1].ok => events[1].piece \in disk
  BY <1>1 DEF EventsTrue
<1> QED
  BY <1>1, <1>3, <1>6, <1>7, <1>8, <1>9

\* The invariant of the tasks, with those parts by their names.
LEMMA HubParts ==
  ASSUME HubSide
  PROVE  /\ HubTyped /\ DoneIsLast /\ EventsTrue /\ OnDiskTruth /\ QueuesInv
         /\ events \in Seq(EventSet) /\ writeQ \in Seq(Pieces) /\ sent \in Nat
         /\ phase = "Download" => sent = NumPieces + 1 /\ OnlyDisk
         /\ phase = "Seed" => IsComplete(pm)
         /\ \A p \in Pieces : read[p] = "ok" => p \in disk
  BY PiecesAssumption
     DEF HubSide, HubTyped, PhaseInv, DiskInv, WritesInv, QueuesInv

LEMMA WritePieceInv ==
  ASSUME SessionInv, NEW ok \in BOOLEAN, WritePiece(ok)
  PROVE  SessionInv'
<1> DEFINE e == Outcome(Head(writeQ), ok)
<1>1. /\ PeersSide /\ HubSide /\ WritesInv /\ PhaseInv /\ HubTyped /\ DoneIsLast /\ EventsTrue
      /\ OnDiskTruth /\ QueuesInv /\ events \in Seq(EventSet) /\ writeQ \in Seq(Pieces)
      /\ phase = "Download" => sent = NumPieces + 1 /\ OnlyDisk
      /\ \A p \in Pieces : read[p] = "ok" => p \in disk
  BY HubParts DEF SessionInv, HubSide
<1>2. /\ writeQ # <<>> /\ writeQ' = Tail(writeQ) /\ events' = Append(events, e)
      /\ disk' = IF ok THEN disk \cup {Head(writeQ)} ELSE disk
      /\ UNCHANGED <<pm, peerVars, magnetVars, owed, phase, paused, seed, onDisk,
                     verifiedBytes, pendingWrites, read, sent, ended>>
  BY DEF WritePiece, NextWrite
<1>3. Head(writeQ) \in Pieces
  BY <1>1, <1>2, HeadTailProperties
<1>4. e \in EventSet /\ e.kind = "Disk" /\ e.piece = Head(writeQ) /\ e.ok = ok
  BY <1>3 DEF Outcome, Event, EventSet
<1> HIDE DEF e
<1>5. QueuesInv' /\ OnTheWay' = OnTheWay /\ Unanswered' = Unanswered
  BY <1>1, <1>2, <1>4, QueueWrite
<1>6. disk \subseteq disk' /\ disk' \subseteq Pieces
  BY <1>1, <1>2, <1>3 DEF HubTyped
<1>7. e.ok => e.piece \in disk'
  BY <1>2, <1>4
<1>8. DoneIsLast' /\ EventsTrue' /\ (OnlyDisk => OnlyDisk')
  BY <1>1, <1>2, <1>4, <1>6, <1>7, ChannelMore
<1>9. PeersSide'
  <2>1. phase # "Metadata"
    BY <1>1, <1>2 DEF PeersSide, MagnetInv
  <2> QED
    BY <1>1, <1>2, <2>1, PeersKeep
<1>10. HubTyped'
  BY <1>1, <1>2, <1>5, <1>6 DEF HubTyped, QueuesInv
<1>11. PhaseInv'
  BY <1>1, <1>2, <1>8 DEF PhaseInv, NeverStuckComplete, Running
<1>12. DiskInv'
  BY <1>1, <1>2, <1>6, <1>8 DEF DiskInv, OnDiskTruth
<1>13. WritesInv'
  BY <1>1, <1>2, <1>5 DEF WritesInv, VerifiedIsAccounted, Running
<1> QED
  BY <1>9, <1>10, <1>11, <1>12, <1>13 DEF SessionInv, HubSide

LEMMA RecheckReadInv ==
  ASSUME SessionInv, NEW p \in Pieces, RecheckRead(p)
  PROVE  SessionInv'
<1>1. /\ PeersSide /\ HubSide /\ HubTyped /\ PhaseInv /\ DiskInv /\ WritesInv
  BY DEF SessionInv, HubSide
<1>2. PeersSide'
  BY <1>1, PeersKeep DEF RecheckRead, HasTorrent
<1>3. HubTyped'
  BY <1>1 DEF HubTyped, RecheckRead
<1>4. PhaseInv'
  BY <1>1 DEF PhaseInv, NeverStuckComplete, DoneIsLast, OnlyDisk, Running, RecheckRead
<1>5. DiskInv'
  BY <1>1 DEF DiskInv, OnDiskTruth, EventsTrue, HubTyped, RecheckRead
<1>6. Acks' = Acks /\ OnTheWay' = OnTheWay /\ Unanswered' = Unanswered
  BY DEF Acks, OnTheWay, Unanswered, RecheckRead
<1>7. WritesInv'
  <2>1. QueuesInv'
    BY <1>1, <1>6 DEF WritesInv, QueuesInv, Distinct, RecheckRead
  <2> QED
    BY <1>1, <1>6, <2>1 DEF WritesInv, VerifiedIsAccounted, RecheckRead
<1> QED
  BY <1>2, <1>3, <1>4, <1>5, <1>7 DEF SessionInv, HubSide

LEMMA RecheckSendInv ==
  ASSUME SessionInv, RecheckSend
  PROVE  SessionInv'
<1>1. /\ PeersSide /\ HubSide /\ WritesInv /\ PhaseInv /\ HubTyped /\ DoneIsLast /\ EventsTrue
      /\ OnDiskTruth /\ QueuesInv /\ events \in Seq(EventSet) /\ writeQ \in Seq(Pieces)
      /\ sent \in Nat
      /\ phase = "Download" => sent = NumPieces + 1
      /\ \A p \in Pieces : read[p] = "ok" => p \in disk
  BY HubParts DEF SessionInv, HubSide
<1>2. /\ HasTorrent /\ sent <= NumPieces /\ sent' = sent + 1
      /\ UNCHANGED <<pm, peerVars, magnetVars, owed, phase, paused, seed, onDisk,
                     verifiedBytes, pendingWrites, writeQ, disk, read, ended>>
  BY DEF RecheckSend
<1>3. PICK e \in EventSet :
        /\ events' = Append(events, e)
        /\ \/ e.kind = "Recheck" /\ (e.ok => e.piece \in disk)
           \/ e.kind = "RecheckDone" /\ sent = NumPieces
  <2>1. CASE sent = NumPieces
    <3>1. Event("RecheckDone", 0, TRUE) \in EventSet /\ Event("RecheckDone", 0, TRUE).kind = "RecheckDone"
      BY PiecesAssumption DEF Event, EventSet, Pieces
    <3> QED
      BY <2>1, <3>1 DEF RecheckSend
  <2>2. CASE sent # NumPieces
    <3> DEFINE e == Event("Recheck", sent, read[sent] = "ok")
    <3>1. sent \in Pieces
      BY <1>1, <1>2, <2>2, PiecesAssumption DEF Pieces
    <3>2. e \in EventSet /\ e.kind = "Recheck" /\ e.piece = sent /\ e.ok = (read[sent] = "ok")
      BY <3>1 DEF Event, EventSet
    <3>3. events' = Append(events, e)
      BY <2>2 DEF RecheckSend
    <3> HIDE DEF e
    <3> QED
      BY <1>1, <3>1, <3>2, <3>3
  <2> QED
    BY <2>1, <2>2
<1>4. QueuesInv' /\ OnTheWay' = OnTheWay /\ Unanswered' = Unanswered
  BY <1>1, <1>2, <1>3, QueueVerdict
<1>5. DoneIsLast' /\ EventsTrue'
  <2>1. e.kind = "RecheckDone" => ~ sent' <= NumPieces
    BY <1>1, <1>2, <1>3, PiecesAssumption
  <2> QED
    BY <1>1, <1>2, <1>3, <2>1, ChannelMore
<1>6. PeersSide'
  BY <1>1, <1>2, PeersKeep DEF HasTorrent
<1>7. phase # "Download"
  BY <1>1, <1>2, PiecesAssumption
<1>8. HubTyped'
  BY <1>1, <1>2, <1>4, PiecesAssumption DEF HubTyped, QueuesInv
<1>9. PhaseInv'
  BY <1>1, <1>2, <1>5, <1>7 DEF PhaseInv, NeverStuckComplete, Running
<1>10. DiskInv'
  BY <1>1, <1>2, <1>5 DEF DiskInv, OnDiskTruth
<1>11. WritesInv'
  BY <1>1, <1>2, <1>4 DEF WritesInv, VerifiedIsAccounted, Running
<1> QED
  BY <1>6, <1>8, <1>9, <1>10, <1>11 DEF SessionInv, HubSide

(***************************************************************************)
(* What the hub does with an event: h is the event taken.                  *)
(***************************************************************************)
LEMMA HandleLeaves ==
  ASSUME SessionInv, NEW kind, Handle(kind)
  PROVE  LET h == Head(events)
         IN  /\ h \in EventSet /\ h.kind = kind /\ events # <<>> /\ Running /\ phase # "Metadata"
             /\ UNCHANGED <<peerVars, magnetVars, paused, seed, writeQ, disk, read, sent>>
             /\ DoneIsLast' /\ EventsTrue' /\ (OnlyDisk => OnlyDisk' /\ kind = "Disk")
             /\ kind = "RecheckDone" => OnlyDisk' /\ sent = NumPieces + 1
             /\ kind \in {"Disk", "Recheck"} /\ h.ok => h.piece \in disk
             /\ QueuesInv' /\ events' \in Seq(EventSet)
             /\ IF kind = "Disk"
                THEN /\ h.piece \in OnTheWay /\ OnTheWay' = OnTheWay \ {h.piece}
                     /\ Unanswered' = Unanswered - 1 /\ Unanswered \in Nat \ {0}
                ELSE OnTheWay' = OnTheWay /\ Unanswered' = Unanswered
<1>1. /\ Running /\ events # <<>> /\ Head(events).kind = kind /\ events' = Tail(events)
      /\ UNCHANGED <<peerVars, magnetVars, paused, seed, writeQ, disk, read, sent>>
  BY DEF Handle
<1>2. /\ DoneIsLast /\ EventsTrue /\ QueuesInv /\ events \in Seq(EventSet) /\ sent \in Nat
      /\ sent \in 0 .. NumPieces + 1
  BY HubParts DEF SessionInv, HubTyped
<1>3. phase # "Metadata"
  BY <1>1 DEF SessionInv, PeersSide, MagnetInv
<1>4. /\ DoneIsLast' /\ EventsTrue' /\ (OnlyDisk => OnlyDisk')
      /\ Head(events).kind = "RecheckDone" => OnlyDisk' /\ ~ sent <= NumPieces
      /\ OnlyDisk => Head(events).kind = "Disk"
      /\ Head(events).kind \in {"Disk", "Recheck"} /\ Head(events).ok =>
           Head(events).piece \in disk
  BY <1>1, <1>2, ChannelLess
<1>5. kind = "RecheckDone" => OnlyDisk' /\ sent = NumPieces + 1
  BY <1>1, <1>2, <1>4, PiecesAssumption
<1>6. /\ QueuesInv' /\ Head(events) \in EventSet
      /\ IF Head(events).kind = "Disk"
         THEN /\ Head(events).piece \in OnTheWay
              /\ OnTheWay' = OnTheWay \ {Head(events).piece}
              /\ Unanswered' = Unanswered - 1 /\ Unanswered \in Nat \ {0}
         ELSE OnTheWay' = OnTheWay /\ Unanswered' = Unanswered
  BY <1>1, <1>2, QueueHandle
<1>7. events' \in Seq(EventSet)
  BY <1>6 DEF QueuesInv
<1> QED
  BY <1>1, <1>3, <1>4, <1>5, <1>6, <1>7

LEMMA PieceLenTyped == \A p \in Pieces : PieceLen(p) \in Nat
  BY PiecesAssumption DEF PieceLen, BlockCount

LEMMA DiskAckInv ==
  ASSUME SessionInv, DiskAck
  PROVE  SessionInv'
<1> DEFINE h == Head(events)
<1>1. /\ PeersSide /\ HubSide /\ WritesInv /\ PhaseInv /\ DiskInv /\ HubTyped
      /\ Consistent(pm) /\ HubTyped
  BY DEF SessionInv, HubSide, PeersSide, ManagerInv
<1>2. Handle("Disk")
  BY DEF DiskAck
<1>3. /\ h \in EventSet /\ h.kind = "Disk" /\ Running /\ phase # "Metadata"
      /\ UNCHANGED <<peerVars, magnetVars, paused, seed, writeQ, disk, read, sent>>
      /\ DoneIsLast' /\ EventsTrue' /\ (OnlyDisk => OnlyDisk') /\ (h.ok => h.piece \in disk)
      /\ QueuesInv' /\ events' \in Seq(EventSet)
      /\ h.piece \in OnTheWay /\ OnTheWay' = OnTheWay \ {h.piece}
      /\ Unanswered' = Unanswered - 1 /\ Unanswered \in Nat \ {0}
  BY <1>2, HandleLeaves
<1>4. h.piece \in Pieces /\ PieceLen(h.piece) \in Nat
  <2>1. h.piece \in Pieces
    BY <1>3 DEF EventSet
  <2> HIDE DEF h
  <2> QED
    BY <2>1, PieceLenTyped
<1>5. /\ UNCHANGED <<pm, owed>>
      /\ IF h.ok
         THEN /\ Confirm(h.piece)
              /\ IF AllWritten THEN Finished ELSE UNCHANGED <<phase, ended>>
         ELSE /\ ended' = "Failed"
              /\ UNCHANGED <<phase, onDisk, verifiedBytes, pendingWrites>>
  BY DEF DiskAck
<1> HIDE DEF h
<1>6. DonePieces(pm) = onDisk \cup OnTheWay /\ pendingWrites = Unanswered
  BY <1>1, <1>3 DEF WritesInv, VerifiedIsAccounted
<1>7. /\ PeersTyped' /\ TasksInv' /\ ManagerInv'
      /\ IsComplete(pm') <=> IsComplete(pm)
      /\ DonePieces(pm') = DonePieces(pm)
  <2>1. PeersTyped'
    BY <1>1, <1>3, <1>5 DEF PeersSide, PeersTyped, peerVars, magnetVars
  <2>2. TasksInv' /\ ManagerInv'
    BY <1>1, <1>3, <1>5, AskableKept DEF PeersSide, ManagerInv, BitfieldsAgree, magnetVars
  <2> QED
    BY <1>5, <2>1, <2>2
<1>8. CASE h.ok
  <2>1. /\ pendingWrites' = pendingWrites - 1 /\ onDisk' = onDisk \cup {h.piece}
        /\ verifiedBytes' = verifiedBytes + PieceLen(h.piece)
        /\ \/ AllWritten /\ Finished
           \/ ~ AllWritten /\ UNCHANGED <<phase, ended>>
    BY <1>5, <1>8 DEF Confirm
  <2>2. pendingWrites' \in Nat
    BY <1>3, <1>6, <2>1
  <2>3. /\ phase' \in {phase, "Seed"} /\ phase' \in Phases /\ ended' \in Endings
        /\ phase' = "Seed" => (IsComplete(pm) /\ pendingWrites' = 0) \/ phase = "Seed"
        /\ Running' /\ phase' = "Download" => ~ AllWritten
    BY <1>1, <2>1 DEF HubTyped, Finished, AllWritten, Phases, Endings, Running
  <2>4. HubTyped'
    BY <1>1, <1>3, <1>4, <2>1, <2>2, <2>3 DEF HubTyped, QueuesInv
  <2>5. PhaseInv'
    <3>1. NeverStuckComplete'
      BY <1>7, <2>2, <2>3 DEF NeverStuckComplete, AllWritten
    <3>2. phase' = "Seed" => IsComplete(pm')
      BY <1>1, <1>7, <2>3 DEF PhaseInv
    <3>3. phase' = "Download" => sent' = NumPieces + 1 /\ OnlyDisk'
      BY <1>1, <1>3, <2>3 DEF PhaseInv
    <3> QED
      BY <1>3, <3>1, <3>2, <3>3 DEF PhaseInv
  <2>6. DiskInv'
    BY <1>1, <1>3, <1>8, <2>1 DEF DiskInv, OnDiskTruth
  <2>7. WritesInv'
    <3>1. onDisk' \cup OnTheWay' = onDisk \cup OnTheWay
      BY <1>3, <2>1
    <3>2. pendingWrites' = Unanswered'
      BY <1>3, <1>6, <2>1
    <3> QED
      BY <1>3, <1>6, <1>7, <3>1, <3>2 DEF WritesInv, VerifiedIsAccounted
  <2>8. MagnetInv'
    BY <1>1, <1>3, <2>3 DEF PeersSide, MagnetInv, magnetVars
  <2> QED
    BY <1>7, <2>4, <2>5, <2>6, <2>7, <2>8 DEF SessionInv, PeersSide, HubSide
<1>9. CASE ~ h.ok
  <2>1. ~ Running' /\ ended' \in Endings /\ UNCHANGED <<phase, onDisk, verifiedBytes, pendingWrites>>
    BY <1>5, <1>9 DEF Running, Endings
  <2>2. HubTyped'
    BY <1>1, <1>3, <2>1 DEF HubTyped, QueuesInv
  <2>3. PhaseInv'
    BY <1>1, <1>3, <1>7, <2>1 DEF PhaseInv, NeverStuckComplete
  <2>4. DiskInv'
    BY <1>1, <1>3, <2>1 DEF DiskInv, OnDiskTruth
  <2>5. WritesInv'
    BY <1>3, <2>1 DEF WritesInv, VerifiedIsAccounted
  <2>6. MagnetInv'
    BY <1>1, <1>3, <2>1 DEF PeersSide, MagnetInv, magnetVars
  <2> QED
    BY <1>7, <2>2, <2>3, <2>4, <2>5, <2>6 DEF SessionInv, PeersSide, HubSide
<1> QED
  BY <1>8, <1>9

LEMMA RecheckVerdictInv ==
  ASSUME SessionInv, RecheckVerdict
  PROVE  SessionInv'
<1> DEFINE h == Head(events)
<1>1. /\ PeersSide /\ HubSide /\ WritesInv /\ PhaseInv /\ DiskInv /\ HubTyped /\ Consistent(pm)
      /\ PeersTyped /\ TasksInv /\ ManagerInv /\ MagnetInv
  BY DEF SessionInv, HubSide, PeersSide, ManagerInv
<1>2. Handle("Recheck")
  BY DEF RecheckVerdict
<1>3. /\ h \in EventSet /\ Running /\ phase # "Metadata"
      /\ UNCHANGED <<peerVars, magnetVars, paused, seed, writeQ, disk, read, sent>>
      /\ DoneIsLast' /\ EventsTrue' /\ ~ OnlyDisk /\ (h.ok => h.piece \in disk)
      /\ QueuesInv' /\ events' \in Seq(EventSet)
      /\ OnTheWay' = OnTheWay /\ Unanswered' = Unanswered
  BY <1>2, HandleLeaves
<1>4. h.piece \in Pieces /\ PieceLen(h.piece) \in Nat
  <2>1. h.piece \in Pieces
    BY <1>3 DEF EventSet
  <2> HIDE DEF h
  <2> QED
    BY <2>1, PieceLenTyped
<1>5. UNCHANGED <<owed, phase, pendingWrites, ended>>
  BY DEF RecheckVerdict
<1>6. DonePieces(pm) = onDisk \cup OnTheWay /\ pendingWrites = Unanswered
  BY <1>1, <1>3 DEF WritesInv, VerifiedIsAccounted
<1>7. /\ Consistent(pm') /\ pm'.inFlight = pm.inFlight /\ pm'.known = pm.known /\ pm'.has = pm.has
      /\ \/ /\ h.ok /\ DonePieces(pm') = DonePieces(pm) \cup {h.piece}
            /\ onDisk' = onDisk \cup {h.piece} /\ verifiedBytes' = verifiedBytes + PieceLen(h.piece)
         \/ DonePieces(pm') = DonePieces(pm) /\ UNCHANGED <<onDisk, verifiedBytes>>
  BY <1>1, <1>4, VerifiedConsistent, VerifiedLeaves DEF RecheckVerdict, Found
<1> HIDE DEF h
<1>8. PeersTyped' /\ MagnetInv'
  <2>1. pm' \in PMs
    BY <1>7, InFlightTyped
  <2> QED
    BY <1>1, <1>3, <1>5, <1>7, <2>1 DEF PeersTyped, MagnetInv, peerVars, magnetVars
<1>9. ManagerInv' /\ TasksInv'
  BY <1>1, <1>3, <1>7, AskableKept DEF ManagerInv, BitfieldsAgree, magnetVars
<1>10. HubTyped'
  <2>1. onDisk' \subseteq Pieces /\ verifiedBytes' \in Nat
    BY <1>1, <1>4, <1>7 DEF HubTyped
  <2> QED
    BY <1>1, <1>3, <1>5, <2>1 DEF HubTyped, QueuesInv
<1>11. PhaseInv'
  <2>1. IsComplete(pm) => IsComplete(pm')
    BY <1>1, <1>4, <1>7, CompleteIsAll
  <2>2. phase' # "Download"
    BY <1>1, <1>3, <1>5 DEF PhaseInv
  <2> QED
    BY <1>1, <1>3, <1>5, <2>1, <2>2 DEF PhaseInv, NeverStuckComplete
<1>12. DiskInv'
  BY <1>1, <1>3, <1>7 DEF DiskInv, OnDiskTruth
<1>13. WritesInv'
  <2>1. DonePieces(pm') = onDisk' \cup OnTheWay'
    BY <1>3, <1>6, <1>7
  <2> QED
    BY <1>3, <1>5, <1>6, <2>1 DEF WritesInv, VerifiedIsAccounted
<1> QED
  BY <1>8, <1>9, <1>10, <1>11, <1>12, <1>13 DEF SessionInv, PeersSide, HubSide

\* The links are refilled whether the hub was told to or the recheck is done.
LEMMA RefillAllKeeps ==
  ASSUME SessionInv, UNCHANGED <<peerVars, magnetVars>>, phase' # "Metadata" \/ phase' = phase,
         Becomes(RefillAll([pm |-> pm, owed |-> owed])),
         UNCHANGED <<sent, events, writeQ>> \/ phase' # "Metadata"
  PROVE  PeersSide' /\ Consistent(pm) /\ Asked(pm, pm')
<1>1. PeersTyped /\ TasksInv /\ ManagerInv /\ MagnetInv /\ Consistent(pm)
  BY DEF SessionInv, PeersSide, ManagerInv
<1>2. /\ Bounded(pm.inFlight, Askable') /\ owed \in [Peers -> SUBSET Blocks]
      /\ links \subseteq Peers /\ linkHas' \in [Peers -> SUBSET Pieces]
  BY <1>1, AskableKept DEF ManagerInv, PeersTyped
<1>3. pm' \in PMs /\ owed' \in [Peers -> SUBSET Blocks] /\ Asked(pm, pm')
  BY <1>1, <1>2, RefillAllLeaves
<1>4. PeersTyped'
  BY <1>1, <1>3 DEF PeersTyped, peerVars, magnetVars
<1>5. MagnetInv'
  BY <1>1, <1>3 DEF MagnetInv, Asked, magnetVars
<1>6. ManagerInv' /\ TasksInv'
  BY <1>1, <1>3, AskableKept DEF ManagerInv, BitfieldsAgree, Asked, magnetVars
<1> QED
  BY <1>1, <1>3, <1>4, <1>5, <1>6 DEF PeersSide

LEMMA RecheckDoneInv ==
  ASSUME SessionInv, RecheckDone
  PROVE  SessionInv'
<1>1. /\ HubSide /\ WritesInv /\ PhaseInv /\ DiskInv /\ HubTyped
  BY DEF SessionInv, HubSide
<1>2. Handle("RecheckDone")
  BY DEF RecheckDone
<1>3. /\ Running /\ phase # "Metadata"
      /\ UNCHANGED <<peerVars, magnetVars, paused, seed, writeQ, disk, read, sent>>
      /\ DoneIsLast' /\ EventsTrue' /\ OnlyDisk' /\ sent = NumPieces + 1
      /\ QueuesInv' /\ events' \in Seq(EventSet)
      /\ OnTheWay' = OnTheWay /\ Unanswered' = Unanswered
  BY <1>2, HandleLeaves
<1>4. /\ phase' = AfterRecheck /\ UNCHANGED <<onDisk, verifiedBytes, pendingWrites>>
      /\ ended' \in {ended, "Completed"}
      /\ Becomes(RefillAll([pm |-> pm, owed |-> owed]))
  BY DEF RecheckDone
<1>5. phase' \in {"Seed", "Download"} /\ (phase' = "Seed" <=> IsComplete(pm))
  BY <1>4 DEF AfterRecheck
<1>6. PeersSide' /\ Consistent(pm) /\ Asked(pm, pm')
  BY <1>3, <1>4, <1>5, RefillAllKeeps
<1>7. Consistent(pm') /\ DonePieces(pm') = DonePieces(pm)
  BY <1>6 DEF Asked
<1>8. IsComplete(pm') <=> IsComplete(pm)
  BY <1>6, <1>7, CompleteIsAll
<1>9. HubTyped'
  BY <1>1, <1>3, <1>4, <1>5 DEF HubTyped, QueuesInv, Phases, Endings
<1>10. PhaseInv'
  BY <1>3, <1>5, <1>8 DEF PhaseInv, NeverStuckComplete
<1>11. DiskInv'
  BY <1>1, <1>3, <1>4 DEF DiskInv, OnDiskTruth
<1>12. WritesInv'
  BY <1>1, <1>3, <1>4, <1>7 DEF WritesInv, VerifiedIsAccounted
<1> QED
  BY <1>6, <1>9, <1>10, <1>11, <1>12 DEF SessionInv, HubSide

(***************************************************************************)
(* The owner.                                                              *)
(***************************************************************************)
LEMMA OwnerInv ==
  ASSUME SessionInv, OwnerStep
  PROVE  SessionInv'
<1>1. PeersSide /\ HubSide /\ HubTyped /\ Consistent(pm)
  BY DEF SessionInv, PeersSide, HubSide, ManagerInv
<1>2. /\ OthersUnchanged /\ paused' \in BOOLEAN
      /\ ended' \in {ended} \cup (Endings \ {"no"})
      /\ Becomes(RefillAll([pm |-> pm, owed |-> owed])) \/ UNCHANGED <<pm, owed>>
  BY <1>1 DEF HubTyped, OwnerStep, Pause, Resume, Shutdown, IdleTimeout, Endings
<1>3. /\ UNCHANGED <<peerVars, magnetVars, phase, seed, onDisk, verifiedBytes, pendingWrites, taskVars>>
      /\ UNCHANGED <<sent, events, writeQ>>
  BY <1>2 DEF OthersUnchanged, taskVars
<1>4. PeersSide' /\ Consistent(pm') /\ DonePieces(pm') = DonePieces(pm)
  <2>1. CASE Becomes(RefillAll([pm |-> pm, owed |-> owed]))
    BY <1>3, <2>1, RefillAllKeeps DEF Asked
  <2>2. CASE UNCHANGED <<pm, owed>>
    <3>1. PeersTyped' /\ MagnetInv'
      BY <1>1, <1>3, <2>2 DEF PeersSide, PeersTyped, MagnetInv, peerVars, magnetVars
    <3>2. ManagerInv' /\ TasksInv'
      BY <1>1, <1>3, <2>2, AskableKept DEF PeersSide, ManagerInv, BitfieldsAgree, magnetVars
    <3> QED
      BY <1>1, <2>2, <3>1, <3>2 DEF PeersSide
  <2> QED
    BY <1>2, <2>1, <2>2
<1>5. HubSide'
  BY <1>1, <1>2, <1>3, <1>4, HubKeeps
<1> QED
  BY <1>4, <1>5 DEF SessionInv

LEMMA NextInv == SessionInv /\ [Next]_vars => SessionInv'
<1> SUFFICES ASSUME SessionInv, [Next]_vars PROVE SessionInv'
  OBVIOUS
<1>1. CASE PeerStep
  <2>1. ASSUME NEW peer \in Peers, Dial(peer) \/ Accept(peer)  PROVE SessionInv'
    BY <2>1, ConnectedInv
  <2>2. ASSUME NEW peer \in Peers, NEW bf \in SUBSET Pieces, RecvBitfield(peer, bf)
        PROVE  SessionInv'
    BY <2>2, RecvBitfieldInv
  <2>8. ASSUME NEW peer \in Peers, NEW bf \in Wire, KeepRaw(peer, bf)
        PROVE  SessionInv'
    BY <2>8, KeepRawInv
  <2>9. ASSUME NEW peer \in Peers, RefuseBitfield(peer)  PROVE SessionInv'
    BY <2>9, RefuseBitfieldInv
  <2>3. ASSUME NEW peer \in Peers, NEW p \in Pieces, RecvHave(peer, p)  PROVE SessionInv'
    BY <2>3, RecvHaveInv
  <2>4. ASSUME NEW peer \in Peers, RecvChoke(peer)  PROVE SessionInv'
    BY <2>4, RecvChokeInv
  <2>5. ASSUME NEW peer \in Peers, RecvUnchoke(peer)  PROVE SessionInv'
    BY <2>5, RecvUnchokeInv
  <2>6. ASSUME NEW peer \in Peers, NEW k \in Blocks, NEW kind \in MessageKinds,
               RecvBlock(peer, k, kind)
        PROVE  SessionInv'
    BY <2>6, RecvBlockInv
  <2>7. ASSUME NEW peer \in Peers, Disconnected(peer)  PROVE SessionInv'
    BY <2>7, DisconnectedInv
  <2> QED
    BY <1>1, <2>1, <2>2, <2>3, <2>4, <2>5, <2>6, <2>7, <2>8, <2>9 DEF PeerStep
<1>2. CASE MagnetStep
  <2>1. ASSUME NEW peer \in Peers, NEW total \in 1 .. MaxDeclared, ExtHandshake(peer, total)
        PROVE  SessionInv'
    BY <2>1, ExtHandshakeInv
  <2>2. ASSUME NEW peer \in Peers, NEW good \in BOOLEAN, MetadataPiece(peer, good)
        PROVE  SessionInv'
    BY <2>2, MetadataPieceInv
  <2>3. ASSUME NEW peer \in Peers, MetadataFailed(peer)  PROVE SessionInv'
    BY <2>3, MetadataFailedInv
  <2> QED
    BY <1>2, <2>1, <2>2, <2>3 DEF MagnetStep
<1>3. CASE TaskStep
  <2>1. ASSUME NEW ok \in BOOLEAN, WritePiece(ok)  PROVE SessionInv'
    BY <2>1, WritePieceInv
  <2>2. ASSUME NEW p \in Pieces, RecheckRead(p)  PROVE SessionInv'
    BY <2>2, RecheckReadInv
  <2>3. RecheckSend \/ DiskAck \/ RecheckVerdict \/ RecheckDone => SessionInv'
    BY RecheckSendInv, DiskAckInv, RecheckVerdictInv, RecheckDoneInv
  <2> QED
    BY <1>3, <2>1, <2>2, <2>3 DEF TaskStep
<1>4. CASE OwnerStep
  BY <1>4, OwnerInv
<1>5. CASE UNCHANGED vars
  <2>1. PeersTyped' /\ MagnetInv'
    BY <1>5 DEF SessionInv, PeersSide, PeersTyped, MagnetInv, vars, peerVars, magnetVars, taskVars
  <2>3. ManagerInv' /\ TasksInv'
    BY <1>5, AskableKept DEF SessionInv, PeersSide, ManagerInv, BitfieldsAgree, vars, magnetVars
  <2>2. HubSide'
    BY <1>5, HubKeeps
       DEF SessionInv, PeersSide, ManagerInv, HubSide, HubTyped, vars, taskVars
  <2> QED
    BY <2>1, <2>2, <2>3 DEF SessionInv, PeersSide
<1> QED
  BY <1>1, <1>2, <1>3, <1>4, <1>5 DEF Next

\* What every reachable state of a session satisfies.
THEOREM SessionInvariant == Spec => []SessionInv
<1>1. Init => SessionInv
  BY InitInv
<1>2. SessionInv /\ [Next]_vars => SessionInv'
  BY NextInv
<1> QED
  BY <1>1, <1>2, PTL DEF Spec

(***************************************************************************)
(* What follows from it.                                                   *)
(***************************************************************************)

\* The hub's state is well typed in every session, with any number of peers,
\* pieces and blocks: no counter goes below zero, no index leaves the torrent.
THEOREM SessionTyped == Spec => []TypeOK
<1>1. SessionInv => TypeOK
  BY DEF SessionInv, PeersSide, HubSide, PeersTyped, TasksInv, HubTyped, TypeOK, EventSet
<1> QED
  BY <1>1, SessionInvariant, PTL

\* What the hub advertises is in the files with the right bytes, whatever the
\* recheck reads while the writer writes and whichever writes fail.
THEOREM AdvertisedIsOnDisk == Spec => []OnDiskTruth
<1>1. SessionInv => OnDiskTruth
  BY DEF SessionInv, HubSide, DiskInv
<1> QED
  BY <1>1, SessionInvariant, PTL

\* A verified piece is on the disk, queued for the writer or answered for: none
\* is lost between the manager and the writer.
THEOREM NoPieceLost == Spec => []VerifiedIsAccounted
<1>1. SessionInv => VerifiedIsAccounted
  BY DEF SessionInv, HubSide, WritesInv
<1> QED
  BY <1>1, SessionInvariant, PTL

\* The counter whose zero ends the download is the number of writes without an
\* answer, and no piece is written twice.
THEOREM WritesCounted == Spec => []PendingWritesExact
<1>1. SessionInv => PendingWritesExact
  BY DEF SessionInv, HubSide, WritesInv, QueuesInv, Unanswered, PendingWritesExact
<1> QED
  BY <1>1, SessionInvariant, PTL

\* A session that downloads and has every piece still waits for a write, whose
\* answer will end it.
THEOREM EndIsSeen == Spec => []NeverStuckComplete
<1>1. SessionInv => NeverStuckComplete
  BY DEF SessionInv, HubSide, PhaseInv
<1> QED
  BY <1>1, SessionInvariant, PTL

\* However the loops over the links run and connections of one peer overlap, no
\* peer is asked for more than the pipeline holds, and a link that chokes us holds
\* requests only of a connection it replaced and that has not reported its end.
THEOREM PipelineKept == Spec => []RequestsWithinPipeline
<1>1. SessionInv => RequestsWithinPipeline
  BY DEF SessionInv, PeersSide, ManagerInv, Bounded, Askable, RequestsWithinPipeline
<1> QED
  BY <1>1, SessionInvariant, PTL

\* Manager and link hold the same bitfield of a peer, also when it came before the
\* torrent was known, as soon as every connection that the link replaced or lost
\* has reported its end; and the manager knows no peer whose last one has.
THEOREM BitfieldsKept == Spec => []BitfieldsAgree
<1>1. SessionInv => BitfieldsAgree
  BY DEF SessionInv, PeersSide, ManagerInv
<1> QED
  BY <1>1, SessionInvariant, PTL

(***************************************************************************)
(* Steps.                                                                  *)
(***************************************************************************)

LEMMA PausedStep ==
  ASSUME SessionInv, Next, paused, paused'
  PROVE  \A q \in Peers : pm'.inFlight[q] \subseteq pm.inFlight[q]
<1> DEFINE Fewer == \A q \in Peers : pm'.inFlight[q] \subseteq pm.inFlight[q]
<1>1. Consistent(pm) /\ pm.inFlight \in [Peers -> SUBSET Blocks]
  BY InFlightTyped DEF SessionInv, PeersSide, ManagerInv
<1>2. pm'.inFlight = pm.inFlight => Fewer
  OBVIOUS
<1>3. CASE PeerStep
  <2>1. ASSUME NEW peer \in Peers, Dial(peer) \/ Accept(peer)  PROVE Fewer
    BY <2>1 DEF Dial, Accept, Register
  <2>2. ASSUME NEW peer \in Peers, NEW bf \in SUBSET Pieces, RecvBitfield(peer, bf)
        PROVE  Fewer
    BY <1>2, <2>2, RecvBitfieldLeaves
  <2>8. ASSUME NEW peer \in Peers, RefuseBitfield(peer) \/ \E bf \in Wire : KeepRaw(peer, bf)
        PROVE  Fewer
    BY <2>8 DEF KeepRaw, RefuseBitfield
  <2>3. ASSUME NEW peer \in Peers, NEW p \in Pieces, RecvHave(peer, p)  PROVE Fewer
    BY <1>1, <1>2, <2>3, HaveLeaves DEF RecvHave
  <2>4. ASSUME NEW peer \in Peers, RecvChoke(peer)  PROVE Fewer
    <3>1. pm'.inFlight = [pm.inFlight EXCEPT ![peer] = {}]
      BY <1>1, <2>4, ReleaseLeaves DEF RecvChoke
    <3> QED
      BY <1>1, <3>1
  <2>5. ASSUME NEW peer \in Peers, RecvUnchoke(peer)  PROVE Fewer
    BY <1>2, <2>5, RecvUnchokeLeaves DEF Asked
  <2>6. ASSUME NEW peer \in Peers, NEW k \in Blocks, NEW kind \in MessageKinds,
               RecvBlock(peer, k, kind)
        PROVE  Fewer
    <3> DEFINE m == OnBlockReceived(pm, peer, k, kind).pm
    <3>1. Asked(m, pm')
      BY <2>6, RecvBlockLeaves
    <3>2. \A q \in Peers : m.inFlight[q] \subseteq pm.inFlight[q]
      BY <1>1, BlockKeeps
    <3> HIDE DEF m
    <3> QED
      BY <3>1, <3>2 DEF Asked
  <2>7. ASSUME NEW peer \in Peers, Disconnected(peer)  PROVE Fewer
    <3>1. pm'.inFlight = [pm.inFlight EXCEPT ![peer] = {}]
      BY <1>1, <2>7, DisconnectedLeaves DEF Disconnected, Forget
    <3> QED
      BY <1>1, <3>1
  <2> QED
    BY <1>3, <2>1, <2>2, <2>3, <2>4, <2>5, <2>6, <2>7, <2>8 DEF PeerStep
<1>4. CASE MagnetStep
  <2>1. ASSUME NEW peer \in Peers, NEW total \in 1 .. MaxDeclared, ExtHandshake(peer, total)
        PROVE  Fewer
    BY <2>1 DEF ExtHandshake
  <2>2. ASSUME NEW peer \in Peers, NEW good \in BOOLEAN, MetadataPiece(peer, good)
        PROVE  Fewer
    <3>1. UNCHANGED pm \/ (~ HasTorrent /\ MetadataComplete)
      BY <2>2 DEF MetadataPiece, InMetadata
    <3> QED
      BY <1>2, <3>1, MetadataCompleteLeaves
  <2>3. ASSUME NEW peer \in Peers, MetadataFailed(peer)  PROVE Fewer
    BY <2>3 DEF MetadataFailed
  <2> QED
    BY <1>4, <2>1, <2>2, <2>3 DEF MagnetStep
<1>5. CASE TaskStep
  <2>1. ASSUME NEW ok \in BOOLEAN, WritePiece(ok)  PROVE Fewer
    BY <2>1 DEF WritePiece
  <2>2. ASSUME NEW p \in Pieces, RecheckRead(p)  PROVE Fewer
    BY <2>2 DEF RecheckRead
  <2>3. RecheckSend \/ DiskAck => Fewer
    BY DEF RecheckSend, DiskAck
  <2>4. ASSUME RecheckVerdict  PROVE Fewer
    <3>1. Head(events).piece \in Pieces
      BY <2>4, HandleLeaves DEF RecheckVerdict, EventSet
    <3> QED
      BY <1>1, <1>2, <2>4, <3>1, VerifiedLeaves DEF RecheckVerdict, Found
  <2>5. ASSUME RecheckDone  PROVE Fewer
    <3>1. phase' # "Metadata" /\ UNCHANGED <<peerVars, magnetVars>>
      BY <2>5 DEF RecheckDone, AfterRecheck, Handle
    <3>2. Asked(pm, pm')
      BY <2>5, <3>1, RefillAllKeeps DEF RecheckDone
    <3> QED
      BY <1>2, <3>2 DEF Asked
  <2> QED
    BY <1>5, <2>1, <2>2, <2>3, <2>4, <2>5 DEF TaskStep
<1>6. CASE OwnerStep
  BY <1>6 DEF OwnerStep, Pause, Resume, Shutdown, IdleTimeout
<1> QED
  BY <1>3, <1>4, <1>5, <1>6 DEF Next

\* While paused no handler issues a request, whatever arrives: bitfields, blocks,
\* verdicts, the end of the recheck.
THEOREM PauseAsksNothing == Spec => PausedAsksNothing
<1>1. SessionInv /\ [Next]_vars =>
        [paused /\ paused' =>
           \A peer \in Peers : pm'.inFlight[peer] \subseteq pm.inFlight[peer]]_vars
  BY PausedStep
<1> QED
  BY <1>1, SessionInvariant, PTL DEF Spec, PausedAsksNothing

LEMMA HandedOverStep ==
  ASSUME SessionInv, Next, ~ HasTorrent, HasTorrent'
  PROVE  \A peer \in links :
           /\ collector'[peer] = NoCollector
           /\ raw[peer] \subseteq {Malformed} => peer \notin pm'.known /\ linkHas'[peer] = {}
           /\ ~ raw[peer] \subseteq {Malformed} =>
                peer \in pm'.known /\ raw[peer] = {linkHas'[peer]}
<1>1. ~ PeerStep /\ ~ OwnerStep
  BY DEF PeerStep, OwnerStep, Dial, Accept, Register, BitfieldComes, KeepRaw, RecvBitfield,
         RefuseBitfield, RecvHave, RecvChoke, RecvUnchoke, RecvBlock, Disconnected, Pause, Resume, Shutdown, IdleTimeout, OthersUnchanged,
         UNCHANGED_HUB, HasTorrent
<1>2. ~ TaskStep
  <2>1. events = <<>> /\ writeQ = <<>>
    BY DEF SessionInv, PeersSide, MagnetInv, HasTorrent
  <2> QED
    BY <2>1 DEF TaskStep, WritePiece, NextWrite, RecheckRead, RecheckSend, DiskAck,
                RecheckVerdict, RecheckDone, Handle
<1>3. PICK peer \in Peers, good \in BOOLEAN : MetadataPiece(peer, good)
  BY <1>1, <1>2 DEF Next, MagnetStep, ExtHandshake, MetadataFailed, HasTorrent
<1>4. MetadataComplete
  BY <1>3 DEF MetadataPiece, HasTorrent
<1>5. /\ pm'.known = Replayed
      /\ \A q \in Replayed : raw[q] = {linkHas'[q]}
  BY <1>4, MetadataCompleteLeaves
<1>6. links \subseteq Peers
  BY DEF SessionInv, PeersSide, PeersTyped
<1> QED
  BY <1>4, <1>5, <1>6 DEF MetadataComplete, Replayed

\* The step that gets the torrent leaves no collector, and every early bitfield
\* reaches manager and link if it fits and neither if not, whatever the order of
\* the hash map.
THEOREM HandedOver == Spec => MetadataHandedOver
<1>1. SessionInv /\ [Next]_vars =>
        [~ HasTorrent /\ HasTorrent' =>
           \A peer \in links :
             /\ collector'[peer] = NoCollector
             /\ raw[peer] \subseteq {Malformed} => peer \notin pm'.known /\ linkHas'[peer] = {}
             /\ ~ raw[peer] \subseteq {Malformed} =>
                  peer \in pm'.known /\ raw[peer] = {linkHas'[peer]}]_vars
  BY HandedOverStep
<1> QED
  BY <1>1, SessionInvariant, PTL DEF Spec, MetadataHandedOver

(***************************************************************************)
(* The session implements Download.  A step that touches neither what the  *)
(* hub has nor the queues of the disk stutters; the others are one step of *)
(* Download each.                                                          *)
(***************************************************************************)

LEMMA QuietStutters ==
  ASSUME UNCHANGED <<onDisk, writeQ, events, disk, ended>> PROVE UNCHANGED D!vars
  BY DEF D!vars, OnTheWay, Acks

LEMMA BlockImplements ==
  ASSUME SessionInv, NEW peer \in Peers, NEW k \in Blocks, NEW kind, RecvBlock(peer, k, kind)
  PROVE  [D!Next]_(D!vars)
<1> DEFINE res == OnBlockReceived(pm, peer, k, kind)
<1>1. Consistent(pm) /\ QueuesInv /\ VerifiedIsAccounted
  BY DEF SessionInv, PeersSide, HubSide, ManagerInv, WritesInv
<1>2. res.event = "PieceCompleted" => k[1] \notin DonePieces(pm)
  BY <1>1, BlockLeaves
<1>3. Running /\ UNCHANGED <<onDisk, events, disk, ended>>
  BY DEF RecvBlock
<1>4. IF res.event = "PieceCompleted" THEN SendToWriter(k[1]) ELSE UNCHANGED <<pendingWrites, writeQ>>
  BY DEF RecvBlock
<1> HIDE DEF res
<1>5. CASE res.event # "PieceCompleted"
  BY <1>3, <1>4, <1>5, QuietStutters
<1>6. CASE res.event = "PieceCompleted"
  <2> DEFINE p == k[1]
  <2>1. p \in Pieces /\ writeQ' = Append(writeQ, p)
    BY <1>4, <1>6, PieceFacts DEF SendToWriter
  <2>2. p \notin onDisk \cup OnTheWay
    BY <1>1, <1>2, <1>3, <1>6 DEF VerifiedIsAccounted
  <2> HIDE DEF p
  <2>3. OnTheWay' = OnTheWay \cup {p}
    BY <1>1, <1>3, <2>1, <2>2, QueueSend
  <2>4. D!Accept(p)
    BY <1>3, <2>2, <2>3 DEF D!Accept, D!Running, Running
  <2> QED
    BY <2>1, <2>4 DEF D!Next
<1> QED
  BY <1>5, <1>6

LEMMA WriteImplements ==
  ASSUME SessionInv, NEW ok \in BOOLEAN, WritePiece(ok)
  PROVE  [D!Next]_(D!vars)
<1> DEFINE p == Head(writeQ)
           e == Outcome(p, ok)
<1>1. QueuesInv /\ writeQ \in Seq(Pieces)
  BY DEF SessionInv, HubSide, WritesInv, QueuesInv
<1>2. /\ writeQ # <<>> /\ writeQ' = Tail(writeQ) /\ events' = Append(events, e)
      /\ disk' = IF ok THEN disk \cup {p} ELSE disk
      /\ UNCHANGED <<onDisk, ended>>
  BY DEF WritePiece, NextWrite
<1>3. p \in Pieces
  BY <1>1, <1>2, HeadTailProperties
<1>4. e \in EventSet /\ e.kind = "Disk" /\ e.piece = p
  BY <1>3 DEF Outcome, Event, EventSet
<1> HIDE DEF e
<1>5. OnTheWay' = OnTheWay
  BY <1>1, <1>2, <1>4, QueueWrite
<1>6. p \in OnTheWay
  <2>1. /\ OnTheWay = {writeQ[i] : i \in 1 .. Len(writeQ)} \cup {events[i].piece : i \in Acks}
        /\ Len(writeQ) \in Nat
    BY <1>1, QueueFacts DEF QueuesInv
  <2>2. p = writeQ[1] /\ Len(writeQ) # 0
    BY <1>1, <1>2, HeadTailProperties, EmptySeq
  <2>3. 1 \in 1 .. Len(writeQ)
    BY <2>1, <2>2
  <2> QED
    BY <2>1, <2>2, <2>3
<1> HIDE DEF p
<1>7. CASE ok
  <2>1. D!Write(p)
    BY <1>2, <1>5, <1>6, <1>7 DEF D!Write
  <2> QED
    BY <1>3, <2>1 DEF D!Next
<1>8. CASE ~ ok
  BY <1>2, <1>5, <1>8 DEF D!vars
<1> QED
  BY <1>7, <1>8

LEMMA SendImplements ==
  ASSUME SessionInv, RecheckSend
  PROVE  UNCHANGED D!vars
<1>1. QueuesInv
  BY DEF SessionInv, HubSide, WritesInv
<1>2. sent <= NumPieces /\ sent \in Nat
  BY HubParts DEF RecheckSend, SessionInv
<1>3. PICK e \in EventSet : e.kind # "Disk" /\ events' = Append(events, e)
  <2>1. CASE sent = NumPieces
    <3>1. Event("RecheckDone", 0, TRUE) \in EventSet /\ Event("RecheckDone", 0, TRUE).kind # "Disk"
      BY PiecesAssumption DEF Event, EventSet, Pieces
    <3> QED
      BY <2>1, <3>1 DEF RecheckSend
  <2>2. CASE sent # NumPieces
    <3> DEFINE e == Event("Recheck", sent, read[sent] = "ok")
    <3>1. sent \in Pieces
      BY <1>2, <2>2, PiecesAssumption DEF Pieces
    <3>2. e \in EventSet /\ e.kind # "Disk"
      BY <3>1 DEF Event, EventSet
    <3>3. events' = Append(events, e)
      BY <2>2 DEF RecheckSend
    <3> HIDE DEF e
    <3> QED
      BY <3>2, <3>3
  <2> QED
    BY <2>1, <2>2
<1>4. UNCHANGED <<onDisk, writeQ, disk, ended>>
  BY DEF RecheckSend
<1>5. OnTheWay' = OnTheWay
  BY <1>1, <1>3, <1>4, QueueVerdict
<1> QED
  BY <1>4, <1>5 DEF D!vars

LEMMA AckImplements ==
  ASSUME SessionInv, DiskAck
  PROVE  [D!Next]_(D!vars)
<1> DEFINE h == Head(events)
           p == h.piece
<1>1. Consistent(pm) /\ WritesInv /\ QueuesInv
  BY DEF SessionInv, PeersSide, HubSide, ManagerInv, WritesInv
<1>2. /\ h \in EventSet /\ Running /\ UNCHANGED <<disk, seed>>
      /\ (h.ok => p \in disk)
      /\ p \in OnTheWay /\ OnTheWay' = OnTheWay \ {p}
      /\ Unanswered \in Nat \ {0} /\ h.kind = "Disk"
  <2>1. Handle("Disk")
    BY DEF DiskAck
  <2> QED
    BY <2>1, HandleLeaves
<1>3. p \in Pieces
  BY <1>2 DEF EventSet
<1>4. /\ UNCHANGED <<pm, owed>>
      /\ IF h.ok
         THEN /\ Confirm(p)
              /\ IF AllWritten THEN Finished ELSE UNCHANGED <<phase, ended>>
         ELSE /\ ended' = "Failed"
              /\ UNCHANGED <<phase, onDisk, verifiedBytes, pendingWrites>>
  BY DEF DiskAck
<1> HIDE DEF h, p
<1>5. CASE h.ok
  <2>1. onDisk' = onDisk \cup {p} /\ pendingWrites' = pendingWrites - 1
    BY <1>4, <1>5 DEF Confirm
  <2>2. ended' = ended \/ (ended' = "Completed" /\ AllWritten)
    BY <1>4, <1>5 DEF Finished
  <2>3. AllWritten => onDisk' = Pieces
    <3> SUFFICES ASSUME AllWritten PROVE onDisk' = Pieces
      OBVIOUS
    <3>1. /\ DonePieces(pm) = onDisk \cup OnTheWay /\ DonePieces(pm) = Pieces
          /\ pendingWrites = Unanswered /\ Cardinality(OnTheWay) = Unanswered
      BY <1>1, <1>2, CompleteIsAll DEF AllWritten, WritesInv, QueuesInv, VerifiedIsAccounted
    <3>2. Cardinality(OnTheWay) = 1
      BY <1>2, <2>1, <3>1 DEF AllWritten
    <3>3. IsFiniteSet(OnTheWay)
      BY <1>1, QueueFacts DEF QueuesInv
    <3>4. OnTheWay = {p}
      <4>1. \E x : OnTheWay = {x}
        BY <3>2, <3>3, FS_Singleton
      <4> QED
        BY <1>2, <4>1
    <3> QED
      BY <2>1, <3>1, <3>4
  <2>4. D!Confirm(p)
    BY <1>2, <1>5, <2>1, <2>2, <2>3 DEF D!Confirm, D!Running, Running
  <2> QED
    BY <1>3, <2>4 DEF D!Next
<1>6. CASE ~ h.ok
  <2>1. D!Fail(p)
    BY <1>2, <1>4, <1>6 DEF D!Fail, D!Running, Running
  <2> QED
    BY <1>3, <2>1 DEF D!Next
<1> QED
  BY <1>5, <1>6

LEMMA VerdictImplements ==
  ASSUME SessionInv, RecheckVerdict
  PROVE  [D!Next]_(D!vars)
<1> DEFINE h == Head(events)
           p == h.piece
<1>1. /\ h \in EventSet /\ Running /\ UNCHANGED disk
      /\ (h.ok => p \in disk) /\ OnTheWay' = OnTheWay
  <2>1. Handle("Recheck")
    BY DEF RecheckVerdict
  <2> QED
    BY <2>1, HandleLeaves
<1>2. p \in Pieces
  BY <1>1 DEF EventSet
<1>3. /\ UNCHANGED ended
      /\ IF h.ok THEN onDisk' = onDisk \cup {p} ELSE UNCHANGED onDisk
  BY DEF RecheckVerdict, Found
<1> HIDE DEF h, p
<1>4. CASE h.ok
  <2>1. D!Find(p)
    BY <1>1, <1>3, <1>4 DEF D!Find, D!Running, Running
  <2> QED
    BY <1>2, <2>1 DEF D!Next
<1>5. CASE ~ h.ok
  BY <1>1, <1>3, <1>5 DEF D!vars
<1> QED
  BY <1>4, <1>5

LEMMA DoneImplements ==
  ASSUME SessionInv, RecheckDone
  PROVE  [D!Next]_(D!vars)
<1>1. Consistent(pm) /\ VerifiedIsAccounted
  BY DEF SessionInv, PeersSide, HubSide, ManagerInv, WritesInv
<1>2. Running /\ UNCHANGED disk /\ OnTheWay' = OnTheWay
  <2>1. Handle("RecheckDone")
    BY DEF RecheckDone
  <2> QED
    BY <2>1, HandleLeaves
<1>3. /\ UNCHANGED onDisk /\ phase' = AfterRecheck
      /\ ended' = IF phase' = "Seed" /\ ~ seed THEN "Completed" ELSE ended
  BY DEF RecheckDone
<1>4. CASE ended' = ended
  BY <1>2, <1>3, <1>4 DEF D!vars
<1>5. CASE ended' # ended
  <2>1. ended' = "Completed" /\ IsComplete(pm)
    BY <1>3, <1>5 DEF AfterRecheck
  <2>2. onDisk \cup OnTheWay = Pieces
    BY <1>1, <1>2, <2>1, CompleteIsAll DEF VerifiedIsAccounted
  <2>3. D!End
    BY <1>2, <1>3, <2>1, <2>2 DEF D!End, D!Running, Running
  <2> QED
    BY <2>3 DEF D!Next
<1> QED
  BY <1>4, <1>5

LEMMA OwnerImplements ==
  ASSUME OwnerStep
  PROVE  [D!Next]_(D!vars)
<1>1. UNCHANGED <<onDisk, writeQ, events, disk>>
  BY DEF OwnerStep, Pause, Resume, Shutdown, IdleTimeout, OthersUnchanged, taskVars
<1>2. Running /\ ended' \in {ended, "Shutdown", "Idle"}
  BY DEF OwnerStep, Pause, Resume, Shutdown, IdleTimeout
<1>3. CASE ended' = ended
  BY <1>1, <1>3, QuietStutters
<1>4. CASE ended' # ended
  <2>1. UNCHANGED OnTheWay
    BY <1>1 DEF OnTheWay, Acks
  <2>2. D!End
    BY <1>1, <1>2, <1>4, <2>1 DEF D!End, D!Running, Running
  <2> QED
    BY <2>2 DEF D!Next
<1> QED
  BY <1>3, <1>4

LEMMA StepImplements ==
  SessionInv /\ [Next]_vars => [D!Next]_(D!vars)
<1> SUFFICES ASSUME SessionInv, [Next]_vars PROVE [D!Next]_(D!vars)
  OBVIOUS
<1>1. CASE PeerStep
  <2>1. ASSUME NEW peer \in Peers, Dial(peer) \/ Accept(peer) \/ Disconnected(peer)
        PROVE  UNCHANGED D!vars
    BY <2>1, QuietStutters DEF Dial, Accept, Register, Disconnected, UNCHANGED_HUB, taskVars
  <2>2. ASSUME NEW peer \in Peers, BitfieldComes(peer)
        PROVE  UNCHANGED D!vars
    BY <2>2, QuietStutters DEF BitfieldComes, UNCHANGED_HUB, taskVars
  <2>3. ASSUME NEW peer \in Peers, NEW p \in Pieces, RecvHave(peer, p)
        PROVE  UNCHANGED D!vars
    BY <2>3, QuietStutters DEF RecvHave, UNCHANGED_HUB, taskVars
  <2>4. ASSUME NEW peer \in Peers, RecvChoke(peer) \/ RecvUnchoke(peer)
        PROVE  UNCHANGED D!vars
    BY <2>4, QuietStutters DEF RecvChoke, RecvUnchoke, UNCHANGED_HUB, taskVars
  <2>5. ASSUME NEW peer \in Peers, NEW k \in Blocks, NEW kind \in MessageKinds,
               RecvBlock(peer, k, kind)
        PROVE  [D!Next]_(D!vars)
    BY <2>5, BlockImplements
  <2> QED
    BY <1>1, <2>1, <2>2, <2>3, <2>4, <2>5
       DEF PeerStep, KeepRaw, RecvBitfield, RefuseBitfield
<1>2. CASE MagnetStep
  <2>1. UNCHANGED <<onDisk, writeQ, events, disk, ended>>
    BY <1>2 DEF MagnetStep, ExtHandshake, MetadataPiece, MetadataFailed, InMetadata,
                MetadataComplete, taskVars
  <2> QED
    BY <2>1, QuietStutters
<1>3. CASE TaskStep
  <2>1. ASSUME NEW ok \in BOOLEAN, WritePiece(ok) PROVE [D!Next]_(D!vars)
    BY <2>1, WriteImplements
  <2>2. ASSUME NEW p \in Pieces, RecheckRead(p) PROVE UNCHANGED D!vars
    BY <2>2, QuietStutters DEF RecheckRead
  <2>3. RecheckSend \/ DiskAck \/ RecheckVerdict \/ RecheckDone => [D!Next]_(D!vars)
    BY SendImplements, AckImplements, VerdictImplements, DoneImplements
  <2> QED
    BY <1>3, <2>1, <2>2, <2>3 DEF TaskStep
<1>4. CASE OwnerStep
  BY <1>4, OwnerImplements
<1>5. CASE UNCHANGED vars
  BY <1>5, QuietStutters DEF vars, taskVars
<1> QED
  BY <1>1, <1>2, <1>3, <1>4, <1>5 DEF Next

\* A session implements Download: each piece is accepted once, on_disk and the
\* progress count it only when the files hold it, and session_loop returns
\* Completed only when every piece is there or in the writer's queue.
THEOREM Implements == Spec => DownloadKept
<1>1. Init => D!Init
  <2> SUFFICES ASSUME Init PROVE D!Init
    OBVIOUS
  <2>1. OnTheWay = {}
    BY DEF Init, OnTheWay, Acks, Range
  <2> QED
    BY <2>1 DEF Init, D!Init
<1> QED
  BY <1>1, StepImplements, SessionInvariant, PTL DEF Spec, DownloadKept, D!Spec
=============================================================================
