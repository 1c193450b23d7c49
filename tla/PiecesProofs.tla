---------------------------- MODULE PiecesProofs ----------------------------
(***************************************************************************)
(* Every method of the piece manager preserves Consistent, for any number  *)
(* of peers, pieces and blocks.  One lemma per method; they are about the  *)
(* operators, so both PieceManager and Session cite them.                  *)
(***************************************************************************)
EXTENDS Pieces, FiniteSetTheorems, WellFoundedInduction, TLAPS

LEMMA PieceFacts ==
  /\ IsFiniteSet(Pieces)
  /\ Pieces \subseteq Nat
  /\ \A p \in Pieces : /\ BlockCount(p) \in 1 .. PieceBlocks
                       /\ BlockIdx(p) \subseteq 0 .. PieceBlocks - 1
                       /\ 0 \in BlockIdx(p)
                       /\ <<p, 0>> \in Blocks
  /\ \A k \in Blocks : k[1] \in Pieces /\ k[2] \in BlockIdx(k[1])
<1>1. IsFiniteSet(Pieces)
  BY FS_Interval, PiecesAssumption DEF Pieces
<1>2. \A p \in Pieces : BlockCount(p) \in 1 .. PieceBlocks
  BY PiecesAssumption DEF Pieces, BlockCount
<1>3. \A p \in Pieces : BlockIdx(p) \subseteq 0 .. PieceBlocks - 1 /\ 0 \in BlockIdx(p)
  BY <1>2, PiecesAssumption DEF BlockIdx
<1>4. \A p \in Pieces : <<p, 0>> \in Blocks
  BY <1>2, PiecesAssumption DEF Blocks
<1>5. \A k \in Blocks : k[1] \in Pieces /\ k[2] \in BlockIdx(k[1])
  BY <1>2, PiecesAssumption DEF Blocks, BlockIdx, Pieces
<1> QED
  BY <1>1, <1>2, <1>3, <1>4, <1>5 DEF Pieces

\* Blocks are the pairs of a piece and one of its block indexes.
LEMMA BlockPairs ==
  /\ \A p \in Pieces : \A b \in BlockIdx(p) : b \in Nat /\ <<p, b>> \in Blocks
  /\ \A k \in Blocks : k = <<k[1], k[2]>>
<1>1. ASSUME NEW p \in Pieces, NEW b \in BlockIdx(p)
      PROVE  b \in Nat /\ <<p, b>> \in Blocks
  <2>1. BlockCount(p) \in 1 .. PieceBlocks
    BY PieceFacts
  <2>2. BlockCount(p) \in Nat /\ b \in 0 .. BlockCount(p) - 1
    BY <2>1, PiecesAssumption DEF BlockIdx
  <2>3. b \in 0 .. PieceBlocks - 1 /\ b < BlockCount(p)
    BY <2>1, <2>2, PiecesAssumption
  <2> QED
    BY <2>3, PiecesAssumption DEF Blocks
<1>2. \A k \in Blocks : k = <<k[1], k[2]>>
  BY DEF Blocks
<1> QED
  BY <1>1, <1>2

\* Every nonempty set of numbers has a lowest member.
LEMMA LowestExists == \A S \in SUBSET Nat : S # {} => Lowest(S) # {}
<1> SUFFICES ASSUME NEW S \in SUBSET Nat, S # {}
             PROVE  Lowest(S) # {}
  OBVIOUS
<1> DEFINE R == OpToRel(<, Nat)
<1>1. IsWellFoundedOn(R, Nat)
  BY NatLessThanWellFounded
<1>2. \A x, y \in Nat : x < y => <<x, y>> \in R
  BY DEF OpToRel
<1> HIDE DEF R
<1>3. PICK n \in S : \A c \in S : <<c, n>> \notin R
  BY <1>1, WFMin
<1>4. ASSUME NEW c \in S
      PROVE  n <= c
  <2>1. ~ (c < n)
    BY <1>2, <1>3
  <2> QED
    BY <2>1
<1> QED
  BY <1>4 DEF Lowest

\* The rarest-first choice among some candidates finds one.
LEMMA RarestExists ==
  ASSUME NEW m, Typed(m), NEW C \in SUBSET Pieces, C # {}
  PROVE  PickRarest(m, C) # {}
<1> DEFINE S == {m.rarity[p] : p \in C}
<1>1. S \in SUBSET Nat /\ S # {}
  BY DEF Typed, PMs
<1>2. PICK r \in S : \A c \in S : r <= c
  BY <1>1, LowestExists DEF Lowest
<1> QED
  BY <1>2 DEF PickRarest

\* A new manager is consistent.
LEMMA NewPMConsistent == Consistent(NewPM)
<1>1. Typed(NewPM)
  BY DEF Typed, NewPM, PMs, PieceStates
<1>2. Counted(NewPM)
  <2>1. DonePieces(NewPM) = {}
    BY DEF DonePieces, NewPM
  <2> QED
    BY <2>1, FS_EmptySet DEF Counted, NewPM
<1>3. Held(NewPM) /\ Started(NewPM)
  BY DEF Held, Started, NewPM
<1>4. Unfinished(NewPM)
  BY DEF Unfinished, NewPM
<1> QED
  BY <1>1, <1>2, <1>3, <1>4 DEF Consistent

\* The request chosen for a peer is for a needed block of a piece it has.
LEMMA ChoiceIsNeeded ==
  ASSUME NEW m, Typed(m), NEW peer \in Peers, NEW bf \in SUBSET Pieces,
         NEW k \in NextBlockRequest(m, peer, bf)
  PROVE  k \in Blocks /\ k[1] \in bf /\ Needed(m, k)
<1>1. CASE k \in PickPartial(m, bf)
  BY <1>1, PieceFacts DEF PickPartial, PickRarest, Lowest, FreeBlocks, Needed
<1>2. CASE k \in PickNew(m, bf)
  <2>1. PICK p \in bf : k = <<p, 0>> /\ m.state[p] = "Missing"
    BY <1>2 DEF PickNew, PickRarest
  <2>2. m.received[p] = {}
    BY <2>1 DEF Typed
  <2> QED
    BY <2>1, <2>2, PieceFacts DEF Needed
<1>3. CASE k \in PickEndgame(m, peer, bf)
  BY <1>3 DEF PickEndgame, Lowest, Needed
<1> QED
  BY <1>1, <1>2, <1>3 DEF NextBlockRequest

\* Issuing a request for a needed block.
LEMMA IssueConsistent ==
  ASSUME NEW m, Consistent(m), NEW peer \in Peers, NEW k \in Blocks, Needed(m, k)
  PROVE  Consistent(Issue(m, peer, k))
<1> DEFINE n == Issue(m, peer, k)
<1>0. k[1] \in Pieces /\ k[2] \in BlockIdx(k[1])
  BY PieceFacts
<1>1. Typed(n)
  BY <1>0 DEF Consistent, Typed, PMs, PieceStates, Issue
<1>2. Counted(n)
  <2>1. DonePieces(n) = DonePieces(m)
    BY <1>0 DEF Consistent, Typed, PMs, DonePieces, Issue, Needed
  <2> QED
    BY <2>1 DEF Consistent, Typed, PMs, Counted, Issue
<1>3. Held(n)
  BY DEF Consistent, Typed, PMs, Held, Issue
<1>4. Started(n)
  BY <1>0, PieceFacts DEF Consistent, Typed, PMs, Started, Issue
<1>5. Unfinished(n)
  <2> SUFFICES ASSUME NEW p \in Pieces, n.state[p] = "Progress"
               PROVE  n.received[p] # BlockIdx(p)
    BY DEF Unfinished
  <2>1. n.received = m.received
    BY DEF Consistent, Typed, PMs, Issue
  <2>2. CASE p = k[1]
    BY <2>1, <2>2, <1>0 DEF Needed
  <2>3. CASE p # k[1]
    BY <2>1, <2>3, <1>0 DEF Consistent, Typed, PMs, Unfinished, Issue
  <2> QED
    BY <2>2, <2>3
<1> QED
  BY <1>1, <1>2, <1>3, <1>4, <1>5 DEF Consistent

\* A peer's bitfield, the first one or another.
LEMMA BitfieldConsistent ==
  ASSUME NEW m, Consistent(m), NEW peer \in Peers, NEW bf \in SUBSET Pieces
  PROVE  Consistent(OnPeerBitfield(m, peer, bf))
<1> DEFINE n == OnPeerBitfield(m, peer, bf)
<1>0. /\ n.has = [m.has EXCEPT ![peer] = bf]
      /\ n.known = m.known \cup {peer}
      /\ n.received = m.received /\ n.corrupt = m.corrupt /\ n.state = m.state
  BY DEF Consistent, Typed, PMs, OnPeerBitfield
<1>1. Typed(n)
  <2> DEFINE rarity == [p \in Pieces |-> IF p \in bf THEN m.rarity[p] + 1 ELSE m.rarity[p]]
             has    == [m.has EXCEPT ![peer] = bf]
  <2>1. rarity \in [Pieces -> Nat] /\ has \in [Peers -> SUBSET Pieces]
    BY DEF Consistent, Typed, PMs
  <2>2. n = [m EXCEPT !.rarity = rarity, !.known = @ \cup {peer}, !.has = has]
    BY DEF Consistent, Typed, PMs, OnPeerBitfield
  <2> DEFINE x == [m EXCEPT !.rarity = rarity]
  <2> HIDE DEF rarity, has
  <2>3. x \in PMs /\ x.known = m.known
    BY <2>1 DEF Consistent, Typed, PMs
  <2>4. n = [x EXCEPT !.known = @ \cup {peer}, !.has = has]
    BY <2>2 DEF Consistent, Typed, PMs
  <2> HIDE DEF x, n
  <2>5. n \in PMs
    BY <2>1, <2>3, <2>4 DEF PMs
  <2>6. \A q \in Peers : q \notin n.known => n.has[q] = {}
    <3> SUFFICES ASSUME NEW q \in Peers, q \notin m.known, q # peer
                 PROVE  n.has[q] = {}
      BY <1>0
    <3>1. m.has[q] = {} /\ m.has \in [Peers -> SUBSET Pieces]
      BY DEF Consistent, Typed, PMs
    <3> QED
      BY <1>0, <3>1
  <2> QED
    BY <1>0, <2>5, <2>6 DEF Consistent, Typed
<1>2. Counted(n) /\ Held(n) /\ Started(n) /\ Unfinished(n)
  BY DEF Consistent, Typed, PMs, Counted, DonePieces, Held, Started, Unfinished, OnPeerBitfield
<1> QED
  BY <1>1, <1>2 DEF Consistent

\* A Have, before or after the bitfield, new or repeated.
LEMMA HaveConsistent ==
  ASSUME NEW m, Consistent(m), NEW peer \in Peers, NEW q \in Pieces
  PROVE  Consistent(OnPeerHave(m, peer, q))
<1> DEFINE n == OnPeerHave(m, peer, q)
<1>0. CASE peer \notin m.known \/ q \in m.has[peer]
  BY <1>0 DEF OnPeerHave
<1>1. CASE peer \in m.known /\ q \notin m.has[peer]
  <2>0. n = [m EXCEPT !.has[peer] = @ \cup {q}, !.rarity[q] = @ + 1]
    BY <1>1 DEF OnPeerHave
  <2>1. Typed(n)
    <3> DEFINE rarity == [m.rarity EXCEPT ![q] = @ + 1]
               has    == [m.has EXCEPT ![peer] = @ \cup {q}]
    <3>0. rarity \in [Pieces -> Nat] /\ has \in [Peers -> SUBSET Pieces]
      BY DEF Consistent, Typed, PMs
    <3>3. n = [m EXCEPT !.rarity = rarity, !.has = has]
      BY <2>0 DEF Consistent, Typed, PMs
    <3> HIDE DEF rarity, has
    <3>1. n \in PMs
      BY <3>0, <3>3 DEF Consistent, Typed, PMs
    <3>2. /\ n.has = [m.has EXCEPT ![peer] = @ \cup {q}] /\ n.known = m.known
          /\ n.received = m.received /\ n.corrupt = m.corrupt /\ n.state = m.state
      BY <2>0 DEF Consistent, Typed, PMs
    <3> QED
      BY <1>1, <3>1, <3>2 DEF Consistent, Typed, PMs
  <2>2. Counted(n) /\ Held(n) /\ Started(n) /\ Unfinished(n)
    BY <2>0 DEF Consistent, Typed, PMs, Counted, DonePieces, Held, Started, Unfinished
  <2> QED
    BY <2>1, <2>2 DEF Consistent
<1> QED
  BY <1>0, <1>1

\* Dropping what a peer owes us, at a choke.
LEMMA ReleaseConsistent ==
  ASSUME NEW m, Consistent(m), NEW peer \in Peers
  PROVE  Consistent(ReleaseInFlight(m, peer))
<1> DEFINE n == ReleaseInFlight(m, peer)
<1>1. Typed(n)
  BY DEF Consistent, Typed, PMs, ReleaseInFlight
<1>2. Held(n)
  BY DEF Consistent, Typed, PMs, Held, ReleaseInFlight
<1>3. Counted(n) /\ Started(n) /\ Unfinished(n)
  BY DEF Consistent, Typed, PMs, Counted, DonePieces, Started,
         Unfinished, ReleaseInFlight
<1> QED
  BY <1>1, <1>2, <1>3 DEF Consistent

\* A disconnection, with or without a bitfield before it.
LEMMA DisconnectedConsistent ==
  ASSUME NEW m, Consistent(m), NEW peer \in Peers
  PROVE  Consistent(OnPeerDisconnected(m, peer))
<1> DEFINE rarity == [p \in Pieces |->
             IF p \in m.has[peer] /\ m.rarity[p] > 0 THEN m.rarity[p] - 1 ELSE m.rarity[p]]
           f == [m EXCEPT !.rarity = rarity, !.known = @ \ {peer}, !.has[peer] = {}]
<1>1. CASE peer \notin m.known
  BY <1>1, ReleaseConsistent DEF OnPeerDisconnected
<1>2. CASE peer \in m.known
  <2>1. Typed(f)
    <3>1. rarity \in [Pieces -> Nat]
      BY DEF Consistent, Typed, PMs
    <3> HIDE DEF rarity
    <3>2. f \in PMs
      BY <3>1 DEF Consistent, Typed, PMs
    <3>3. /\ f.has = [m.has EXCEPT ![peer] = {}] /\ f.known = m.known \ {peer}
          /\ f.received = m.received /\ f.corrupt = m.corrupt /\ f.state = m.state
      BY DEF Consistent, Typed, PMs
    <3> QED
      BY <3>2, <3>3 DEF Consistent, Typed, PMs
  <2>2. Counted(f) /\ Held(f) /\ Started(f) /\ Unfinished(f)
    BY DEF Consistent, Typed, PMs, Counted, DonePieces, Held, Started, Unfinished
  <2>3. OnPeerDisconnected(m, peer) = ReleaseInFlight(f, peer)
    BY <1>2 DEF OnPeerDisconnected
  <2> HIDE DEF f
  <2> QED
    BY <2>1, <2>2, <2>3, ReleaseConsistent DEF Consistent
<1> QED
  BY <1>1, <1>2

\* The key of a delivered block leaves the in-flight sets.
LEMMA UnassignConsistent ==
  ASSUME NEW m, Consistent(m), NEW peer \in Peers, NEW k \in Blocks
  PROVE  /\ Consistent(Unassign(m, peer, k))
         /\ Unassign(m, peer, k).state = m.state
         /\ Unassign(m, peer, k).received = m.received
         /\ Unassign(m, peer, k).corrupt = m.corrupt
<1> DEFINE n == Unassign(m, peer, k)
<1>1. Typed(n)
  BY DEF Consistent, Typed, PMs, Unassign
<1>2. Held(n)
  BY DEF Consistent, Typed, PMs, Held, Unassign
<1>3. Counted(n) /\ Started(n) /\ Unfinished(n)
  BY DEF Consistent, Typed, PMs, Counted, DonePieces, Started,
         Unfinished, Unassign
<1>4. n.state = m.state /\ n.received = m.received /\ n.corrupt = m.corrupt
  BY DEF Consistent, Typed, PMs, Unassign
<1> QED
  BY <1>1, <1>2, <1>3, <1>4 DEF Consistent

\* Everything but the last conjunct of Consistent: the value between storing a
\* block and hashing the piece.
Storing(m) == Typed(m) /\ Counted(m) /\ Held(m) /\ Started(m)

\* Storing an accepted block.
LEMMA StoreConsistent ==
  ASSUME NEW m, Consistent(m), NEW k \in Blocks, NEW kind, Accepts(m, k, kind)
  PROVE  /\ Storing(Store(m, k, kind))
         /\ Store(m, k, kind).state = m.state
         /\ \A p \in Pieces \ {k[1]} : Store(m, k, kind).received[p] = m.received[p]
<1> DEFINE n == Store(m, k, kind)
           received == [m.received EXCEPT ![k[1]] = @ \cup {k[2]}]
           corrupt  == [m.corrupt EXCEPT ![k[1]] = Damage(m, k, kind)]
<1>0. /\ k[1] \in Pieces /\ k[2] \in BlockIdx(k[1])
      /\ \A p \in Pieces : BlockIdx(p) \subseteq 0 .. PieceBlocks - 1
  BY PieceFacts
<1>1. n = [m EXCEPT !.received = received, !.corrupt = corrupt]
  BY DEF Consistent, Typed, PMs, Store
<1>2. received \in [Pieces -> SUBSET (0 .. PieceBlocks - 1)]
  BY <1>0 DEF Consistent, Typed, PMs
<1>3. Damage(m, k, kind) \subseteq m.received[k[1]] \cup {k[2]}
  BY <1>0 DEF Damage, Consistent, Typed
<1>4. corrupt \in [Pieces -> SUBSET (0 .. PieceBlocks - 1)]
  BY <1>0, <1>2, <1>3 DEF Consistent, Typed, PMs
<1>5. n \in PMs /\ n.state = m.state /\ n.received = received /\ n.corrupt = corrupt
      /\ n.known = m.known /\ n.has = m.has
  <2> HIDE DEF received, corrupt
  <2> QED
    BY <1>1, <1>2, <1>4 DEF Consistent, Typed, PMs
<1>6. Typed(n)
  <2>1. ASSUME NEW p \in Pieces
        PROVE  /\ n.received[p] \subseteq BlockIdx(p)
               /\ n.corrupt[p] \subseteq n.received[p]
               /\ n.state[p] # "Progress" => n.received[p] = {}
    <3>1. CASE p = k[1]
      BY <3>1, <1>0, <1>3, <1>5 DEF Consistent, Typed, PMs, Accepts
    <3>2. CASE p # k[1]
      BY <3>2, <1>0, <1>5 DEF Consistent, Typed, PMs
    <3> QED
      BY <3>1, <3>2
  <2> QED
    BY <1>5, <2>1 DEF Consistent, Typed
<1>7. Counted(n) /\ Held(n) /\ Started(n)
  <2> HIDE DEF received, corrupt
  <2> QED
    BY <1>1 DEF Consistent, Typed, PMs, Counted, DonePieces, Held, Started
<1>8. \A p \in Pieces \ {k[1]} : n.received[p] = m.received[p]
  BY <1>0, <1>5 DEF Consistent, Typed, PMs
<1> QED
  BY <1>5, <1>6, <1>7, <1>8 DEF Storing

\* A piece that becomes Done, by its hash or by the recheck.
LEMMA FinishConsistent ==
  ASSUME NEW m, Storing(m), NEW p \in Pieces, m.state[p] # "Done",
         \A q \in Pieces \ {p} : m.state[q] = "Progress" => m.received[q] # BlockIdx(q)
  PROVE  Consistent(Finish(m, p))
<1> DEFINE n == Finish(m, p)
           state    == [m.state EXCEPT ![p] = "Done"]
           received == [m.received EXCEPT ![p] = {}]
           corrupt  == [m.corrupt EXCEPT ![p] = {}]
<1>1. n = [m EXCEPT !.state = state, !.received = received, !.corrupt = corrupt, !.doneCount = @ + 1]
  BY DEF Storing, Typed, PMs, Finish
<1>2. /\ state \in [Pieces -> PieceStates]
      /\ received \in [Pieces -> SUBSET (0 .. PieceBlocks - 1)]
      /\ corrupt \in [Pieces -> SUBSET (0 .. PieceBlocks - 1)]
  BY DEF Storing, Typed, PMs, PieceStates
<1>3. /\ n \in PMs /\ n.state = state /\ n.received = received /\ n.corrupt = corrupt
      /\ n.known = m.known /\ n.has = m.has /\ n.doneCount = m.doneCount + 1
      /\ n.rarity = m.rarity /\ n.inFlight = m.inFlight /\ n.pending = m.pending
  <2> DEFINE x == [m EXCEPT !.state = state, !.received = received]
  <2> HIDE DEF state, received, corrupt
  <2>1. /\ x \in PMs /\ x.state = state /\ x.received = received
        /\ x.known = m.known /\ x.has = m.has /\ x.doneCount = m.doneCount
        /\ x.rarity = m.rarity /\ x.inFlight = m.inFlight /\ x.pending = m.pending
    BY <1>2 DEF Storing, Typed, PMs
  <2> DEFINE done == m.doneCount + 1
  <2>2. n = [x EXCEPT !.corrupt = corrupt, !.doneCount = done]
    BY <1>1 DEF Storing, Typed, PMs
  <2>3. done \in Nat /\ done = x.doneCount + 1
    BY <2>1 DEF Storing, Typed, PMs
  <2> HIDE DEF x, n, done
  <2>4. n \in PMs
    BY <1>2, <2>1, <2>2, <2>3 DEF PMs
  <2>5. /\ n.state = x.state /\ n.received = x.received /\ n.corrupt = corrupt
        /\ n.known = x.known /\ n.has = x.has /\ n.doneCount = done
    BY <2>1, <2>2 DEF PMs
  <2>6. n.rarity = x.rarity /\ n.inFlight = x.inFlight /\ n.pending = x.pending
    BY <2>1, <2>2 DEF PMs
  <2> QED
    BY <2>1, <2>4, <2>5, <2>6, <2>3
<1>4. Typed(n)
  BY <1>3 DEF Storing, Typed, PMs
<1>5. Counted(n)
  <2>1. DonePieces(n) = DonePieces(m) \cup {p} /\ p \notin DonePieces(m)
    BY <1>3 DEF Storing, Typed, PMs, DonePieces
  <2>2. IsFiniteSet(DonePieces(m))
    BY PieceFacts, FS_Subset DEF DonePieces
  <2>3. Cardinality(DonePieces(m) \cup {p}) = Cardinality(DonePieces(m)) + 1
    BY <2>1, <2>2, FS_AddElement
  <2> QED
    BY <1>3, <2>1, <2>3 DEF Storing, Counted
<1>6. Held(n)
  BY <1>3 DEF Storing, Held
<1>7. Started(n)
  BY <1>3, PieceFacts DEF Storing, Typed, PMs, Started
<1>8. Unfinished(n)
  BY <1>3 DEF Storing, Typed, PMs, Unfinished
<1> QED
  BY <1>4, <1>5, <1>6, <1>7, <1>8 DEF Consistent

\* A piece whose hash did not match starts over.
LEMMA ResetConsistent ==
  ASSUME NEW m, Storing(m), NEW p \in Pieces, m.state[p] = "Progress",
         \A q \in Pieces \ {p} : m.state[q] = "Progress" => m.received[q] # BlockIdx(q)
  PROVE  Consistent(Reset(m, p))
<1> DEFINE n == Reset(m, p)
           received == [m.received EXCEPT ![p] = {}]
           corrupt  == [m.corrupt EXCEPT ![p] = {}]
<1>1. n = [m EXCEPT !.received = received, !.corrupt = corrupt]
  <2>1. m.state = [m.state EXCEPT ![p] = "Progress"]
    BY DEF Storing, Typed, PMs
  <2> QED
    BY <2>1 DEF Storing, Typed, PMs, Reset
<1>2. /\ received \in [Pieces -> SUBSET (0 .. PieceBlocks - 1)]
      /\ corrupt \in [Pieces -> SUBSET (0 .. PieceBlocks - 1)]
  BY DEF Storing, Typed, PMs
<1>3. /\ n \in PMs /\ n.state = m.state /\ n.received = received /\ n.corrupt = corrupt
      /\ n.known = m.known /\ n.has = m.has /\ n.doneCount = m.doneCount
      /\ n.rarity = m.rarity /\ n.inFlight = m.inFlight /\ n.pending = m.pending
  <2> HIDE DEF received, corrupt
  <2> QED
    BY <1>1, <1>2 DEF Storing, Typed, PMs
<1>4. Typed(n)
  BY <1>3 DEF Storing, Typed, PMs
<1>5. Counted(n) /\ Held(n) /\ Started(n)
  BY <1>3 DEF Storing, Counted, DonePieces, Held, Started
<1>6. Unfinished(n)
  <2> SUFFICES ASSUME NEW q \in Pieces, n.state[q] = "Progress"
               PROVE  n.received[q] # BlockIdx(q)
    BY DEF Unfinished
  <2>1. CASE q = p
    <3>1. n.received[q] = {}
      BY <1>3, <2>1 DEF Storing, Typed, PMs
    <3> QED
      BY <3>1, PieceFacts
  <2>2. CASE q # p
    BY <1>3, <2>2 DEF Storing, Typed, PMs
  <2> QED
    BY <2>1, <2>2
<1> QED
  BY <1>4, <1>5, <1>6 DEF Consistent

\* A block message of any kind from any peer.
LEMMA BlockConsistent ==
  ASSUME NEW m, Consistent(m), NEW peer \in Peers, NEW k \in Blocks, NEW kind
  PROVE  Consistent(OnBlockReceived(m, peer, k, kind).pm)
<1> DEFINE u == IF kind = "skewed" THEN m ELSE Unassign(m, peer, k)
           s == Store(u, k, kind)
<1>0. k[1] \in Pieces
  BY PieceFacts
<1>1. Consistent(u)
  BY UnassignConsistent
<1> HIDE DEF u
<1>2. CASE kind = "outside" \/ ~ Accepts(u, k, kind)
  BY <1>1, <1>2 DEF OnBlockReceived, Result, u
<1>3. CASE kind # "outside" /\ Accepts(u, k, kind)
  <2>1. /\ Storing(s) /\ s.state = u.state
        /\ \A p \in Pieces \ {k[1]} : s.received[p] = u.received[p]
    BY <1>1, <1>3, StoreConsistent
  <2>2. \A q \in Pieces \ {k[1]} : s.state[q] = "Progress" => s.received[q] # BlockIdx(q)
    BY <1>1, <2>1 DEF Consistent, Unfinished
  <2>3. s.state[k[1]] = "Progress"
    BY <1>3, <2>1 DEF Accepts
  <2> HIDE DEF s
  <2>4. CASE s.received[k[1]] # BlockIdx(k[1])
    <3>1. Consistent(s)
      BY <2>1, <2>2, <2>4 DEF Consistent, Storing, Unfinished
    <3> QED
      BY <1>3, <2>4, <3>1 DEF OnBlockReceived, Result, u, s
  <2>5. CASE s.received[k[1]] = BlockIdx(k[1]) /\ s.corrupt[k[1]] = {}
    <3>1. Consistent(Finish(s, k[1]))
      BY <1>0, <2>1, <2>2, <2>3, FinishConsistent
    <3> QED
      BY <1>3, <2>5, <3>1 DEF OnBlockReceived, Result, u, s
  <2>6. CASE s.received[k[1]] = BlockIdx(k[1]) /\ s.corrupt[k[1]] # {}
    <3>1. Consistent(Reset(s, k[1]))
      BY <1>0, <2>1, <2>2, <2>3, ResetConsistent
    <3> QED
      BY <1>3, <2>6, <3>1 DEF OnBlockReceived, Result, u, s
  <2> QED
    BY <2>4, <2>5, <2>6
<1> QED
  BY <1>2, <1>3

\* A verdict of the recheck, whatever the network did to the piece.
LEMMA VerifiedConsistent ==
  ASSUME NEW m, Consistent(m), NEW p \in Pieces
  PROVE  Consistent(MarkVerified(m, p))
<1>1. CASE m.state[p] = "Done"
  BY <1>1 DEF MarkVerified
<1>2. CASE m.state[p] # "Done"
  <2>1. Storing(m) /\ \A q \in Pieces \ {p} : m.state[q] = "Progress" => m.received[q] # BlockIdx(q)
    BY DEF Consistent, Storing, Unfinished
  <2> QED
    BY <1>2, <2>1, FinishConsistent DEF MarkVerified
<1> QED
  BY <1>1, <1>2

\* A started piece with a free block, and a missing piece, each give a request.
LEMMA PartialExists ==
  ASSUME NEW m, Typed(m), NEW bf \in SUBSET Pieces, NEW q \in bf,
         m.state[q] = "Progress", FreeBlocks(m, q) # {}
  PROVE  PickPartial(m, bf) # {}
<1> DEFINE C == {p \in bf : m.state[p] = "Progress" /\ FreeBlocks(m, p) # {}}
<1>1. C \in SUBSET Pieces /\ C # {}
  OBVIOUS
<1>2. PICK p \in C : p \in PickRarest(m, C)
  BY <1>1, RarestExists DEF PickRarest
<1>3. FreeBlocks(m, p) \in SUBSET Nat /\ FreeBlocks(m, p) # {}
  <2>1. BlockIdx(p) \in SUBSET Nat
    BY DEF BlockIdx
  <2> QED
    BY <1>2, <2>1 DEF FreeBlocks
<1>4. PICK b : b \in Lowest(FreeBlocks(m, p))
  BY <1>3, LowestExists
<1>5. <<p, b>> \in Blocks
  BY <1>2, <1>4, BlockPairs DEF Lowest, FreeBlocks
<1>6. <<p, b>> \in PickPartial(m, bf)
  BY <1>2, <1>4, <1>5 DEF PickPartial
<1> QED
  BY <1>6

LEMMA NewExists ==
  ASSUME NEW m, Typed(m), NEW bf \in SUBSET Pieces, NEW q \in bf, m.state[q] = "Missing"
  PROVE  PickNew(m, bf) # {}
<1> DEFINE C == {p \in bf : m.state[p] = "Missing"}
<1>1. PICK p \in C : p \in PickRarest(m, C)
  BY RarestExists DEF PickRarest
<1>2. <<p, 0>> \in PickNew(m, bf)
  BY <1>1 DEF PickNew
<1> QED
  BY <1>2

\* A peer that has a needed block it was not asked for is given a request.
LEMMA RequestExists ==
  ASSUME NEW m, Consistent(m), NEW peer \in Peers, NEW bf \in SUBSET Pieces,
         NEW k \in Blocks, k[1] \in bf, Needed(m, k), k \notin m.inFlight[peer]
  PROVE  NextBlockRequest(m, peer, bf) # {}
<1>0. /\ Typed(m) /\ k[1] \in Pieces /\ k[2] \in BlockIdx(k[1]) /\ k = <<k[1], k[2]>>
      /\ m.state[k[1]] \in {"Missing", "Progress"}
      /\ \A p \in Pieces : BlockIdx(p) \in SUBSET Nat
  <2>1. m.state[k[1]] \in PieceStates
    BY PieceFacts DEF Consistent, Typed, PMs
  <2> QED
    BY <2>1, PieceFacts, BlockPairs DEF Consistent, PieceStates, Needed
<1>1. CASE m.state[k[1]] = "Progress" /\ k \notin m.pending
  <2>1. FreeBlocks(m, k[1]) # {}
    BY <1>0, <1>1 DEF FreeBlocks, Needed
  <2>2. PickPartial(m, bf) # {}
    BY <1>0, <1>1, <2>1, PartialExists
  <2> QED
    BY <2>2 DEF NextBlockRequest
<1>2. CASE m.state[k[1]] = "Missing"
  <2>1. PickNew(m, bf) # {}
    BY <1>0, <1>2, NewExists
  <2> QED
    BY <2>1 DEF NextBlockRequest
<1>3. CASE m.state[k[1]] = "Progress" /\ k \in m.pending
  <2> DEFINE p == k[1]
             Owed == {b \in BlockIdx(p) : /\ b \notin m.received[p]
                                          /\ <<p, b>> \in m.pending
                                          /\ <<p, b>> \notin m.inFlight[peer]}
  <2>1. Owed \in SUBSET Nat /\ Owed # {}
    BY <1>0, <1>3 DEF Needed
  <2>2. PICK b : b \in Lowest(Owed)
    BY <2>1, LowestExists
  <2>3. <<p, b>> \in Blocks
    BY <1>0, <2>2, BlockPairs DEF Lowest
  <2>4. <<p, b>> \in PickEndgame(m, peer, bf)
    BY <1>3, <2>2, <2>3 DEF PickEndgame
  <2> QED
    BY <2>4 DEF NextBlockRequest
<1> QED
  BY <1>0, <1>1, <1>2, <1>3

\* A block in flight is chosen again only for a peer that has no missing piece
\* and no free block of a started one.
LEMMA DuplicateIsLast ==
  ASSUME NEW m, Consistent(m), NEW peer \in Peers, NEW bf \in SUBSET Pieces,
         NEW k \in NextBlockRequest(m, peer, bf), k \in m.pending, NEW p \in bf
  PROVE  m.state[p] # "Missing" /\ (m.state[p] = "Progress" => FreeBlocks(m, p) = {})
<1>1. k \notin PickPartial(m, bf)
  BY BlockPairs DEF PickPartial, Lowest, FreeBlocks
<1>2. k \notin PickNew(m, bf)
  <2>1. SUFFICES ASSUME k \in PickNew(m, bf) PROVE FALSE
    OBVIOUS
  <2>2. PICK q \in bf : k = <<q, 0>> /\ m.state[q] = "Missing"
    BY <2>1 DEF PickNew, PickRarest
  <2>3. PICK other \in Peers : k \in m.inFlight[other]
    BY <2>2, PieceFacts DEF Consistent, Held
  <2> QED
    BY <2>2, <2>3 DEF Consistent, Started
<1>3. PickPartial(m, bf) = {} /\ PickNew(m, bf) = {}
  BY <1>1, <1>2 DEF NextBlockRequest
<1> QED
  BY <1>3, PartialExists, NewExists DEF Consistent

\* A block message demotes no verified piece and issues no request.
LEMMA BlockKeeps ==
  ASSUME NEW m, Consistent(m), NEW peer \in Peers, NEW k \in Blocks, NEW kind
  PROVE  LET n == OnBlockReceived(m, peer, k, kind).pm
         IN  /\ \A p \in Pieces : m.state[p] = "Done" => n.state[p] = "Done"
             /\ \A q \in Peers : n.inFlight[q] \subseteq m.inFlight[q]
<1> DEFINE u == IF kind = "skewed" THEN m ELSE Unassign(m, peer, k)
           s == Store(u, k, kind)
           Keeps(n) == /\ \A p \in Pieces : m.state[p] = "Done" => n.state[p] = "Done"
                       /\ \A q \in Peers : n.inFlight[q] \subseteq m.inFlight[q]
<1>1. u \in PMs /\ Keeps(u)
  BY DEF Unassign, Consistent, Typed, PMs
<1>2. Keeps(s) /\ s.state = u.state
  <2> HIDE DEF u
  <2> QED
    BY <1>1 DEF Store, PMs
<1>3. Keeps(Finish(s, k[1])) /\ (u.state[k[1]] = "Progress" => Keeps(Reset(s, k[1])))
  <2> HIDE DEF u
  <2> QED
    BY <1>1, PieceFacts DEF Finish, Reset, Store, PMs
<1> HIDE DEF Keeps
<1>4. LET n == OnBlockReceived(m, peer, k, kind).pm
      IN  \/ n \in {u, s, Finish(s, k[1])}
          \/ u.state[k[1]] = "Progress" /\ n = Reset(s, k[1])
  BY DEF OnBlockReceived, Result, Accepts
<1>5. Keeps(OnBlockReceived(m, peer, k, kind).pm)
  BY <1>1, <1>2, <1>3, <1>4
<1> QED
  BY <1>5 DEF Keeps

-----------------------------------------------------------------------------
(***************************************************************************)
(* The accounting of rarity: m.rarity[p] is the number of known peers with *)
(* the piece plus a drift, which only a bitfield that replaces one raises. *)
(***************************************************************************)

LEMMA RaritySame ==
  ASSUME NEW m, NEW n, NEW drift, RarityCounted(m, drift),
         n.rarity = m.rarity, n.known = m.known, n.has = m.has
  PROVE  RarityCounted(n, drift)
BY DEF RarityCounted, Owners

LEMMA OwnersFinite ==
  ASSUME NEW m, Typed(m), NEW p \in Pieces
  PROVE  IsFiniteSet(Owners(m, p)) /\ Cardinality(Owners(m, p)) \in Nat
BY PeersAssumption, FS_Subset, FS_CardinalityType DEF Typed, PMs, Owners

LEMMA NewPMRarity == RarityCounted(NewPM, [p \in Pieces |-> 0])
<1>1. \A p \in Pieces : Owners(NewPM, p) = {}
  BY DEF Owners, NewPM
<1>2. \A p \in Pieces : NewPM.rarity[p] = 0 /\ Cardinality(Owners(NewPM, p)) = 0
  BY <1>1, FS_EmptySet DEF NewPM
<1> QED
  BY <1>2 DEF RarityCounted

\* A bitfield: the map it replaces is counted on.
LEMMA BitfieldRarity ==
  ASSUME NEW m, Typed(m), NEW peer \in Peers, NEW bf \in SUBSET Pieces,
         NEW drift \in [Pieces -> Nat], RarityCounted(m, drift)
  PROVE  RarityCounted(OnPeerBitfield(m, peer, bf),
                       [p \in Pieces |-> IF p \in m.has[peer] THEN drift[p] + 1 ELSE drift[p]])
<1> DEFINE n == OnPeerBitfield(m, peer, bf)
           more == [p \in Pieces |-> IF p \in m.has[peer] THEN drift[p] + 1 ELSE drift[p]]
<1> SUFFICES ASSUME NEW p \in Pieces
             PROVE  n.rarity[p] = Cardinality(Owners(n, p)) + more[p]
  BY DEF RarityCounted
<1>1. /\ n.rarity[p] = IF p \in bf THEN m.rarity[p] + 1 ELSE m.rarity[p]
      /\ n.known = m.known \cup {peer}
      /\ n.has = [m.has EXCEPT ![peer] = bf]
  BY DEF Typed, PMs, OnPeerBitfield
<1>2. peer \in Owners(m, p) <=> p \in m.has[peer]
  BY DEF Typed, Owners
<1>3. Owners(n, p) = IF p \in bf THEN Owners(m, p) \cup {peer} ELSE Owners(m, p) \ {peer}
  BY <1>1 DEF Typed, PMs, Owners
<1>4. m.rarity[p] = Cardinality(Owners(m, p)) + drift[p]
  BY DEF RarityCounted
<1>5. more[p] = IF p \in m.has[peer] THEN drift[p] + 1 ELSE drift[p]
  OBVIOUS
<1>6. IsFiniteSet(Owners(m, p)) /\ Cardinality(Owners(m, p)) \in Nat /\ drift[p] \in Nat
  BY OwnersFinite
<1>7. Cardinality(Owners(m, p) \cup {peer}) =
        IF peer \in Owners(m, p) THEN Cardinality(Owners(m, p)) ELSE Cardinality(Owners(m, p)) + 1
  BY <1>6, FS_AddElement
<1>8. Cardinality(Owners(m, p) \ {peer}) =
        IF peer \in Owners(m, p) THEN Cardinality(Owners(m, p)) - 1 ELSE Cardinality(Owners(m, p))
  BY <1>6, FS_RemoveElement
<1> DEFINE own  == Cardinality(Owners(m, p))
           kept == Cardinality(Owners(n, p))
<1>9. own \in Nat /\ m.rarity[p] = own + drift[p] /\ m.rarity[p] \in Nat
  BY <1>4, <1>6
<1>10. kept = IF p \in bf THEN IF p \in m.has[peer] THEN own ELSE own + 1
              ELSE IF p \in m.has[peer] THEN own - 1 ELSE own
  BY <1>2, <1>3, <1>7, <1>8
<1> HIDE DEF n, more, own, kept
<1>11. n.rarity[p] = kept + more[p]
  BY <1>1, <1>5, <1>6, <1>9, <1>10
<1> QED
  BY <1>11 DEF kept

\* A Have is counted once.
LEMMA HaveRarity ==
  ASSUME NEW m, Typed(m), NEW peer \in Peers, NEW q \in Pieces,
         NEW drift \in [Pieces -> Nat], RarityCounted(m, drift)
  PROVE  RarityCounted(OnPeerHave(m, peer, q), drift)
<1> DEFINE n == OnPeerHave(m, peer, q)
<1>1. CASE peer \notin m.known \/ q \in m.has[peer]
  BY <1>1 DEF OnPeerHave
<1>2. CASE peer \in m.known /\ q \notin m.has[peer]
  <2> SUFFICES ASSUME NEW p \in Pieces
               PROVE  n.rarity[p] = Cardinality(Owners(n, p)) + drift[p]
    BY DEF RarityCounted
  <2>1. n = [m EXCEPT !.has[peer] = @ \cup {q}, !.rarity[q] = @ + 1]
    BY <1>2 DEF OnPeerHave
  <2>2. Owners(n, p) = IF p = q THEN Owners(m, p) \cup {peer} ELSE Owners(m, p)
    BY <1>2, <2>1 DEF Typed, PMs, Owners
  <2>3. n.rarity[p] = IF p = q THEN m.rarity[p] + 1 ELSE m.rarity[p]
    BY <2>1 DEF Typed, PMs
  <2>4. /\ m.rarity[p] = Cardinality(Owners(m, p)) + drift[p]
        /\ p = q => peer \notin Owners(m, p)
    BY <1>2 DEF RarityCounted, Owners
  <2>5. IsFiniteSet(Owners(m, p)) /\ Cardinality(Owners(m, p)) \in Nat /\ drift[p] \in Nat
    BY OwnersFinite
  <2>6. p = q => Cardinality(Owners(m, p) \cup {peer}) = Cardinality(Owners(m, p)) + 1
    BY <2>4, <2>5, FS_AddElement
  <2> HIDE DEF n
  <2> QED
    BY <2>2, <2>3, <2>4, <2>5, <2>6
<1> QED
  BY <1>1, <1>2

\* A disconnection takes back the present map of the peer; rarity is positive
\* for every piece in it, so the subtraction never saturates.
LEMMA DisconnectedRarity ==
  ASSUME NEW m, Typed(m), NEW peer \in Peers,
         NEW drift \in [Pieces -> Nat], RarityCounted(m, drift)
  PROVE  RarityCounted(OnPeerDisconnected(m, peer), drift)
<1> DEFINE n == OnPeerDisconnected(m, peer)
<1>1. CASE peer \notin m.known
  <2>1. n.rarity = m.rarity /\ n.known = m.known /\ n.has = m.has
    BY <1>1 DEF OnPeerDisconnected, ReleaseInFlight, Typed, PMs
  <2> HIDE DEF n
  <2>2. RarityCounted(n, drift)
    BY <2>1, RaritySame
  <2> QED
    BY <2>2 DEF n
<1>2. CASE peer \in m.known
  <2> SUFFICES ASSUME NEW p \in Pieces
               PROVE  n.rarity[p] = Cardinality(Owners(n, p)) + drift[p]
    BY DEF RarityCounted
  <2>1. /\ n.rarity[p] = IF p \in m.has[peer] /\ m.rarity[p] > 0 THEN m.rarity[p] - 1 ELSE m.rarity[p]
        /\ n.known = m.known \ {peer}
        /\ n.has = [m.has EXCEPT ![peer] = {}]
    BY <1>2 DEF OnPeerDisconnected, ReleaseInFlight, Typed, PMs
  <2>2. Owners(n, p) = Owners(m, p) \ {peer}
    BY <2>1 DEF Typed, PMs, Owners
  <2>3. m.rarity[p] = Cardinality(Owners(m, p)) + drift[p]
    BY DEF RarityCounted
  <2>4. p \in m.has[peer] <=> peer \in Owners(m, p)
    BY <1>2 DEF Owners
  <2>5. IsFiniteSet(Owners(m, p)) /\ Cardinality(Owners(m, p)) \in Nat /\ drift[p] \in Nat
    BY OwnersFinite
  <2>6. Cardinality(Owners(m, p) \ {peer}) =
          IF peer \in Owners(m, p) THEN Cardinality(Owners(m, p)) - 1 ELSE Cardinality(Owners(m, p))
    BY <2>5, FS_RemoveElement
  <2>7. peer \in Owners(m, p) => Cardinality(Owners(m, p)) # 0
    BY <2>5, FS_EmptySet
  <2> DEFINE own  == Cardinality(Owners(m, p))
             kept == Cardinality(Owners(n, p))
  <2>8. /\ own \in Nat /\ m.rarity[p] = own + drift[p] /\ drift[p] \in Nat
        /\ kept = IF p \in m.has[peer] THEN own - 1 ELSE own
        /\ p \in m.has[peer] => own # 0
    BY <2>2, <2>3, <2>4, <2>5, <2>6, <2>7
  <2> HIDE DEF n, own, kept
  <2>9. n.rarity[p] = kept + drift[p]
    BY <2>1, <2>8
  <2> QED
    BY <2>9 DEF kept
<1> QED
  BY <1>1, <1>2

\* A block message touches no bitfield.
LEMMA BlockRarity ==
  ASSUME NEW m, Typed(m), NEW peer \in Peers, NEW k \in Blocks, NEW kind,
         NEW drift, RarityCounted(m, drift)
  PROVE  RarityCounted(OnBlockReceived(m, peer, k, kind).pm, drift)
<1> DEFINE u == IF kind = "skewed" THEN m ELSE Unassign(m, peer, k)
           s == Store(u, k, kind)
           Same(n) == n.rarity = m.rarity /\ n.known = m.known /\ n.has = m.has
<1>1. u \in PMs /\ Same(u)
  BY DEF Unassign, Typed, PMs
<1>2. Same(s)
  <2> HIDE DEF u
  <2> QED
    BY <1>1 DEF Store, PMs
<1>3. Same(Finish(s, k[1])) /\ Same(Reset(s, k[1]))
  <2> HIDE DEF u
  <2> QED
    BY <1>1 DEF Finish, Reset, Store, PMs
<1>4. OnBlockReceived(m, peer, k, kind).pm \in {u, s, Finish(s, k[1]), Reset(s, k[1])}
  BY DEF OnBlockReceived, Result
<1> HIDE DEF u, s
<1>5. Same(OnBlockReceived(m, peer, k, kind).pm)
  BY <1>1, <1>2, <1>3, <1>4
<1> QED
  BY <1>5, RaritySame
=============================================================================
