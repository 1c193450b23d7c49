------------------------- MODULE PieceManagerProofs -------------------------
(***************************************************************************)
(* The invariants of PieceManager hold for every number of peers, pieces   *)
(* and blocks.  The inductive invariant is Consistent(pm) with the          *)
(* accounting of rarity; each call preserves it by a lemma of PiecesProofs. *)
(***************************************************************************)
EXTENDS PieceManager, PiecesProofs

\* Each call keeps the manager consistent.
LEMMA StepConsistent == Consistent(pm) /\ [Next]_vars => Consistent(pm)'
<1> SUFFICES ASSUME Consistent(pm), [Next]_vars
             PROVE  Consistent(pm')
  OBVIOUS
<1>1. ASSUME NEW peer \in Peers, NEW bf \in SUBSET Pieces, Bitfield(peer, bf)
      PROVE  Consistent(pm')
  BY <1>1, BitfieldConsistent DEF Bitfield
<1>2. ASSUME NEW peer \in Peers, NEW p \in Pieces, Have(peer, p)
      PROVE  Consistent(pm')
  BY <1>2, HaveConsistent DEF Have
<1>3. ASSUME NEW peer \in Peers, NEW bf \in SUBSET Pieces, Request(peer, bf)
      PROVE  Consistent(pm')
  <2>1. PICK k \in NextBlockRequest(pm, peer, bf) : pm' = Issue(pm, peer, k)
    BY <1>3 DEF Request
  <2>2. k \in Blocks /\ Needed(pm, k)
    BY ChoiceIsNeeded DEF Consistent
  <2> QED
    BY <2>1, <2>2, IssueConsistent
<1>4. ASSUME NEW peer \in Peers, Choke(peer)
      PROVE  Consistent(pm')
  BY <1>4, ReleaseConsistent DEF Choke
<1>5. ASSUME NEW peer \in Peers, Disconnected(peer)
      PROVE  Consistent(pm')
  BY <1>5, DisconnectedConsistent DEF Disconnected
<1>6. ASSUME NEW peer \in Peers, NEW k \in Blocks, NEW kind \in MessageKinds, Block(peer, k, kind)
      PROVE  Consistent(pm')
  BY <1>6, BlockConsistent DEF Block
<1>7. ASSUME NEW p \in Pieces, Verified(p)
      PROVE  Consistent(pm')
  BY <1>7, VerifiedConsistent DEF Verified
<1>8. CASE UNCHANGED vars
  BY <1>8 DEF vars
<1> QED
  BY <1>1, <1>2, <1>3, <1>4, <1>5, <1>6, <1>7, <1>8 DEF Next

LEMMA AlwaysConsistent == Spec => []Consistent(pm)
<1>1. Init => Consistent(pm)
  BY NewPMConsistent DEF Init
<1> QED
  BY <1>1, StepConsistent, PTL DEF Spec

\* The manager's fields keep their types, buffers exist only in progress.
THEOREM TypeCorrect == Spec => []TypeOK
<1>1. Consistent(pm) => TypeOK
  BY DEF Consistent, TypeOK
<1> QED
  BY <1>1, AlwaysConsistent, PTL

\* done_count is the number of verified pieces.
THEOREM DoneCountCorrect == Spec => []DoneCounted
<1>1. Consistent(pm) => DoneCounted
  BY DEF Consistent, DoneCounted
<1> QED
  BY <1>1, AlwaysConsistent, PTL

\* Each call keeps the account of rarity.
Accounted == stale \in [Pieces -> Nat] /\ RarityExact

LEMMA StepRarity == Consistent(pm) /\ Accounted /\ [Next]_vars => Accounted'
<1> SUFFICES ASSUME Consistent(pm), stale \in [Pieces -> Nat], RarityCounted(pm, stale), [Next]_vars
             PROVE  stale' \in [Pieces -> Nat] /\ RarityCounted(pm', stale')
  BY DEF RarityExact, Accounted
<1>0. Typed(pm)
  BY DEF Consistent
<1>1. ASSUME NEW peer \in Peers, NEW bf \in SUBSET Pieces, Bitfield(peer, bf)
      PROVE  stale' \in [Pieces -> Nat] /\ RarityCounted(pm', stale')
  BY <1>0, <1>1, BitfieldRarity DEF Bitfield
<1>2. ASSUME NEW peer \in Peers, NEW p \in Pieces, Have(peer, p)
      PROVE  stale' = stale /\ RarityCounted(pm', stale)
  BY <1>0, <1>2, HaveRarity DEF Have
<1>3. ASSUME NEW peer \in Peers, NEW bf \in SUBSET Pieces, Request(peer, bf)
      PROVE  stale' = stale /\ RarityCounted(pm', stale)
  <2>1. stale' = stale /\ pm'.rarity = pm.rarity /\ pm'.known = pm.known /\ pm'.has = pm.has
    BY <1>0, <1>3 DEF Request, Issue, Typed, PMs
  <2> QED
    BY <2>1, RaritySame
<1>4. ASSUME NEW peer \in Peers, Choke(peer)
      PROVE  stale' = stale /\ RarityCounted(pm', stale)
  <2>1. stale' = stale /\ pm'.rarity = pm.rarity /\ pm'.known = pm.known /\ pm'.has = pm.has
    BY <1>0, <1>4 DEF Choke, ReleaseInFlight, Typed, PMs
  <2> QED
    BY <2>1, RaritySame
<1>5. ASSUME NEW peer \in Peers, Disconnected(peer)
      PROVE  stale' = stale /\ RarityCounted(pm', stale)
  BY <1>0, <1>5, DisconnectedRarity DEF Disconnected
<1>6. ASSUME NEW peer \in Peers, NEW k \in Blocks, NEW kind \in MessageKinds, Block(peer, k, kind)
      PROVE  stale' = stale /\ RarityCounted(pm', stale)
  BY <1>0, <1>6, BlockRarity DEF Block
<1>7. ASSUME NEW p \in Pieces, Verified(p)
      PROVE  stale' = stale /\ RarityCounted(pm', stale)
  <2>1. stale' = stale /\ pm'.rarity = pm.rarity /\ pm'.known = pm.known /\ pm'.has = pm.has
    BY <1>0, <1>7 DEF Verified, MarkVerified, Finish, Typed, PMs
  <2> QED
    BY <2>1, RaritySame
<1>8. CASE UNCHANGED vars
  BY <1>8 DEF vars
<1> QED
  BY <1>1, <1>2, <1>3, <1>4, <1>5, <1>6, <1>7, <1>8 DEF Next

\* rarity never falls short of the known peers with the piece, and exceeds them
\* by exactly the maps that another bitfield of the same peer replaced.
THEOREM RarityCorrect == Spec => []RarityExact
<1>1. Init => Accounted
  BY NewPMRarity DEF Init, RarityExact, Accounted
<1>2. Accounted => RarityExact
  BY DEF Accounted
<1> QED
  BY <1>1, <1>2, StepRarity, AlwaysConsistent, PTL DEF Spec

\* No block is marked busy without a peer that owes it, and none is in flight
\* for a piece that was not started.
THEOREM PendingCorrect == Spec => [](PendingHeld /\ InFlightStarted)
<1>1. Consistent(pm) => PendingHeld /\ InFlightStarted
  BY DEF Consistent, PendingHeld, InFlightStarted
<1> QED
  BY <1>1, AlwaysConsistent, PTL

\* A full buffer is never left unverified.
THEOREM BuffersHashed == Spec => []NoUnhashedBuffer
<1>1. Consistent(pm) => NoUnhashedBuffer
  BY DEF Consistent, NoUnhashedBuffer
<1> QED
  BY <1>1, AlwaysConsistent, PTL

\* A peer with a needed block it was not asked for always gets a request.
THEOREM WorkConservation == Spec => []WorkConserving
<1>1. Consistent(pm) => WorkConserving
  <2> SUFFICES ASSUME Consistent(pm), NEW peer \in Peers, NEW bf \in SUBSET Pieces,
                      NEW k \in Blocks, k[1] \in bf, Needed(pm, k), k \notin pm.inFlight[peer]
               PROVE  NextBlockRequest(pm, peer, bf) # {}
    BY DEF WorkConserving
  <2> QED
    BY RequestExists
<1> QED
  BY <1>1, AlwaysConsistent, PTL

\* What a step may not do: demote a verified piece, or ask for a block that is
\* stored or verified.
LEMMA StepKeeps ==
  ASSUME Consistent(pm), [Next]_vars
  PROVE  /\ \A p \in Pieces : pm.state[p] = "Done" => pm'.state[p] = "Done"
         /\ \A peer \in Peers : \A k \in pm'.inFlight[peer] \ pm.inFlight[peer] : Needed(pm, k)
<1> DEFINE Keeps == /\ \A p \in Pieces : pm.state[p] = "Done" => pm'.state[p] = "Done"
                    /\ \A q \in Peers : \A k \in pm'.inFlight[q] \ pm.inFlight[q] : Needed(pm, k)
<1>0. pm \in PMs
  BY DEF Consistent, Typed
<1>1. ASSUME NEW peer \in Peers, NEW bf \in SUBSET Pieces, Bitfield(peer, bf)
      PROVE  Keeps
  BY <1>0, <1>1 DEF Bitfield, OnPeerBitfield, PMs
<1>2. ASSUME NEW peer \in Peers, NEW p \in Pieces, Have(peer, p)
      PROVE  Keeps
  BY <1>0, <1>2 DEF Have, OnPeerHave, PMs
<1>3. ASSUME NEW peer \in Peers, NEW bf \in SUBSET Pieces, Request(peer, bf)
      PROVE  Keeps
  <2>2. PICK k \in NextBlockRequest(pm, peer, bf) : pm' = Issue(pm, peer, k)
    BY <1>3 DEF Request
  <2>3. k \in Blocks /\ Needed(pm, k)
    BY <2>2, ChoiceIsNeeded DEF Consistent
  <2>4. /\ pm'.state = [pm.state EXCEPT ![k[1]] = "Progress"]
        /\ pm'.inFlight = [pm.inFlight EXCEPT ![peer] = @ \cup {k}]
    BY <1>0, <2>2 DEF Issue, PMs
  <2> QED
    BY <1>0, <2>3, <2>4, PieceFacts DEF Needed, PMs
<1>4. ASSUME NEW peer \in Peers, Choke(peer)
      PROVE  Keeps
  BY <1>0, <1>4 DEF Choke, ReleaseInFlight, PMs
<1>5. ASSUME NEW peer \in Peers, Disconnected(peer)
      PROVE  Keeps
  BY <1>0, <1>5 DEF Disconnected, OnPeerDisconnected, ReleaseInFlight, PMs
<1>6. ASSUME NEW peer \in Peers, NEW k \in Blocks, NEW kind \in MessageKinds, Block(peer, k, kind)
      PROVE  Keeps
  BY <1>6, BlockKeeps DEF Block
<1>7. ASSUME NEW p \in Pieces, Verified(p)
      PROVE  Keeps
  BY <1>0, <1>7 DEF Verified, MarkVerified, Finish, PMs
<1>8. CASE UNCHANGED vars
  BY <1>8 DEF vars
<1> QED
  BY <1>1, <1>2, <1>3, <1>4, <1>5, <1>6, <1>7, <1>8 DEF Next

\* A verified piece is never fetched again, whatever still arrives for it.
THEOREM VerifiedForever == Spec => VerifiedStays
<1>1. Consistent(pm) /\ [Next]_vars =>
        [\A p \in Pieces : pm.state[p] = "Done" => pm'.state[p] = "Done"]_vars
  BY StepKeeps
<1> QED
  BY <1>1, AlwaysConsistent, PTL DEF Spec, VerifiedStays

\* Requests are only ever issued for blocks that are still needed.
THEOREM RequestsNeeded == Spec => AsksOnlyForNeeded
<1>1. Consistent(pm) /\ [Next]_vars =>
        [\A peer \in Peers : \A k \in pm'.inFlight[peer] \ pm.inFlight[peer] : Needed(pm, k)]_vars
  BY StepKeeps
<1> QED
  BY <1>1, AlwaysConsistent, PTL DEF Spec, AsksOnlyForNeeded

\* Duplicates are for the endgame: a peer is asked for a block in flight only when
\* the bitfield it is asked by has no missing piece and no free block to offer.
THEOREM EndgameIsLast == Spec => DuplicatesOnlyInEndgame
<1>1. ASSUME Consistent(pm), NEW peer \in Peers, NEW bf \in SUBSET Pieces, Request(peer, bf),
             NEW k \in (pm'.inFlight[peer] \ pm.inFlight[peer]) \cap pm.pending,
             NEW p \in bf
      PROVE  /\ pm.state[p] # "Missing"
             /\ pm.state[p] = "Progress" => FreeBlocks(pm, p) = {}
  <2>1. PICK c \in NextBlockRequest(pm, peer, bf) : pm' = Issue(pm, peer, c)
    BY <1>1 DEF Request
  <2>2. pm'.inFlight[peer] = pm.inFlight[peer] \cup {c}
    BY <1>1, <2>1 DEF Issue, Consistent, Typed, PMs
  <2>3. k = c /\ k \in pm.pending
    BY <2>2
  <2> QED
    BY <1>1, <2>1, <2>3, DuplicateIsLast
<1>2. Consistent(pm) /\ [Next]_vars =>
        [\A peer \in Peers, bf \in SUBSET Pieces : Request(peer, bf) =>
           \A k \in (pm'.inFlight[peer] \ pm.inFlight[peer]) \cap pm.pending :
             \A p \in bf :
               /\ pm.state[p] # "Missing"
               /\ pm.state[p] = "Progress" => FreeBlocks(pm, p) = {}]_vars
  BY <1>1
<1> QED
  BY <1>2, AlwaysConsistent, PTL DEF Spec, DuplicatesOnlyInEndgame
=============================================================================
