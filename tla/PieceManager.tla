---------------------------- MODULE PieceManager ----------------------------
(***************************************************************************)
(* The piece manager under the calls the session hub makes of it           *)
(* (crates/engine/src/session.rs): bitfield, Have, Choke, Disconnected and *)
(* Block messages in any order, block requests for unchoked peers, and     *)
(* verdicts of the recheck.  A connection sends its bitfield once, but two *)
(* connections of one address may overlap, so the manager may get another  *)
(* bitfield of a peer it already knows.  What the peers send is not        *)
(* trusted: a Block message may carry any block, requested or not, intact  *)
(* or not.                                                                 *)
(***************************************************************************)
EXTENDS Pieces

CONSTANT MaxStale  \* bound: replaced maps that named a piece

VARIABLES
  pm,    \* the PieceManager of the session
  stale  \* history: per piece, the maps naming it that a later one replaced

vars == <<pm, stale>>

Init ==
  /\ pm = NewPM
  /\ stale = [p \in Pieces |-> 0]

-----------------------------------------------------------------------------
(***************************************************************************)
(* The calls.                                                              *)
(***************************************************************************)

Bitfield(peer, bf) ==
  /\ \A p \in pm.has[peer] : stale[p] < MaxStale
  /\ pm' = OnPeerBitfield(pm, peer, bf)
  /\ stale' = [p \in Pieces |-> IF p \in pm.has[peer] THEN stale[p] + 1 ELSE stale[p]]

Have(peer, p) == pm' = OnPeerHave(pm, peer, p) /\ UNCHANGED stale

\* The hub passes the bitfield of its own link, which is not the manager's map
\* before the peer sent one, nor after the link was replaced.
Request(peer, bf) ==
  /\ \E k \in NextBlockRequest(pm, peer, bf) : pm' = Issue(pm, peer, k)
  /\ UNCHANGED stale

Choke(peer) == pm' = ReleaseInFlight(pm, peer) /\ UNCHANGED stale

Disconnected(peer) == pm' = OnPeerDisconnected(pm, peer) /\ UNCHANGED stale

Block(peer, k, kind) ==
  /\ Message(k, kind)
  /\ pm' = OnBlockReceived(pm, peer, k, kind).pm
  /\ UNCHANGED stale

Verified(p) == pm' = MarkVerified(pm, p) /\ UNCHANGED stale

Next ==
  \/ \E peer \in Peers, bf \in SUBSET Pieces : Bitfield(peer, bf)
  \/ \E peer \in Peers, p \in Pieces : Have(peer, p)
  \/ \E peer \in Peers, bf \in SUBSET Pieces : Request(peer, bf)
  \/ \E peer \in Peers : Choke(peer)
  \/ \E peer \in Peers : Disconnected(peer)
  \/ \E peer \in Peers, k \in Blocks, kind \in MessageKinds : Block(peer, k, kind)
  \/ \E p \in Pieces : Verified(p)

Spec == Init /\ [][Next]_vars

-----------------------------------------------------------------------------
(***************************************************************************)
(* Invariants.                                                             *)
(***************************************************************************)

\* Types of the fields, and which of them are empty when.
TypeOK == Typed(pm)

\* done_count, from which is_complete decides the end of the download, counts
\* the verified pieces exactly, whichever of the network and the recheck
\* delivered each of them.
DoneCounted == Counted(pm)

\* rarity, which orders the choice of pieces, is the number of known peers that
\* announced the piece plus one for every map of it that a later bitfield of the
\* same peer replaced: that is the only way it drifts from its comment, and Have
\* duplicates, disconnections and the drift itself never make it fall short.
RarityExact == RarityCounted(pm, stale)

\* A block marked as in flight is owed by some peer: no choke, disconnection,
\* late or unrequested block can leave a mark that hides the block from every
\* later request.
PendingHeld == Held(pm)

\* Blocks are in flight only for pieces that were started: a new piece can
\* always be claimed at its first block.
InFlightStarted == Started(pm)

\* A piece in progress lacks a block: a full buffer is always hashed on the
\* spot, so no piece is complete in memory yet never verified.
NoUnhashedBuffer == Unfinished(pm)

\* next_block_request answers None only when the peer was asked for every
\* needed block it has: partial pieces, new pieces and endgame leave no gap.
WorkConserving ==
  \A peer \in Peers, bf \in SUBSET Pieces :
    (\E k \in Blocks : k[1] \in bf /\ Needed(pm, k) /\ k \notin pm.inFlight[peer])
      => NextBlockRequest(pm, peer, bf) # {}

(***************************************************************************)
(* Action properties.                                                      *)
(***************************************************************************)

\* A verified piece stays verified, however late or wrong the blocks that
\* still arrive for it.
VerifiedStays ==
  [][\A p \in Pieces : pm.state[p] = "Done" => pm'.state[p] = "Done"]_vars

\* No request is ever issued for a block that is stored or verified.
AsksOnlyForNeeded ==
  [][\A peer \in Peers : \A k \in pm'.inFlight[peer] \ pm.inFlight[peer] : Needed(pm, k)]_vars

\* Duplicates are for the endgame: a block in flight is requested from a second
\* peer only when the bitfield it is asked by has no free block and no new piece
\* to offer.
DuplicatesOnlyInEndgame ==
  [][\A peer \in Peers, bf \in SUBSET Pieces : Request(peer, bf) =>
       \A k \in (pm'.inFlight[peer] \ pm.inFlight[peer]) \cap pm.pending :
         \A p \in bf :
           /\ pm.state[p] # "Missing"
           /\ pm.state[p] = "Progress" => FreeBlocks(pm, p) = {}]_vars
=============================================================================
