------------------------------- MODULE Pieces -------------------------------
(***************************************************************************)
(* The piece manager of the download engine                                *)
(* (crates/engine/src/piece_manager.rs) as a data type: the record m is a  *)
(* value of struct PieceManager, and every method is an operator that      *)
(* returns the value after the call.  Where the code breaks a tie with     *)
(* fastrand the operator returns the SET of requests it may choose.        *)
(*                                                                         *)
(* A block is the pair <<piece, block index>>; it stands for the key       *)
(* (piece_index, begin) of the code, begin = block index * MAX_BLOCK_LEN.  *)
(* Bytes are abstracted to what SHA-1 tells apart: a stored block is       *)
(* corrupt or not.                                                         *)
(*                                                                         *)
(* No variable and no recursion here: the lemmas of PiecesProofs are about *)
(* these operators, and PieceManager and Session use them in their actions.*)
(***************************************************************************)
EXTENDS Naturals, FiniteSets

CONSTANTS
  Peers,        \* addresses of remote peers (PeerHandle)
  NumPieces,    \* number of pieces of the torrent
  PieceBlocks,  \* blocks in every piece but the last
  LastBlocks    \* blocks in the last, possibly shorter, piece

ASSUME PiecesAssumption ==
  /\ NumPieces \in Nat \ {0}
  /\ PieceBlocks \in Nat \ {0}
  /\ LastBlocks \in 1 .. PieceBlocks

ASSUME PeersAssumption == IsFiniteSet(Peers)

Pieces == 0 .. NumPieces - 1

\* block_count(piece_len(p))
BlockCount(p) == IF p = NumPieces - 1 THEN LastBlocks ELSE PieceBlocks

BlockIdx(p) == 0 .. BlockCount(p) - 1

Blocks == {k \in Pieces \X (0 .. PieceBlocks - 1) : k[2] < BlockCount(k[1])}

PieceStates == {"Missing", "Progress", "Done"}

(***************************************************************************)
(* The struct.  known is the domain of peer_pieces (peers whose bitfield   *)
(* arrived) and has[peer] the bitfield; received and corrupt are the       *)
(* PieceProgress of a piece in state "Progress", empty otherwise.          *)
(***************************************************************************)
PMs ==
  [ state     : [Pieces -> PieceStates],
    received  : [Pieces -> SUBSET (0 .. PieceBlocks - 1)],
    corrupt   : [Pieces -> SUBSET (0 .. PieceBlocks - 1)],
    rarity    : [Pieces -> Nat],
    known     : SUBSET Peers,
    has       : [Peers -> SUBSET Pieces],
    inFlight  : [Peers -> SUBSET Blocks],
    pending   : SUBSET Blocks,
    doneCount : Nat ]

NewPM ==
  [ state     |-> [p \in Pieces |-> "Missing"],
    received  |-> [p \in Pieces |-> {}],
    corrupt   |-> [p \in Pieces |-> {}],
    rarity    |-> [p \in Pieces |-> 0],
    known     |-> {},
    has       |-> [peer \in Peers |-> {}],
    inFlight  |-> [peer \in Peers |-> {}],
    pending   |-> {},
    doneCount |-> 0 ]

IsComplete(m) == m.doneCount = NumPieces

(***************************************************************************)
(* Choosing the next block for a peer with bitfield bf.                    *)
(***************************************************************************)

\* Blocks of a piece that are neither stored nor marked in flight.
FreeBlocks(m, p) ==
  {b \in BlockIdx(p) : b \notin m.received[p] /\ <<p, b>> \notin m.pending}

Lowest(S) == {b \in S : \A c \in S : b <= c}

\* pick_rarest: the pieces the random tie-break chooses from.
PickRarest(m, C) == {p \in C : \A q \in C : m.rarity[p] <= m.rarity[q]}

\* Continue a started piece that still has a free block.
PickPartial(m, bf) ==
  LET C == {p \in bf : m.state[p] = "Progress" /\ FreeBlocks(m, p) # {}}
  IN  {k \in Blocks : k[1] \in PickRarest(m, C) /\ k[2] \in Lowest(FreeBlocks(m, k[1]))}

\* Start a new piece at its first block.
PickNew(m, bf) ==
  LET C == {p \in bf : m.state[p] = "Missing"}
  IN  {<<p, 0>> : p \in PickRarest(m, C)}

\* Mutant: stops at the first block in flight even when this peer owes it.
PickEndgameFirst(m, peer, bf) ==
  LET Owed(p) == {b \in BlockIdx(p) : b \notin m.received[p] /\ <<p, b>> \in m.pending}
  IN  {k \in Blocks : /\ k[1] \in bf
                      /\ m.state[k[1]] = "Progress"
                      /\ k \notin m.inFlight[peer]
                      /\ k[2] \in Lowest(Owed(k[1]))}

\* Duplicate a block that somebody else owes us: per piece the first one
\* this peer was not asked for.
PickEndgame(m, peer, bf) ==
  LET Owed(p) == {b \in BlockIdx(p) : /\ b \notin m.received[p]
                                      /\ <<p, b>> \in m.pending
                                      /\ <<p, b>> \notin m.inFlight[peer]}
  IN  {k \in Blocks : /\ k[1] \in bf
                      /\ m.state[k[1]] = "Progress"
                      /\ k[2] \in Lowest(Owed(k[1]))}

\* The requests next_block_request may return; empty for None.
NextBlockRequest(m, peer, bf) ==
  IF PickPartial(m, bf) # {} THEN PickPartial(m, bf)
  ELSE IF PickNew(m, bf) # {} THEN PickNew(m, bf)
  ELSE PickEndgame(m, peer, bf)

\* Bookkeeping of the chosen request k: a new piece becomes Progress.
Issue(m, peer, k) ==
  [m EXCEPT !.state[k[1]] = "Progress",
            !.inFlight[peer] = @ \cup {k},
            !.pending = @ \cup {k}]

(***************************************************************************)
(* Events about peers.                                                     *)
(***************************************************************************)

\* on_peer_bitfield: overwrites the peer's map.  The old map, if there is one,
\* is not taken back from rarity.
OnPeerBitfield(m, peer, bf) ==
  [m EXCEPT !.rarity = [p \in Pieces |-> IF p \in bf THEN @[p] + 1 ELSE @[p]],
            !.known = @ \cup {peer},
            !.has[peer] = bf]

\* Mutant: a Have before the bitfield is recorded.
OnPeerHaveEarly(m, peer, p) ==
  IF p \in m.has[peer] THEN m
  ELSE [m EXCEPT !.has[peer] = @ \cup {p}, !.rarity[p] = @ + 1]

\* Mutant: a repeated Have counts again.
OnPeerHaveRepeated(m, peer, p) ==
  IF peer \notin m.known THEN m
  ELSE [m EXCEPT !.has[peer] = @ \cup {p}, !.rarity[p] = @ + 1]

\* on_peer_have: ignored before the bitfield and for a piece already announced.
OnPeerHave(m, peer, p) ==
  IF peer \notin m.known \/ p \in m.has[peer] THEN m
  ELSE [m EXCEPT !.has[peer] = @ \cup {p}, !.rarity[p] = @ + 1]

\* Mutant: the marks stay behind.
ReleaseInFlightKeepsPending(m, peer) == [m EXCEPT !.inFlight[peer] = {}]

\* release_in_flight: everything this peer owes us is free again.
ReleaseInFlight(m, peer) ==
  [m EXCEPT !.inFlight[peer] = {}, !.pending = @ \ m.inFlight[peer]]

OnPeerDisconnected(m, peer) ==
  LET forgotten ==
        IF peer \notin m.known THEN m
        ELSE [m EXCEPT
               !.rarity = [p \in Pieces |->
                 IF p \in m.has[peer] /\ @[p] > 0 THEN @[p] - 1 ELSE @[p]],
               !.known = @ \ {peer},
               !.has[peer] = {}]
  IN  ReleaseInFlight(forgotten, peer)

(***************************************************************************)
(* on_block_received.  What a message may carry for the block k:           *)
(*   good     the right bytes, at the block's own offset                   *)
(*   bad      wrong bytes of the right length                              *)
(*   skewed   right length, but begin is not a multiple of the block       *)
(*            length: the block index is begin / MAX_BLOCK_LEN, the copy   *)
(*            runs into the next block                                     *)
(*   short    inside the piece, but not the block's length                 *)
(*   outside  empty, or past the end of the piece: InvalidBlock            *)
(* A skewed message has a key nobody was asked for.                        *)
(***************************************************************************)
MessageKinds == {"good", "bad", "skewed", "short", "outside"}

\* The last block of a piece cannot be skewed: the copy would leave the piece.
Message(k, kind) ==
  kind = "skewed" => k[2] < BlockCount(k[1]) - 1

\* The key is no longer in flight, whatever happens to the data.
Unassign(m, peer, k) ==
  [m EXCEPT !.inFlight[peer] = @ \ {k}, !.pending = @ \ {k}]

\* Stored blocks that hold wrong bytes after the copy.
Damage(m, k, kind) ==
  CASE kind = "good"   -> m.corrupt[k[1]]
    [] kind = "skewed" -> m.corrupt[k[1]] \cup {k[2]} \cup (m.received[k[1]] \cap {k[2] + 1})
    [] OTHER           -> m.corrupt[k[1]] \cup {k[2]}

\* Copy into the buffer and mark the block received.
Store(m, k, kind) ==
  [m EXCEPT !.received[k[1]] = @ \cup {k[2]}, !.corrupt[k[1]] = Damage(m, k, kind)]

\* The piece leaves Progress with its buffer: verified, or emptied for a refetch.
Finish(m, p) ==
  [m EXCEPT !.state[p] = "Done", !.received[p] = {}, !.corrupt[p] = {}, !.doneCount = @ + 1]

Reset(m, p) ==
  [m EXCEPT !.state[p] = "Progress", !.received[p] = {}, !.corrupt[p] = {}]

Result(m, event) == [pm |-> m, event |-> event]

\* Mutant: blocks are stored whatever the state of the piece.
AcceptsAnyState(m, k, kind) ==
  kind \in {"good", "bad", "skewed"} /\ k[2] \notin m.received[k[1]]

\* The block is stored only in a started piece, once, and with its length.
Accepts(m, k, kind) ==
  /\ kind \in {"good", "bad", "skewed"}
  /\ m.state[k[1]] = "Progress"
  /\ k[2] \notin m.received[k[1]]

OnBlockReceived(m, peer, k, kind) ==
  LET u == IF kind = "skewed" THEN m ELSE Unassign(m, peer, k)
      s == Store(u, k, kind)
      p == k[1]
  IN  IF kind = "outside" THEN Result(u, "InvalidBlock")
      ELSE IF ~ Accepts(u, k, kind) THEN Result(u, "BlockStored")
      ELSE IF s.received[p] # BlockIdx(p) THEN Result(s, "BlockStored")
      ELSE IF s.corrupt[p] = {} THEN Result(Finish(s, p), "PieceCompleted")
      ELSE Result(Reset(s, p), "PieceHashMismatch")

\* mark_verified: the recheck found the piece on disk.
MarkVerified(m, p) == IF m.state[p] = "Done" THEN m ELSE Finish(m, p)

\* cancel_targets: who else holds the block in flight.
CancelTargets(m, k, except) ==
  {other \in Peers \ {except} : k \in m.inFlight[other]}

(***************************************************************************)
(* What every value of the manager satisfies between two calls.            *)
(***************************************************************************)

\* Types of the fields; a piece has a buffer only while in progress, only a
\* stored block can be corrupt, and a peer has no map before its bitfield.
Typed(m) ==
  /\ m \in PMs
  /\ \A p \in Pieces : /\ m.received[p] \subseteq BlockIdx(p)
                       /\ m.corrupt[p] \subseteq m.received[p]
                       /\ m.state[p] # "Progress" => m.received[p] = {}
  /\ \A peer \in Peers : peer \notin m.known => m.has[peer] = {}

DonePieces(m) == {p \in Pieces : m.state[p] = "Done"}

Owners(m, p) == {peer \in m.known : p \in m.has[peer]}

\* A block that is neither stored nor part of a verified piece.
Needed(m, k) == m.state[k[1]] # "Done" /\ k[2] \notin m.received[k[1]]

Counted(m) == m.doneCount = Cardinality(DonePieces(m))

\* rarity is the number of owners plus the copies s of maps that were replaced.
RarityCounted(m, s) == \A p \in Pieces : m.rarity[p] = Cardinality(Owners(m, p)) + s[p]

Held(m) == \A k \in m.pending : \E peer \in Peers : k \in m.inFlight[peer]

Started(m) == \A peer \in Peers : \A k \in m.inFlight[peer] : m.state[k[1]] # "Missing"

Unfinished(m) == \A p \in Pieces : m.state[p] = "Progress" => m.received[p] # BlockIdx(p)

Consistent(m) ==
  Typed(m) /\ Counted(m) /\ Held(m) /\ Started(m) /\ Unfinished(m)
=============================================================================
