------------------------------- MODULE Session -------------------------------
(***************************************************************************)
(* A download session (crates/engine/src/session.rs): the hub, which owns  *)
(* the piece manager and handles one event at a time, composed with the    *)
(* tasks it exchanges messages with: the peers, the disk writer, the       *)
(* recheck of the files already on disk and the owner's commands.          *)
(*                                                                         *)
(* One action per handler.  The events of the writer and of the recheck    *)
(* wait in the hub's channel in the order they were sent: what they report *)
(* may be stale when handled.  A peer's message is produced when the hub   *)
(* handles it, wherever it then stands among those: the peer may send at   *)
(* any time, so nothing is gained by keeping it in the channel as well.    *)
(* A connection is a task.  An address that trackers, the DHT or PEX name  *)
(* is dialled once, even while its peer is connected to us: the new task   *)
(* takes over the link, choked and without a bitfield, but events of the   *)
(* old one still arrive under the same address, the last one reports its   *)
(* end, and that report removes the link, whosever it is by then.          *)
(* A session from a magnet link first fetches the info dictionary, piece   *)
(* by piece, from any peer that offers it; the first copy with the right   *)
(* hash gives the torrent, and the session goes on to the recheck.         *)
(***************************************************************************)
EXTENDS Pieces, SequencesExt

CONSTANTS
  Honest,        \* peers that send only the right bytes of what was requested
  Named,         \* peers whose address is named to us, so that we dial it once
  Kinds,         \* what the other peers' Block messages may carry
  Pipeline,      \* PIPELINE: requests in flight per peer
  RecheckBatch,  \* BATCH: pieces read before their verdicts are sent
  DiskFails,     \* whether a write may fail
  Stops,         \* endings by the owner and the idle timer that may happen
  Magnet,        \* whether the session starts from a magnet link
  MetaPieces,    \* pieces of the info dictionary
  MaxDeclared,   \* bound: largest number of them a handshake declares
  MaxRarity      \* bound: rarity of the pieces of a bitfield that is replaced

ASSUME SessionAssumption ==
  /\ Honest \subseteq Peers
  /\ Named \subseteq Peers \ Honest
  /\ Kinds \subseteq MessageKinds
  /\ Pipeline \in Nat \ {0}
  /\ RecheckBatch \in Nat \ {0}
  /\ DiskFails \in BOOLEAN
  /\ Stops \subseteq {"Shutdown", "Idle"}
  /\ Magnet \in BOOLEAN
  /\ MetaPieces \in Nat \ {0}
  /\ MaxDeclared \in Nat /\ MaxDeclared >= MetaPieces
  /\ MaxRarity \in Nat

VARIABLES
  pm,             \* Hub.pm
  links,          \* keys of Hub.peers
  tasks,          \* per address, the tasks whose Disconnected is not handled yet
  fresh,          \* how many of them have not sent their bitfield
  dialled,        \* addresses of Named that were dialled (Hub.tried)
  unchoked,       \* links whose peer unchoked us (PeerLink.unchoked)
  linkHas,        \* PeerLink.bitfield
  blind,          \* links whose bitfield is one of no pieces
  raw,            \* PeerLink.raw_bitfield: at most one bitfield
  collector,      \* PeerLink.collector
  owed,           \* requests an honest peer will answer: not cancelled since
  phase,          \* Hub.phase
  paused,         \* Hub.paused
  seed,           \* Hub.seed: keep seeding after the download
  onDisk,         \* Hub.on_disk: pieces confirmed by the disk
  verifiedBytes,  \* Hub.verified_bytes, in blocks
  pendingWrites,  \* Hub.pending_writes
  writeQ,         \* pieces sent to the writer task, not written yet
  events,         \* the hub's channel: what the writer and the recheck sent
  disk,           \* pieces whose right bytes are in the files
  read,           \* verdicts of the recheck task: "unread", "ok" or "no"
  sent,           \* events the recheck has sent: a verdict per piece, then Done
  ended           \* how session_loop returned, or "no"

magnetVars == <<blind, raw, collector>>
taskCounts == <<tasks, fresh, dialled>>
peerVars == <<links, unchoked, linkHas, taskCounts>>
taskVars == <<writeQ, events, disk, read, sent>>
vars == <<pm, peerVars, magnetVars, owed, phase, paused, seed, onDisk, verifiedBytes,
          pendingWrites, taskVars, ended>>

PieceLen(p) == BlockCount(p)

NoCollector == [total |-> 0, next |-> 0, clean |-> TRUE]

Init ==
  /\ pm = NewPM
  /\ links = {} /\ unchoked = {}
  /\ tasks = [q \in Peers |-> 0] /\ fresh = [q \in Peers |-> 0] /\ dialled = {}
  /\ linkHas = [q \in Peers |-> {}]
  /\ blind = {} /\ raw = [q \in Peers |-> {}]
  /\ collector = [q \in Peers |-> NoCollector]
  /\ owed = [q \in Peers |-> {}]
  /\ phase = IF Magnet THEN "Metadata" ELSE "Recheck"
  /\ paused = FALSE /\ seed \in BOOLEAN
  /\ onDisk = {} /\ verifiedBytes = 0 /\ pendingWrites = 0
  /\ writeQ = <<>> /\ events = <<>>
  /\ disk \in SUBSET Pieces
  /\ read = [p \in Pieces |-> "unread"] /\ sent = 0
  /\ ended = "no"

-----------------------------------------------------------------------------
(***************************************************************************)
(* refill.  r is the part of the state that asking changes: the manager    *)
(* and what honest peers owe.                                              *)
(***************************************************************************)

\* One request to peer, and a Cancel to everybody else who holds the block.
Ask(r, peer, k) ==
  [pm   |-> Issue(r.pm, peer, k),
   owed |-> [q \in Peers |->
               CASE q = peer /\ q \in Honest           -> r.owed[q] \cup {k}
                 [] q \in CancelTargets(r.pm, k, peer) -> r.owed[q] \ {k}
                 [] OTHER                              -> r.owed[q]]]

\* Mutant: fills one slot too many.
HasSlotOffByOne(m, peer) == Cardinality(m.inFlight[peer]) <= Pipeline

HasSlot(m, peer) == Cardinality(m.inFlight[peer]) < Pipeline

\* One turn of the loop from each state of R; a state where it stops stays.
AskOnce(R, peer, bf) ==
  UNION { LET next == NextBlockRequest(r.pm, peer, bf)
          IN  IF HasSlot(r.pm, peer) /\ next # {}
              THEN {Ask(r, peer, k) : k \in next}
              ELSE {r}
          : r \in R }

\* Each turn takes a slot of the pipeline or marks a free block pending.
RefillBound == Pipeline + Cardinality(Blocks)

\* The states the loop may end in for a peer with bitfield bf.
AskAll(r, peer, bf) ==
  LET turn[n \in 0 .. RefillBound] ==
        IF n = 0 THEN {r} ELSE AskOnce(turn[n - 1], peer, bf)
  IN  turn[RefillBound]

HasTorrent == phase # "Metadata"

\* Mutant: asks while paused.
MayAskPaused(peer) == HasTorrent /\ peer \in links' /\ peer \in unchoked'

\* The early returns: nothing is asked while paused or without a torrent, nor of
\* a link that does not exist or chokes us.
MayAsk(peer) == ~ paused' /\ HasTorrent /\ peer \in links' /\ peer \in unchoked'

\* The states refill(peer) may leave.
Refill(r, peer) == IF MayAsk(peer) THEN AskAll(r, peer, linkHas'[peer]) ELSE {r}

RefillEach(R, peer) == UNION {Refill(r, peer) : r \in R}

\* The loop over all links, in some order of the hash map.
RefillInOrder(r, order) ==
  LET upTo[n \in 0 .. Len(order)] ==
        IF n = 0 THEN {r} ELSE RefillEach(upTo[n - 1], order[n])
  IN  upTo[Len(order)]

RefillAll(r) == UNION {RefillInOrder(r, order) : order \in SetToSeqs(links)}

Becomes(R) == \E r \in R : pm' = r.pm /\ owed' = r.owed

-----------------------------------------------------------------------------
(***************************************************************************)
(* Peer events.                                                            *)
(***************************************************************************)
Running == ended = "no"

UNCHANGED_HUB == UNCHANGED <<phase, paused, seed, onDisk, verifiedBytes, pendingWrites, taskVars, ended>>

\* Connections of peer that its link does not command (any more).
Ghosts(peer) == tasks[peer] - IF peer \in links THEN 1 ELSE 0

\* A task starts, and its link is entered: choked, with an empty bitfield.  A link
\* that is there already is overwritten; the manager hears nothing of it.
Register(peer) ==
  /\ Running
  /\ links' = links \cup {peer}
  /\ tasks' = [tasks EXCEPT ![peer] = @ + 1]
  /\ fresh' = [fresh EXCEPT ![peer] = @ + 1]
  /\ unchoked' = unchoked \ {peer}
  /\ linkHas' = [linkHas EXCEPT ![peer] = {}]
  /\ blind' = IF HasTorrent THEN blind \ {peer} ELSE blind \cup {peer}
  /\ raw' = [raw EXCEPT ![peer] = {}]
  /\ collector' = [collector EXCEPT ![peer] = NoCollector]
  /\ UNCHANGED <<pm, owed>> /\ UNCHANGED_HUB

\* spawn_peer does not look whether the peer has a link.
Dial(peer) ==
  /\ peer \in Named \ dialled
  /\ dialled' = dialled \cup {peer}
  /\ Register(peer)

\* InboundConnected does; the connection of a peer that has one is closed.
Accept(peer) ==
  /\ peer \notin links
  /\ UNCHANGED dialled
  /\ Register(peer)

\* A bitfield of the wrong length, or with a bit beyond the last piece.
Malformed == {NumPieces}

Wire == (SUBSET Pieces) \cup {Malformed}

\* The next message of some task of peer is its bitfield: its task lets one pass.
BitfieldComes(peer) ==
  /\ Running /\ fresh[peer] > 0
  /\ fresh' = [fresh EXCEPT ![peer] = @ - 1]
  /\ UNCHANGED <<links, unchoked, tasks, dialled, collector>> /\ UNCHANGED_HUB

\* Without a torrent the bitfield is kept as it came.
KeepRaw(peer, bf) ==
  /\ ~ HasTorrent /\ BitfieldComes(peer)
  /\ raw' = IF peer \in links THEN [raw EXCEPT ![peer] = {bf}] ELSE raw
  /\ UNCHANGED <<pm, linkHas, blind, owed>>

\* The manager counts the bitfield of a peer it knows once more.
RecvBitfield(peer, bf) ==
  /\ HasTorrent /\ BitfieldComes(peer)
  /\ peer \in pm.known => \A p \in pm.has[peer] : pm.rarity[p] < MaxRarity
  /\ blind' = blind \ {peer}
  /\ linkHas' = IF peer \in links THEN [linkHas EXCEPT ![peer] = bf] ELSE linkHas
  /\ UNCHANGED raw
  /\ Becomes(Refill([pm |-> OnPeerBitfield(pm, peer, bf), owed |-> owed], peer))

\* A malformed one only costs the peer its connection, which may end at any time.
RefuseBitfield(peer) ==
  /\ HasTorrent /\ BitfieldComes(peer)
  /\ UNCHANGED <<pm, linkHas, blind, raw, owed>>

\* No refill here: the new piece waits for the peer's next Block or Unchoke.
\* A link without pieces ignores it, with or without the torrent.
RecvHave(peer, p) ==
  /\ Running /\ HasTorrent /\ tasks[peer] > 0
  /\ pm' = OnPeerHave(pm, peer, p)
  /\ linkHas' = IF peer \in links \ blind THEN [linkHas EXCEPT ![peer] = @ \cup {p}] ELSE linkHas
  /\ UNCHANGED <<links, unchoked, taskCounts, magnetVars, owed>> /\ UNCHANGED_HUB

\* Mutant: the manager keeps the bitfield of the lost peer.
ForgetInFlightOnly(peer) == pm' = ReleaseInFlight(pm, peer)

Forget(peer) == pm' = OnPeerDisconnected(pm, peer)

\* The freed blocks wait for some other link's next event.
RecvChoke(peer) ==
  /\ Running /\ tasks[peer] > 0
  /\ pm' = ReleaseInFlight(pm, peer)
  /\ unchoked' = unchoked \ {peer}
  /\ owed' = [owed EXCEPT ![peer] = {}]
  /\ UNCHANGED <<links, linkHas, taskCounts, magnetVars>> /\ UNCHANGED_HUB

RecvUnchoke(peer) ==
  /\ Running /\ tasks[peer] > 0
  /\ unchoked' = unchoked \cup ({peer} \cap links)
  /\ UNCHANGED <<links, linkHas, taskCounts, magnetVars>> /\ UNCHANGED_HUB
  /\ Becomes(Refill([pm |-> pm, owed |-> owed], peer))

\* Mutant: the write is not counted.
SendToWriterUncounted(p) == UNCHANGED pendingWrites /\ writeQ' = Append(writeQ, p)

SendToWriter(p) == pendingWrites' = pendingWrites + 1 /\ writeQ' = Append(writeQ, p)

\* Block event: a verified piece goes to the writer whole; a block that does
\* not fit its piece costs the peer its connection and is not followed by a
\* refill.  An honest peer may have answered before our Cancel reached it.
RecvBlock(peer, k, kind) ==
  LET res == OnBlockReceived(pm, peer, k, kind)
      w   == [owed EXCEPT ![peer] = @ \ {k}]
  IN  /\ Running /\ HasTorrent /\ tasks[peer] > 0
      /\ Message(k, kind)
      /\ IF peer \in Honest THEN kind = "good" /\ k \in pm.inFlight[peer] ELSE kind \in Kinds
      /\ IF res.event = "PieceCompleted"
         THEN SendToWriter(k[1])
         ELSE UNCHANGED <<pendingWrites, writeQ>>
      /\ UNCHANGED <<peerVars, magnetVars, phase, paused, seed, onDisk, verifiedBytes,
                     events, disk, read, sent, ended>>
      /\ Becomes(IF res.event = "InvalidBlock" THEN {[pm |-> res.pm, owed |-> w]}
                 ELSE Refill([pm |-> res.pm, owed |-> w], peer))

\* The last event of a task: the manager forgets the peer, and the link goes, also
\* when it is that of a later task, which then ends as well.
Disconnected(peer) ==
  /\ Running /\ tasks[peer] > 0
  /\ Forget(peer)
  /\ links' = links \ {peer}
  /\ tasks' = [tasks EXCEPT ![peer] = @ - 1]
  /\ \E n \in {fresh[peer], fresh[peer] - 1} \cap (0 .. tasks[peer] - 1) :
       fresh' = [fresh EXCEPT ![peer] = n]
  /\ UNCHANGED dialled
  /\ unchoked' = unchoked \ {peer}
  /\ linkHas' = [linkHas EXCEPT ![peer] = {}]
  /\ blind' = blind \ {peer}
  /\ raw' = [raw EXCEPT ![peer] = {}]
  /\ collector' = [collector EXCEPT ![peer] = NoCollector]
  /\ owed' = [owed EXCEPT ![peer] = {}]
  /\ UNCHANGED_HUB

-----------------------------------------------------------------------------
(***************************************************************************)
(* The magnet phase.  A peer's extension handshake declares the length of  *)
(* the dictionary, whose pieces we then ask of it one after the other.     *)
(***************************************************************************)
InMetadata(peer) ==
  /\ Running /\ ~ HasTorrent /\ peer \in links
  /\ UNCHANGED <<links, unchoked, taskCounts, owed, paused, seed, onDisk, verifiedBytes, pendingWrites,
                 taskVars, ended>>

\* on_ext_handshake, also a repeated one: an honest peer sends one.  A length that is refused ends the
\* connection, which may end at any time.
ExtHandshake(peer, total) ==
  /\ InMetadata(peer)
  /\ peer \in Honest => total = MetaPieces /\ collector[peer] = NoCollector
  /\ collector' = [collector EXCEPT ![peer] = [NoCollector EXCEPT !.total = total]]
  /\ UNCHANGED <<pm, linkHas, blind, raw, phase>>

\* verify_metadata: the whole dictionary is there, with the right hash.
Verified(c) == c.next = c.total /\ c.clean /\ c.total = MetaPieces

\* Mutant: the bitfields are dropped.
ReplayNothing == {}

\* The links whose bitfield is replayed: those that got one that fits the torrent.
Replayed == {peer \in links : raw[peer] \notin {{}, {Malformed}}}

Replay(m, peer) == OnPeerBitfield(m, peer, UNION raw[peer])

\* The manager after these links, in the order of the hash map.
ReplayInOrder(m, order) ==
  LET after[n \in 0 .. Len(order)] ==
        IF n = 0 THEN m ELSE Replay(after[n - 1], order[n])
  IN  after[Len(order)]

\* metadata_complete: the bitfields that came too early count now, and nobody
\* goes on collecting.
MetadataComplete ==
  /\ phase' = "Recheck"
  /\ pm' \in {ReplayInOrder(pm, order) : order \in SetToSeqs(Replayed)}
  /\ linkHas' = [peer \in Peers |-> IF peer \in Replayed THEN UNION raw[peer] ELSE {}]
  /\ blind' = blind \ Replayed
  /\ raw' = [peer \in Peers |-> {}]
  /\ collector' = [peer \in Peers |-> NoCollector]

\* on_metadata_piece: the piece asked for, with right or wrong bytes.  The last
\* one completes the torrent, or shows that the peer is of no use.
MetadataPiece(peer, good) ==
  LET c == [collector[peer] EXCEPT !.next = @ + 1, !.clean = @ /\ good]
  IN  /\ InMetadata(peer)
      /\ collector[peer] # NoCollector
      /\ peer \in Honest => good
      /\ IF Verified(c) THEN MetadataComplete
         ELSE /\ collector' = [collector EXCEPT ![peer] = IF c.next < c.total THEN c ELSE NoCollector]
              /\ UNCHANGED <<pm, linkHas, blind, raw, phase>>

\* A piece out of order or of the wrong length, or a reject: the peer goes.
MetadataFailed(peer) ==
  /\ InMetadata(peer)
  /\ peer \notin Honest /\ collector[peer] # NoCollector
  /\ collector' = [collector EXCEPT ![peer] = NoCollector]
  /\ UNCHANGED <<pm, linkHas, blind, raw, phase>>

-----------------------------------------------------------------------------
(***************************************************************************)
(* The disk.  The writer is the only task that writes and takes the pieces *)
(* in order.  It goes on after the end of the session: teardown waits for  *)
(* it.  A write that fails may leave any part of the right bytes.          *)
(***************************************************************************)

Event(kind, p, ok) == [kind |-> kind, piece |-> p, ok |-> ok]

\* Mutant: the error of the write is dropped.
OutcomeIgnored(p, ok) == Event("Disk", p, TRUE)

\* The result that the Disk event carries.
Outcome(p, ok) == Event("Disk", p, ok)

\* Mutant: the writer dies with the session.
NextWriteRunning == Running /\ writeQ # <<>>

NextWrite == writeQ # <<>>

WritePiece(ok) ==
  /\ NextWrite
  /\ ok \/ DiskFails
  /\ disk' = IF ok THEN disk \cup {Head(writeQ)} ELSE disk
  /\ writeQ' = Tail(writeQ)
  /\ events' = Append(events, Outcome(Head(writeQ), ok))
  /\ UNCHANGED <<pm, peerVars, magnetVars, owed, phase, paused, seed, onDisk,
                 verifiedBytes, pendingWrites, read, sent, ended>>

(***************************************************************************)
(* The recheck task hashes a batch of pieces in parallel, then sends the   *)
(* verdicts of the batch in order, and RecheckDone after the last.         *)
(***************************************************************************)
Batch(p) == {q \in Pieces : q \div RecheckBatch = p \div RecheckBatch}

\* The verdicts of the earlier batches are out before the next one is read.
RecheckRead(p) ==
  /\ Running /\ HasTorrent /\ read[p] = "unread"
  /\ \A q \in Pieces : q < p /\ q \notin Batch(p) => q < sent
  /\ read' = [read EXCEPT ![p] = IF p \in disk THEN "ok" ELSE "no"]
  /\ UNCHANGED <<pm, peerVars, magnetVars, owed, phase, paused, seed, onDisk,
                 verifiedBytes, pendingWrites, writeQ, events, disk, sent, ended>>

RecheckSend ==
  /\ Running /\ HasTorrent /\ sent <= NumPieces
  /\ sent' = sent + 1
  /\ IF sent = NumPieces
     THEN events' = Append(events, Event("RecheckDone", 0, TRUE))
     ELSE /\ \A q \in Batch(sent) : read[q] # "unread"
          /\ events' = Append(events, Event("Recheck", sent, read[sent] = "ok"))
  /\ UNCHANGED <<pm, peerVars, magnetVars, owed, phase, paused, seed, onDisk,
                 verifiedBytes, pendingWrites, writeQ, disk, read, ended>>

-----------------------------------------------------------------------------
(***************************************************************************)
(* What the hub does with the events of the two tasks.                     *)
(***************************************************************************)
Handle(kind) ==
  /\ Running /\ events # <<>> /\ Head(events).kind = kind
  /\ events' = Tail(events)
  /\ UNCHANGED <<peerVars, magnetVars, paused, seed, writeQ, disk, read, sent>>

\* What session_loop does when the last write is confirmed.
Finished ==
  /\ phase' = IF seed THEN "Seed" ELSE phase
  /\ ended' = IF seed THEN ended ELSE "Completed"

\* Mutant: the write stays pending.
ConfirmKeepsPending(p) ==
  /\ pendingWrites' = pendingWrites
  /\ verifiedBytes' = verifiedBytes + PieceLen(p)
  /\ onDisk' = onDisk \cup {p}

Confirm(p) ==
  /\ pendingWrites' = pendingWrites - 1
  /\ verifiedBytes' = verifiedBytes + PieceLen(p)
  /\ onDisk' = onDisk \cup {p}

AllWritten == IsComplete(pm) /\ pendingWrites' = 0

\* Disk event: the piece counts from now on.  A failed write ends the session.
DiskAck ==
  /\ Handle("Disk")
  /\ UNCHANGED <<pm, owed>>
  /\ IF Head(events).ok
     THEN /\ Confirm(Head(events).piece)
          /\ IF AllWritten THEN Finished ELSE UNCHANGED <<phase, ended>>
     ELSE /\ ended' = "Failed"
          /\ UNCHANGED <<phase, onDisk, verifiedBytes, pendingWrites>>

\* Mutant: the manager does not learn that the piece is there.
FoundUnmarked(p) ==
  /\ verifiedBytes' = verifiedBytes + PieceLen(p)
  /\ UNCHANGED pm
  /\ onDisk' = onDisk \cup {p}

Found(p) ==
  /\ verifiedBytes' = verifiedBytes + PieceLen(p)
  /\ pm' = MarkVerified(pm, p)
  /\ onDisk' = onDisk \cup {p}

\* Recheck event.
RecheckVerdict ==
  /\ Handle("Recheck")
  /\ IF Head(events).ok
     THEN Found(Head(events).piece)
     ELSE UNCHANGED <<verifiedBytes, pm, onDisk>>
  /\ UNCHANGED <<owed, phase, pendingWrites, ended>>

\* Mutant: always on to the download.
AfterRecheckDownload == "Download"

AfterRecheck == IF IsComplete(pm) THEN "Seed" ELSE "Download"

\* RecheckDone: seed what is complete, download the rest from every link.
RecheckDone ==
  /\ Handle("RecheckDone")
  /\ phase' = AfterRecheck
  /\ ended' = IF phase' = "Seed" /\ ~ seed THEN "Completed" ELSE ended
  /\ UNCHANGED <<onDisk, verifiedBytes, pendingWrites>>
  /\ Becomes(RefillAll([pm |-> pm, owed |-> owed]))

-----------------------------------------------------------------------------
(***************************************************************************)
(* Commands of the owner.  A command may repeat.                           *)
(***************************************************************************)
OthersUnchanged ==
  UNCHANGED <<peerVars, magnetVars, phase, seed, onDisk, verifiedBytes, pendingWrites, taskVars>>

Pause ==
  /\ Running /\ paused' = TRUE
  /\ UNCHANGED <<pm, owed, ended>> /\ OthersUnchanged

Resume ==
  /\ Running /\ paused' = FALSE
  /\ UNCHANGED ended /\ OthersUnchanged
  /\ Becomes(RefillAll([pm |-> pm, owed |-> owed]))

Shutdown ==
  /\ Running /\ "Shutdown" \in Stops
  /\ ended' = "Shutdown"
  /\ UNCHANGED <<pm, owed, paused>> /\ OthersUnchanged

\* The idle timer fires only in these phases, unpaused; when it may do so is the
\* subject of IdleTimer.
IdleTimeout ==
  /\ Running /\ phase \in {"Metadata", "Download"} /\ ~ paused
  /\ "Idle" \in Stops /\ ended' = "Idle"
  /\ UNCHANGED <<pm, owed, paused>> /\ OthersUnchanged

PeerStep ==
  \/ \E peer \in Peers : Dial(peer)
  \/ \E peer \in Peers : Accept(peer)
  \/ \E peer \in Peers, bf \in Wire : KeepRaw(peer, bf)
  \/ \E peer \in Peers, bf \in SUBSET Pieces : RecvBitfield(peer, bf)
  \/ \E peer \in Peers : RefuseBitfield(peer)
  \/ \E peer \in Peers, p \in Pieces : RecvHave(peer, p)
  \/ \E peer \in Peers : RecvChoke(peer)
  \/ \E peer \in Peers : RecvUnchoke(peer)
  \/ \E peer \in Peers, k \in Blocks, kind \in MessageKinds : RecvBlock(peer, k, kind)
  \/ \E peer \in Peers : Disconnected(peer)

MagnetStep ==
  \E peer \in Peers :
    \/ \E total \in 1 .. MaxDeclared : ExtHandshake(peer, total)
    \/ \E good \in BOOLEAN : MetadataPiece(peer, good)
    \/ MetadataFailed(peer)

TaskStep ==
  \/ \E ok \in BOOLEAN : WritePiece(ok)
  \/ \E p \in Pieces : RecheckRead(p)
  \/ RecheckSend
  \/ DiskAck
  \/ RecheckVerdict
  \/ RecheckDone

OwnerStep == Pause \/ Resume \/ Shutdown \/ IdleTimeout

Next == PeerStep \/ MagnetStep \/ TaskStep \/ OwnerStep

Spec == Init /\ [][Next]_vars

(***************************************************************************)
(* Fairness.  The tasks of the runtime run, an answer that was not         *)
(* cancelled comes, a paused session is resumed.  What honest peers do     *)
(* beyond that is up to them: the assumption is that each connects, sends  *)
(* a full bitfield and the metadata, unchokes us and stays, and that       *)
(* nobody stops the session.  The other peers may come, choke and go as    *)
(* they like.                                                              *)
(***************************************************************************)
Steady ==
  /\ ended' \notin {"Shutdown", "Idle"}
  /\ \A peer \in Honest :
       /\ peer \in links => peer \in links'
       /\ peer \in unchoked => peer \in unchoked'
       /\ peer \in pm'.known => pm'.has[peer] = Pieces
       /\ raw'[peer] \subseteq {Pieces}
       /\ fresh'[peer] < fresh[peer] => peer \in pm'.known \/ raw'[peer] # {}

Answer(peer) == \E k \in owed[peer] : RecvBlock(peer, k, "good")

Fairness ==
  /\ WF_vars(\E ok \in BOOLEAN : WritePiece(ok))
  /\ WF_vars(DiskAck)
  /\ WF_vars(\E p \in Pieces : RecheckRead(p))
  /\ WF_vars(RecheckSend)
  /\ WF_vars(RecheckVerdict)
  /\ WF_vars(RecheckDone)
  /\ WF_vars(paused /\ Resume)
  /\ \A peer \in Honest :
       /\ WF_vars(Accept(peer))
       /\ WF_vars(KeepRaw(peer, Pieces) \/ RecvBitfield(peer, Pieces))
       /\ WF_vars(ExtHandshake(peer, MetaPieces))
       /\ WF_vars(MetadataPiece(peer, TRUE))
       /\ WF_vars(peer \notin unchoked /\ RecvUnchoke(peer))
       /\ WF_vars(Answer(peer))

FairSpec == Init /\ [][Next /\ Steady]_vars /\ Fairness

-----------------------------------------------------------------------------
(***************************************************************************)
(* Safety.                                                                 *)
(***************************************************************************)
Phases == {"Metadata", "Recheck", "Download", "Seed"}

Endings == {"no", "Completed", "Failed", "Shutdown", "Idle"}

\* Types of the variables.
TypeOK ==
  /\ pm \in PMs
  /\ links \subseteq Peers /\ unchoked \subseteq Peers
  /\ linkHas \in [Peers -> SUBSET Pieces]
  /\ blind \subseteq links /\ raw \in [Peers -> SUBSET Wire]
  /\ tasks \in [Peers -> 0 .. 2] /\ fresh \in [Peers -> 0 .. 2] /\ dialled \subseteq Named
  /\ collector \in [Peers -> [total : 0 .. MaxDeclared, next : 0 .. MaxDeclared, clean : BOOLEAN]]
  /\ owed \in [Peers -> SUBSET Blocks]
  /\ phase \in Phases /\ paused \in BOOLEAN /\ seed \in BOOLEAN
  /\ onDisk \subseteq Pieces /\ verifiedBytes \in Nat /\ pendingWrites \in Nat
  /\ writeQ \in Seq(Pieces)
  /\ events \in Seq([kind : {"Disk", "Recheck", "RecheckDone"}, piece : Pieces, ok : BOOLEAN])
  /\ disk \subseteq Pieces
  /\ read \in [Pieces -> {"unread", "ok", "no"}]
  /\ sent \in 0 .. NumPieces + 1
  /\ ended \in Endings

\* What the hub tells peers and the user it has (bitfield, Progress) is on the
\* disk with the right bytes, whatever the recheck read and whichever writes fail.
OnDiskTruth == onDisk \subseteq disk

\* Where the answers of the writer stand in the channel.
Acks == {i \in 1 .. Len(events) : events[i].kind = "Disk"}

OnTheWay == Range(writeQ) \cup {events[i].piece : i \in Acks}

\* Every verified piece is confirmed by the disk, or its write or the answer to
\* it is on its way: none is dropped between the manager and the writer.
VerifiedIsAccounted == Running => DonePieces(pm) = onDisk \cup OnTheWay

\* pending_writes, whose zero ends the download, counts the unanswered writes,
\* and no piece is written twice.
PendingWritesExact ==
  /\ Running => pendingWrites = Len(writeQ) + Cardinality(Acks)
  /\ Cardinality(OnTheWay) = Len(writeQ) + Cardinality(Acks)

\* A running session that has all pieces either seeds, is still in the recheck
\* or waits for a write: nothing else would ever tell it that it is done.
NeverStuckComplete ==
  Running /\ phase = "Download" /\ IsComplete(pm) => pendingWrites > 0

\* Never more than PIPELINE requests are outstanding at a peer, none at one that is
\* not connected, and none at one that chokes us but those that an earlier
\* connection leaves to the link that replaced it, until it reports its end.
RequestsWithinPipeline ==
  \A peer \in Peers :
    /\ Cardinality(pm.inFlight[peer]) <= Pipeline
    /\ pm.inFlight[peer] # {} => peer \in links /\ (peer \in unchoked \/ Ghosts(peer) > 0)

\* Once every connection that a link lost or replaced has reported its end, the hub's
\* copy of a peer's bitfield is the one that the manager counted in rarity, and no
\* peer is counted that is not connected.
BitfieldsAgree ==
  \A peer \in pm.known : Ghosts(peer) = 0 => peer \in links /\ linkHas[peer] = pm.has[peer]

\* A paused session sends no request, whatever the peers, the recheck and the
\* disk report meanwhile.
PausedAsksNothing ==
  [][paused /\ paused' => \A peer \in Peers : pm'.inFlight[peer] \subseteq pm.inFlight[peer]]_vars

\* The phase that fetches the torrent hands over everything: no peer goes on
\* collecting, each bitfield that came before it and fits the torrent is the one that
\* link and manager have from then on, and one that does not fit counts for nothing.
MetadataHandedOver ==
  [][~ HasTorrent /\ HasTorrent' =>
       \A peer \in links :
         /\ collector'[peer] = NoCollector
         /\ raw[peer] \subseteq {Malformed} => peer \notin pm'.known /\ linkHas'[peer] = {}
         /\ ~ raw[peer] \subseteq {Malformed} => peer \in pm'.known /\ raw[peer] = {linkHas'[peer]}]_vars

\* The session implements Download: a piece is accepted once, counts only when
\* the files hold it, and Completed is reported only when none is missing.
D == INSTANCE Download
       WITH have <- onDisk, coming <- OnTheWay, files <- disk, result <- ended

DownloadKept == D!Spec

(***************************************************************************)
(* Liveness, under FairSpec.                                               *)
(***************************************************************************)

\* The download gets done: every needed block is asked of an honest peer that
\* still owes it, each verdict and each write reaches the hub, and the last of
\* them is recognised as the end, whatever pauses, recheck and endgame
\* duplicates lie on the way.
Completes == <>(ended = "Completed" \/ phase = "Seed")

\* Every verified piece reaches the disk, even past the end of the session.
WritesDrain == [](\A p \in Pieces : p \in Range(writeQ) => <>(p \in disk))
=============================================================================
