# RustTorrent in TLA+

A TLA+ development of the BitTorrent client in this repository: models of its
engine and daemon, TLC runs that check them on small instances, and TLAPS proofs
of what holds for every instance. File names below are relative to `src/`; `ENG`
is `crates/engine/src`, `DMN` is `crates/daemon/src`.

1. [The system](#1-the-system)
2. [The modules](#2-the-modules)
3. [The runs](#3-the-runs)
4. [Fairness](#4-fairness)
5. [What is proved](#5-what-is-proved)
6. [Deviations met while modelling](#6-deviations-met-while-modelling)
7. [What is abstracted, and what is not modelled](#7-what-is-abstracted-and-what-is-not-modelled)
8. [The plan](#8-the-plan)

## 1. The system

One process runs the **daemon**, an actor that owns the registry of torrents. Every
torrent is one **session**: a *hub* task that owns all state of the download and
handles one event at a time, and tasks around it that only exchange messages with
it: one task per peer connection, the disk task, the recheck, one announce actor
per tracker, a DHT forwarder, a NAT actor. Nothing is shared between tasks but
channels. What is hard is therefore the order of messages: an event tells what was
true when it was sent, and the hub acts on it later.

| Component | State | Operations | Talks to |
|---|---|---|---|
| Piece manager `ENG/piece_manager.rs` | state and buffer of each piece, bitfields of the peers, rarity, blocks in flight per peer and their union `pending`, `done_count` | bitfield, Have, choke, disconnect, choose a block, receive a block, mark verified | called by the hub only |
| Session hub `ENG/session.rs` | links, phase, `paused`, `on_disk`, `verified_bytes`, `pending_writes`, connection queue, choke manager | one handler per event, commands of the owner, four timers | peer tasks, disk task, recheck, announces, DHT, owner |
| Magnet phase | collectors per peer, bitfields kept for later | collect and verify the info dictionary, go over to the recheck | hub, peers |
| Disk task, recheck, storage `ENG/storage.rs` | files | write a piece, read a block, map both to slices of files; hash batches of pieces in parallel | events to the hub |
| Choke manager `ENG/choke.rs` | set of the unchoked, cursor | recompute | called by the hub |
| Pool and PEX | links, queue, tried addresses; an outbox per peer | dial, accept, evict; report joins and leaves | peer tasks, trackers, DHT |
| Idle timer and announces `ENG/session.rs`, `crates/tracker` | two deadlines; actors with their queues; UDP exchanges | announce, repeat, report, time out | hub, trackers |
| DHT `crates/dht` | routing table, pending transactions, tokens, peer cache | bootstrap, iterative lookup, announce, answer queries | sessions, network |
| Daemon `DMN/lib.rs`, `DMN/persist.rs` | registry, waiting removals, state file, blobs | add, pause, remove, restore, shut down | client, sessions, accept router |
| Router, status `DMN/router.rs`, `DMN/status.rs` | map of info hashes; ring of speeds | hand over a stream; report | daemon |
| Codecs: `bencode`, `metainfo`, `peer-wire`, `ext-*`, `krpc.rs` | none | parse, format | all |
| NAT, CLI, app | none of interest | best effort; thin callers | |

What makes each of them correct:

- *Piece manager*: its counters and sets agree with what they summarise after any
  sequence of calls; no needed block becomes unobtainable; a verified piece is never
  taken back.
- *Session*: what it says it has is on disk; every verified piece gets there; the
  end is recognised, once and not too early; requests go only to peers that may be
  asked, and to none while paused; what was learned of a peer in the magnet phase is
  not lost on the way to the download; the download completes.
- *Upload*: a block that is sent has the bytes of the torrent, whatever is written to
  the same files meanwhile; slots are a limit in fact, and everybody gets a turn.
- *Pool*: no address waits while there is room; each peer hears by PEX of the
  links that are there and that left.
- *Announces*: the idle timer spares sessions that progress and ends the others; no
  answer is taken that was not asked for; the session is announced again and again.
- *DHT*: a walk sends no more queries than its budget and stops only when nothing
  better is left; every walk returns; an announce reaches the nodes that gave a token;
  the routing table only grows.
- *Daemon*: the sessions agree with the registry; what the state file was given to keep is
  there after a restart, and what was removed from it is not; no session runs on that
  nobody can stop; removals are answered.

`PROJECT.json` lists the hazards line by line, each with the properties for it.

## 2. The modules

| Module | Models | State | Actions |
|---|---|---|---|
| `Pieces` | `ENG/piece_manager.rs` as a data type: a record and one operator per method | none | none |
| `PieceManager` | the calls the hub makes of it, with untrusted peers | `pm`; replaced maps, as history | `Bitfield`, `Have`, `Request`, `Choke`, `Disconnected`, `Block`, `Verified` |
| `Session` | the hub from the magnet link to the end, composed with peers, disk task, recheck and owner; uses `Pieces` | the hub's fields, the queues between the tasks, the disk | a handler per event, a step per task |
| `Download` | what a session promises to its owner: an abstract specification | pieces that count, pieces accepted, pieces in the files, the result | accept, write, confirm, find, fail, end |
| `Choking` | `ENG/choke.rs` and the hub's use of it | links in iteration order, interest, what peers were told, the manager | `Connected`, `Disconnected`, `Interested`, `NotInterested`, `Tick` |
| `Storage` | `ENG/storage.rs`: slices of pieces and blocks, writes and reads through them, as operators | none | none |
| `Upload` | requests of peers, the queue of the disk task, blocks on their way back; composes `Choking` and `Storage` | the queue, the files | requests, disk steps, handling of events, pauses |
| `IdleTimer` | the idle timer of `session_loop` | phase, pause, ticks left; two clocks that observe | timer, phases, pauses |
| `UdpTracker` | one exchange with a tracker, as operators on its state | none | none |
| `Announces` | the hub's deadline, the trackers' actors, reports, the last announce; composes `IdleTimer` and `UdpTracker` | queues, exchanges, deadlines | time, loop branches, steps of the actors, packets |
| `Links` | queue, tried addresses, dialling, accepting, eviction; PEX outboxes | links with their states, replaced tasks, queue, outboxes and what they have said | a handler per event of the pool |
| `RoutingTable` | `crates/dht/src/routing.rs` as operators | none | none |
| `Contacts` | what the routing table promises: an abstract specification | contacts per bucket | contacts are learned |
| `Dht` | `crates/dht/src/lib.rs`: the actor, its walks, the queries it serves | table, walk, pending entries, tokens, cache | own steps, answers, queries, time |
| `Daemon` | `DMN/lib.rs`, the state file and blobs of `DMN/persist.rs`, and of sessions what the daemon depends on | registry, the removal under way and those waiting, sessions, state file, blobs, files on disk | commands, reports, shutdown, crash, restore, steps of sessions |
| `PiecesProofs`, `PieceManagerProofs`, `SessionProofs`, `UploadProofs`, `AnnouncesProofs`, `LinksProofs`, `DhtProofs`, `DaemonProofs` | proofs; those of `Choking` and `Storage` are in `UploadProofs`, those of `IdleTimer` in `AnnouncesProofs` | | |
| `MC*` | instances for TLC | | |

Operators and actions carry the names of the code where TLA+ allows, and `map` in
`PROJECT.json` gives the lines of each. A definition commented `Mutant:` is a
plausible bug in the operator that follows it; it is used by no specification and
shows, put in that operator's place, that a property notices the bug. A few
properties (`DoneCounted`, `InFlightStarted`, `NoUnhashedBuffer`,
`AsksOnlyForNeeded`, `DuplicatesOnlyInEndgame`, `ServedWithinSlots`,
`OnDiskTruth`, which `DownloadKept` implies) are stated for
the theorems only.

**Pieces.** The random choice of `next_block_request` is a set of requests. Bytes are
abstracted to what SHA-1 distinguishes: a stored block is corrupt or not. Block
messages come in five kinds: right, wrong, right length at a wrong offset (the block
index is `begin / 16384`, so the copy runs into the next block), wrong length, and
outside of the piece.

**Session.** Each handler of `on_event` and `on_peer_event` is an action with the
`refill` it ends with, in which the manager is asked again and again until the
pipeline is full or nothing is left. The order in which `refill_all` visits the hash
map is arbitrary. The messages of disk task and recheck wait in the hub's channel
(`events`) and are stale when read. A peer's message is produced when it is handled;
relative to the queued events it may thus come at any place, which is every order
the shared channel allows. The recheck reads the pieces of a batch in any order, at
any time before it sends their verdicts: a piece may be written in between. From a
magnet link, each peer that offers the metadata has a collector with the size that
peer declared; the first copy with the right hash ends the phase, and the bitfields
kept until then are replayed, except those that do not fit the torrent.

A connection is a task. `InboundConnected` refuses a second connection of an address
that has a link (`Accept`), but `spawn_peer` does not look (`Dial`): an address that is
named while its peer is connected to us, which happens once, since it is then among the
`tried`, overwrites the link. `tasks` counts the tasks of an address whose
`Disconnected` is not handled yet, `fresh` those that have not sent their bitfield.
A task that its link does not command is a *ghost*: its events still count for the
address, and its `Disconnected` makes the manager forget the peer and removes the link,
whosever it is. So between the dial and that report the link is choked and empty
while the manager keeps the old requests and the old bitfield, and a second bitfield
counts on top of the first one in `rarity`. `Named` holds the addresses that are named
to us. `PieceManager` lets any peer send a bitfield again, and `stale` counts the maps
that were replaced so. `DownloadKept` is the specification `Download` with
`have` for `on_disk`, `coming` for the pieces in the writer's queue and in its
answers, `files` for what the disk holds and `result` for how the session ended.

**Upload.** A byte is named by its place in the torrent, and a place of a file holds
its own name when the right byte was written there. Requests and writes share one
queue, as in the code; a write is one step per piece.

**Links.** A link is dialling or open, and a task whose link was replaced by a second
connection of the same address is a *ghost*: its late `Disconnected` names only the
address, and what it still had to report is taken for the new link, even while that one
is being dialled (`Speaks`): an extension handshake of the old connection turns on the
new link's outbox. `Self` is the set of our own addresses that `is_self` recognises, the
UPnP mapping and loopback; any other address of ours is an address like that of a peer,
and is dialled and told. An outbox carries as history what its messages have said:
`told`, who is there, and `unsure`, who was last named as added and dropped at once.
Everybody who ends a connection only asks the task; the link goes with the
event.

**Announces.** A tick is a unit of time. Packets of an exchange, once sent, may arrive
at any time and any number of times; a repetition has the transaction id of the first
request, the announce one of its own. The loop's `select!` chooses at random, so a
deadline may be served late.

**Dht.** An id is the set of the positions of its one bits, so XOR is the symmetric
difference. A contact is an address with an id: one address may be known under
several ids, since a node chooses its id anew whenever it starts, and several
addresses under one. The table tells contacts apart by their ids, a walk by their
addresses (`queried`, `New`), but among the candidates of one round nothing does.
Answers may be lost, come late, from another address or with another id than the
contact had that was asked; sends may fail. The module states
`ContactsKept`, the specification `Contacts` under the mapping that forgets the order
in the buckets: the actor implements a table that only learns.

**Daemon.** A command to a session waits in a channel of capacity one, as in the code.
Reports of ended sessions are sent by independent tasks and come in any order. A
removal is three steps, as the code awaits in between and has effects in between: the
entry leaves the registry (`Remove`), the session is told and the caller answered or
put to wait (`RemoveTold`), the list is saved (`RemoveSaved`). A crash may come
between any two steps; the state file, renamed into place by the code, is then the old
or the new one, never a mixture. Blobs are the stored torrent files, without which a
torrent that was not added by a link cannot be restored; saving one may fail.
`promised` observes which torrents, with which pause flags, a restart has to bring
back, and `gone` which ones it must not: those whose removal was saved and that nobody
added since.

## 3. The runs

| Run | Instance | Checks |
|---|---|---|
| `pieces` | 2 peers, pieces of 2 and 1 blocks, all kinds of messages, one replaced map per piece | the bookkeeping of the manager, and that it always finds a useful request |
| `session` | 1 peer, pieces of 2 and 1 blocks, a recheck batch of 2, failing writes, any initial disk, from a magnet link | network, recheck and disk race: `Download` is implemented, no verified piece lost, the end recognised exactly |
| `session_peers` | a peer that is dialled while connected and sends anything but blocks, and one that sends the blocks asked of it; one piece of 2 blocks, pipeline 1, from a magnet link | requests, bitfields and pauses in endgame, overwritten links included; what the magnet phase hands over |
| `session_fair` | 2 honest peers, one piece of 2 blocks, from a magnet link | completion, and writes that survive the session |
| `upload` | 2 peers for 1 slot, cursor modulo 5, pieces of 2 bytes over files of 1, 0 and 2 bytes | the bytes served while pieces are written and peers come and go; slots and turns |
| `announces` | a UDP and an HTTP tracker, timeout of 2 ticks, from a magnet link, intervals below and above the clamp | who is spared and who is ended by the idle timer; answers; announces that go on |
| `links` | 2 peers with PEX and ourselves, 2 slots | use of the room, the accounts of PEX |
| `dht` | 3 addresses and 4 contacts: a node that chose another id and one that moved; buckets of 1, 2 queries per round, budget 3 | walks, budget, announces; the table implements `Contacts` |
| `daemon` | 2 torrents (one by magnet), 2 sessions per process, crashes at any time | saved removals, pauses, orphans, restarts, answers to removals |
| `endgame_cancel`, `pex_unmet`, `delete_writing` | smallest instance each | expected to fail, see section 6 |

Why the bounds are enough for the cases that matter:

- Two peers suffice for endgame, where the same block is in flight twice; two blocks
  per piece for a piece in progress; a last piece of another length for the block
  count. The theorems of section 5 cover every other size.
- Two pieces let one be found by the recheck while the other is downloaded; a batch
  of both lets the verdict of one be stale while the other is read. One peer is
  enough for these races, since the peers do not matter to them.
- A pipeline of 1 is the tightest limit: duplicates, late and cancelled blocks hit it
  in the least number of steps. `session` and `endgame_cancel` use 2.
- Metadata of two pieces has an incomplete collector; sizes up to two pieces let a
  peer declare one that is wrong.
- Two peers for one slot do not divide the cursor's 5 values, as 2^64 is not divided
  by most numbers of peers, so the wrap of the cursor shifts the window. A file of
  one byte and an empty one make a piece of two bytes lie in two files with an empty
  one between. `MaxCommands` 2 lets a write stand before or behind a read.
- A timeout of two ticks is the least in which the timer runs and is renewed. `MaxTasks`
  2 lets an announce wait behind one that repeats its request; one report waits.
- Two slots for three addresses make the pool full with an address outside; ourselves
  are one of them, since trackers and peers name us to ourselves. Both peers speak PEX,
  so that each may be replaced, speak as a ghost, and be named to the other.
- One named peer of two in `session_peers` has its link overwritten while the other
  competes for the same blocks. `MaxRarity` 2 and `MaxStale` 1 let a replaced map be
  counted once on top of both peers: more of them only add to a counter.
- Buckets of one are full with the second node; two per round and a budget of three
  make a second round, and one that the budget cuts; an address with two ids can take
  two queries of one round; of a node that moved one address is known and the other
  answers.
- Two sessions per process are one torrent removed and added again, or two torrents
  at once. Crashes are not bounded.

Sets of peers are symmetric in the safety runs of `PieceManager` and `Links`; the runs
with liveness, and that of `Session` where one peer is named, use no symmetry.
Deadlock is checked where the system can go on for ever (`pieces`); sessions and walks
end, and the other bounds let the models stop.

## 4. Fairness

- `Session`: disk task, recheck and hub are tasks of a runtime that polls what is
  ready: weak fairness of each of their steps. The hub's channel is a queue, so each
  event is handled. A paused session is resumed. An honest peer connects, sends its
  bitfield and the metadata, unchokes us, stays, and answers what it was asked for and
  did not see cancelled; this is the assumption under which a download can be expected
  at all, and nobody stops the session. It has one connection: no address in `Named`
  is honest (`SessionAssumption`), since an overwritten link may cost it any message.
  No fairness is assumed of any other peer.
- `Upload`: the timer of the session loop fires again and again (`CHOKE_PERIOD`).
- `Announces`: time passes; a branch of the loop's `select!` that stays ready is chosen
  at some time, since the choice is random; the tasks of the trackers run, their
  timeouts pass, and an HTTP request ends (it has a timeout). No packet need arrive.
- `Dht`: the actor's own steps: sending what a round asks, taking commands, and the
  passing of a deadline. No node need answer.
- `Daemon`: a session reads its commands, and tears down when told to (every wait of
  the teardown has a timeout, except for the disk task, which ends when its queue is
  empty); the actor handles the reports; the deadline of a shutdown comes. Nobody need
  send a command, and the process may crash.

## 5. What is proved

Every safety property of the passing runs is a theorem: invariants, action properties
and both refinements. The theorems hold for every value of the constants that the
`ASSUME`s of the modules allow; these say no more than what kind of thing a constant
is (a finite set of peers, a positive limit, lengths of files). One that the code
gives by its types: the addresses that a DHT node can meet are finitely many
(`IsFiniteSet(Nodes)` in `TableAssumption`), so that the nearest of them exist.

**How the invariants are built.** Hardly any property is inductive alone. For each
component the proof module defines an inductive invariant as a conjunction of named
parts and has one lemma per action, in the order *what the operators do*, *what each
action keeps*, *what follows*.

Loops are recursive functions in the models. What such a function computes is proved
by `CountUp`: a set with 0 that is closed under the successor has all natural
numbers, from a least counterexample (`WFMin`). Per loop one lemma unfolds the
function, one says that it exists, and one that a property which each turn keeps
holds at the end (`AskAllStays`, `InOrderStays`, `ReplayStays`, `OnlyKeeps`,
`OffsetsAdd`, ...).

*Piece manager.* `Consistent(pm)` is an inductive invariant (`AlwaysConsistent`), the
conjunction of `Typed`, `Counted`, `Held`, `Started` and `Unfinished`. `Held` (a mark
in `pending` has a holder) survives a released peer only since all its marks go with
it; `Unfinished` needs `Started` and the emptiness of buffers outside `Progress`.
`PiecesProofs` has one lemma per operator, which serve `Session` as well.
`RarityCounted` is inductive beside it (`StepRarity`): `rarity` is the number of peers
that announced a piece plus the maps of it that were replaced; a second bitfield of a
known peer moves the old map from the first to the second. From the invariants follow
`TypeCorrect`, `DoneCountCorrect`, `RarityCorrect`, `PendingCorrect`, `BuffersHashed`,
and the action properties `VerifiedForever`, `RequestsNeeded` and `EndgameIsLast`.
`WorkConservation` (`RequestExists`) goes along the three sources of
`next_block_request`: a missing piece gives a new request; a piece in progress has the
block free, and then is partial, or marked in flight, and then is a duplicate for
endgame.

*Session.* `SessionInv` has the side of the peers (types; the manager is `Consistent`,
its requests are within the pipeline and of unchoked links or of those that were
overwritten, its bitfields are those of the links that were not; before there is a
torrent it knows nobody) and the side of the hub:
- `TasksInv`, of the peers' side: an address has at most two tasks, the second one
  because it was dialled, and a link has one. It is the reason why a peer without a
  ghost and with a new link was unknown to the manager before (`RegisterInv`).
- `PhaseInv`: RecheckDone is the last event of the recheck, so from then on only
  answers of the disk are in the channel; a session that seeds is complete.
- `DiskInv`: every verdict and answer that says yes, read or on its way, names a piece
  whose bytes are in the files. It is the reason why stale verdicts do no harm.
- `WritesInv`: no piece is in the queues twice, so that their lengths are numbers of
  pieces, and `pending_writes` is their sum.

Two facts make the end recognisable (`EndIsSeen`): a complete manager with no write
pending means that every piece is confirmed, and the step that confirms the last one
sees both. `PauseAsksNothing` and `HandedOver` are about single steps from this
invariant; for the second, the replay of early bitfields in any order of the hash
map gives every peer its own (`ReplayedAll`). `Implements` is the refinement of
`Download`: every step stutters or is one step of it (`StepImplements`). That
`Completed` is honest when the disk confirms the last piece is the counting of
`WritesInv` once more: with one write left, the piece confirmed is all that was on
its way.

*Upload.* Peers are told differences between two sets of the manager; the inductive
invariant says that who was told is in the manager's set and that this set is not
larger than the limit (`ChosenBounded`, the window as the image of an interval). For
the types, what the window picks through its wrapping cursor is on the list
(`ChosenFrom`), and the list is duplicate-free after each removal (`OnlyKeeps`). For
the bytes, the offsets of the files are sums (`OffsetsAdd`), so each byte of the
torrent lies in exactly one file (`SomeFile`, `OneFile`), whatever the lengths are,
empty files included. Hence `WriteRight`: a write puts each byte of its piece in its
place and harms no other; and `ReadRight`: a read that stays in a piece which the
files hold returns its bytes. `UploadInv` adds that a piece is advertised, or reported
as written, only when the files hold it, and that a queued read is for an advertised
piece; `ServedRight` follows.

*Announces.* The idle timer and what it should measure are related by
`left + quiet = Timeout` (`Protected`), so a timer at zero has seen a whole quiet
timeout. `SessionProtected` carries this to `Announces`: each of its steps is a step of
`IdleTimer` or leaves it alone (`StepIsIdle`). `NoStrayAnswer` rests on a fact about
each exchange alone (`Believed`): what passes for the answer of a tracker answers the
request that was out. `AnnouncesTyped` follows the queues and reports through every
branch of the loop.

*Pool and PEX.* `RoomIsUsed`, `LinksTyped` and `PexIsRight`. All handlers fill the pool
by the same operator, described once by `FilledRoom`, `FilledTyped` and `FilledSteady`;
a handler that does not fill it neither frees a slot nor queues an address. For each
outbox, what the peer knows, corrected by what waits for the next flush, is the set of
links, except for the addresses that it names both ways (`Steady`), which each join and
each leave keeps; a join that follows a leave only makes its address one of these.

*DHT.* To be nearer to a target is a strict total order on ids: two distances differ
first at the top bit of their XOR, and a non-empty set of positions has a top bit
(`TopBitIsTop`); so the nearest few of a finite set exist and what they leave out is
no nearer. `DhtInv` says of the walk that a contact it took up has its address
queried, is still a candidate, or was left out for as many of these, no farther, as
the cap allows (`Heeded`); that the contacts it asked were paid for, each once; and
that the tokens given during the walk are fresh until the announce.
`WalksAreThorough`, `WalksArePaid` and `GiversAreReached` are read off.
`TableKeepsContacts` is the refinement of `Contacts`: each update of a bucket grows it
by new ids of its own within its capacity (`Grows`), and any number of updates in one
step is one step of learning (`GrowthIsLearned`).

*Daemon.* The invariant ties each entry of the registry to the session it names, each
command in a channel to what the entry says, and the state file, unless a removal is
being carried out, to the registry (`SavedFits`); what was saved as removed is
registered nowhere and listed in no file until it is added (`GoneStays`); during a
restore, each promised torrent is registered already or still to do, and a
state file that lists it, old or rewritten half-way, lists it with the right flag
(`Kept`). `NobodyOrphaned`, `PauseIsObeyed`,
`RemovalsStick` and `NothingLost` follow, crashes at every step included.

**What the proofs changed in the models.** Two arms of a `CASE` in `Upsert` overlapped:
the model was right only by the order in which TLC tries them, and is now an
`IF`. The loops of `Only`, `UpsertAll` and `Offset` were library folds, whose
definitions the prover cannot unfold, and are recursive functions.

**Only model-checked.** Liveness: `Completes`, `WritesDrain`, `TurnsComeRound`,
`StarvedEnds`, `AnnouncedAgain`, `AlwaysReturns`, `RemovalsAnswered`. The prover has no
rules for fairness and `ENABLED` that would serve here. The runs that are expected to
fail are for TLC by nature.

## 6. Deviations met while modelling

Each of the first three is a run that is expected to fail; TLC prints the behaviour.

- `endgame_cancel`: the hub cancels a block at all other holders when it duplicates
  it, before anybody delivered it (`ENG/session.rs:2419`). If the peer asked last
  does not answer, the others have dropped the request and nothing asks them again:
  the session stands still, until the idle timer ends it with an error.
- `pex_unmet`: PEX tells of addresses that were never met: a link counts from the
  moment it is dialled (`ENG/session.rs:1625`).
- `delete_writing`: the report of an ended session has the info hash only. After
  remove (with its files) and add of the same torrent it deletes the files of the
  new session (`DMN/lib.rs:696`); it also marks the new entry as ended.

The models contain these too, without a run of their own.

*Pieces and session.*
- `spawn_peer` overwrites the link of a peer that is connected to us
  (`ENG/session.rs:1607`). Until the old task reports its end, the manager keeps the
  requests of a link that is choked by now, and the old bitfield beside an empty one:
  hence `Ghosts` in `RequestsWithinPipeline` and `BitfieldsAgree`.
- If the new connection's bitfield comes first, `on_peer_bitfield` counts it on top of
  the old one, which the end of the old task does not take back: `rarity`, documented
  as the number of known peers that have a piece (`ENG/piece_manager.rs:74`) from
  bitfields that come exactly once per connection (`ENG/piece_manager.rs:129`), stays
  too high for good. `RarityExact` says by how much.
- `pending` is documented as the union of all in-flight blocks
  (`ENG/piece_manager.rs:79`); a choke, a disconnection or a late block of one of two
  holders removes it while the other still holds it. `PendingHeld` is the direction
  that is true.
- Unrequested blocks are documented to change nothing (`ENG/piece_manager.rs:178`);
  they are stored if their piece is in progress.
- `verified_bytes` counts a piece twice that the recheck and the network both deliver
  (`ENG/session.rs:1744`), so `left()` is too small.
- `RecheckDone` ends a session that does not seed although the write of a downloaded
  piece is queued (`ENG/session.rs:1772`). The teardown lets the write happen, but if
  it fails nobody reads the event, and the session reports success.
- A peer that sent no bitfield in the magnet phase is not known to the piece manager
  in the download: its later Haves are ignored and nothing is asked of it.
- A failing `metadata_complete` is only logged: the session stays in the magnet phase.

*Pool, peer exchange, upload.*
- A peer that leaves and comes back before the next recompute keeps its slot and is
  never told (`ENG/session.rs:1955`): hence the exception in `TurnsComeRound`.
- A newcomer to a full pool is taken before the evicted peer has left, and the same
  peer may be evicted for several: the pool stays above the limit.
- The address of an inbound link, named by PEX or a tracker, is dialled and replaces
  the live link; the `Disconnected` of the old task then removes the new link. An
  extension handshake that the old task had sent before turns PEX on for the new link
  while it is being dialled.
- A peer that comes and goes, or goes and comes, between two PEX messages is named by
  the next one as added and as dropped (`ENG/session.rs:373-384`); what the receiver
  makes of it is his choice. `PexAddsUp` leaves such addresses out until they are named
  again.
- Our own address is dialled when it is named, and told to others, unless it is the
  UPnP mapping or loopback (`is_self`, `ENG/session.rs:1441`): peer ids are not compared.
- `serve_metadata_request` and `flush_pex` use our own extension ids, not those the
  peer declared (BEP 10).
- No Have is ever sent, and a peer that connects to us after the recheck is never told
  that we are interested (`ENG/session.rs:1686`); those that are there when it ends are.
- `parse_pex` documents missing keys as empty lists; missing flags of a list of
  addresses are an error.

*Trackers and idle timer.*
- Recheck and pauses use up the idle timeout (`ENG/session.rs:1014`). A session that
  is resumed after more than ten minutes ends at once.
- A second answer to the connect that comes late is read as the answer to the
  announce and ends it with `InvalidField`, which `udp.rs` documents as a violation by
  the tracker. Short error replies end likewise, not as `TrackerFailure`.
- All trackers share one deadline: announces for a slow one pile up, and the last,
  Stopped, waits behind them until it is aborted.
- Trackers of a magnet link are announced to only after the recheck. Completed is
  sent twice for sessions that do not seed, also for those complete from the start;
  it may come before Started, and Stopped without Started.

*DHT.*
- Nodes are documented to be deduplicated by address within a walk
  (`crates/dht/src/lib.rs:13-14`). Two ids of one address, both in the table, are two
  candidates, are both picked in one round, and cost two of the budget: `queried` is
  filled only after the choice (`crates/dht/src/lib.rs:397-415`).
- A node of an answer whose address is a candidate already, under a stale id, is passed
  over; its new id may be nearer. `Thorough` speaks of the contacts that were taken up.
- An announce whose sends all fail, or without a fresh token, ends with `NoNodes`.
- The cap of candidates counts those queried in this round; late answers of a walk
  that has ended are dropped; an announce goes to all that gave a token in the walk,
  not to the closest only.
- An answer from another address removes the pending entry without being taken.
- A known node at a new address keeps its old one in the table; a full bucket never
  replaces anybody.

*Daemon.*
- Each restored torrent rewrites the state file with those restored so far
  (`DMN/lib.rs:595`); a crash in the middle of a restore forgets the others. Hence
  `promised` keeps, after such a crash, only what the file lists.
- A torrent whose blob could not be saved is accepted with a warning only; a restore
  that cannot start a torrent forgets it for good when it is done.
- A removal is answered before the list is saved (`DMN/lib.rs:660-669`). A crash in
  between brings the torrent back at the next start, with its files deleted if that was
  asked for. `RemovalSticks` holds from the save on.
- The files of a removed magnet whose session was running stay, and the removal
  answers ok: the paths are looked up in the entry that was removed
  (`DMN/lib.rs:698`).
- A shutdown rejects the reports it waits for (`DMN/lib.rs:378`): with a torrent it
  always takes the whole deadline.
- The actor never notices that all handles are gone, since it holds a sender of its
  own channel (`DMN/lib.rs:344`).

## 7. What is abstracted, and what is not modelled

- Reads and writes of a piece are one step each. A failed write may leave any bytes:
  the model keeps the piece as not on disk unless it was already. This is the
  behaviour of Unix, where the parallel recheck uses positional reads.
- In `Session` each address is dialled at most once, since `tried` never forgets one;
  whether an inbound peer may still be accepted in a full pool is a matter of `Links`.
  `Session` and `Links` are not composed: both contain the overwritten link, `Session`
  with manager and bitfields, `Links` with the pool and PEX. An address in `Named` is
  not honest, so the liveness of `session_fair` says nothing of overwritten links.
- In `session_peers`, the run with overwritten links, no write fails, the peer whose
  link is overwritten sends no blocks, and nobody stops the session; what peers send
  and the race with the disk are the subject of `pieces` and `session`.
  The theorems about `Session` have no such limit. `WritesDrain` is checked without
  failing writes: that a failed one is not claimed is part of `DownloadKept`.
- One connection per handle at a time in `Choking`. An overwritten link has the effect
  there of a peer that leaves and returns between two recomputes (section 6).
- PEX messages are counted for the peer when they are sent. An address that is ours
  but not recognised by `is_self` has no peer of its own in `Links`: it behaves like any.
- What a peer does to its own connection (a refused message, a Disconnect command)
  is, in `Links`, a connection that may end at any time. The flood control of PEX by
  time, and its flags, are left out.
- In `Session` a storage that cannot be opened after the magnet phase is left out, and
  so is serving the metadata to others.
- An announce by HTTP is one answer or one failure. Contents of peer lists are not
  kept in `Announces`; what becomes of addresses is in `Links`.
- Creating files, and making their paths safe, is left out of `Storage`.
- In `Daemon` saving the state file succeeds and a blob that was saved can be read;
  an `Add` that fails its checks is no step. What a crash does to files that a removal
  was deleting is not told apart: the deletion and the answer are one step.
  Subscriptions and progress snapshots are left out.
- Bounds of the models: `MaxSessions` in `Daemon`; `MaxCommands` in `Upload` and `Dht`;
  `MaxTasks`, `MaxReports` in `Announces`; `MaxDeclared`, `MaxRarity` and `Stops` in
  `Session`; `MaxStale` in `PieceManager`; `MaxNodes` in `Dht`. Everything else is
  bounded by the constants of the code.
- Not modelled: the codecs of bytes `bencode`, `metainfo`, `peer-wire`, `ext-*`,
  `krpc.rs` (no state; what they deliver are the inputs of the actions); the router (a
  lookup in a map that the daemon recomputes); status and speeds (a view of `Progress`
  that nothing reads back); NAT (best effort, nothing depends on it); the command line
  and the desktop app (callers).

## 8. The plan

Done, models: `Pieces`, `PieceManager`, `Session` with the magnet phase, `Download`,
`Choking`, `Storage`, `Upload`, `IdleTimer`, `UdpTracker`, `Announces`, `Links`,
`RoutingTable`, `Contacts`, `Dht`, `Daemon` with blobs. Done, proofs: the safety
properties of all of them, and that `Session` implements `Download` and the routing
table `Contacts`.

Next:

1. `Daemon`: an abstract specification of the durable list of torrents, which it
   implements under crashes.
2. `Choking` under overwritten links, and the liveness of a download in which honest
   peers have two connections.
3. The slices of `Storage` for `Session`: that the bytes of a piece which the files hold
   stay there when `Upload` and the recheck read at the same time.
4. Models of what is left out: the greeting of links in `Session` (our own bitfield),
   and progress snapshots in `Daemon`.
