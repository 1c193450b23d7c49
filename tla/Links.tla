-------------------------------- MODULE Links --------------------------------
(***************************************************************************)
(* The hub's pool of connections and the peer exchange over them           *)
(* (crates/engine/src/session.rs).  Addresses come from trackers, the DHT  *)
(* and other peers; each is tried once, as soon as there is room; others   *)
(* connect to us.  Every link has a task that reports to the hub when its  *)
(* connection is over, but the report carries only the address: of a link  *)
(* that was replaced meanwhile it removes the new one.  What a replaced    *)
(* task had still to report counts for the new link as well.               *)
(*                                                                         *)
(* A connection may end at any time: what only asks a task to close it     *)
(* (a Disconnect command, a message that is refused) changes nothing here. *)
(***************************************************************************)
EXTENDS FiniteSetsExt, SequencesExt

CONSTANTS
  Addrs,      \* addresses of peers
  Self,       \* our own addresses, as far as is_self recognises them
  PexPeers,   \* addresses whose peers speak ut_pex
  MaxLinks    \* MAX_CONNECTIONS

ASSUME LinksAssumption ==
  /\ IsFiniteSet(Addrs)
  /\ Self \subseteq Addrs /\ PexPeers \subseteq Addrs
  /\ MaxLinks \in Nat \ {0}

VARIABLES
  phase,     \* Hub.phase; Download stands for Seed too
  link,      \* keys of Hub.peers, and how far the task of each has come
  useless,   \* links with a full bitfield that want nothing from us
  ghosts,    \* per address, tasks without a link that have still to report
  tried,     \* Hub.tried
  queue,     \* Hub.queue
  outbox     \* PeerLink.pex_outbox, and what it has sent so far

vars == <<phase, link, useless, ghosts, tried, queue, outbox>>

LinkStates == {"none", "dialling", "open"}

Linked == {a \in Addrs : link[a] # "none"}

\* told and unsure are history: whom the messages say is there, and who was named
\* as added and as dropped by the last message that named him.
Outbox(on, full, added, dropped, told, unsure) ==
  [on |-> on, full |-> full, added |-> added, dropped |-> dropped, told |-> told, unsure |-> unsure]

NoPex == Outbox(FALSE, FALSE, {}, {}, {}, {})

Init ==
  /\ phase \in {"Metadata", "Recheck"}
  /\ link = [a \in Addrs |-> "none"]
  /\ useless = {} /\ ghosts = [a \in Addrs |-> 0]
  /\ tried = {} /\ queue = <<>>
  /\ outbox = [a \in Addrs |-> NoPex]

-----------------------------------------------------------------------------
(***************************************************************************)
(* Registering links.                                                      *)
(***************************************************************************)

\* pex_peer_added: the others hear of new links, never of ourselves.
HearOf(o, new) == IF o.on THEN [o EXCEPT !.added = @ \cup (new \ Self)] ELSE o

HearOfLoss(o, a) == IF o.on THEN [o EXCEPT !.dropped = @ \cup {a}] ELSE o

\* New links replace those that the same addresses have.
Outboxes(boxes, new) ==
  [a \in Addrs |-> IF a \in new THEN NoPex ELSE HearOf(boxes[a], new)]

First(q, n) == Range(SubSeq(q, 1, n))

\* Mutant: the loop stops one slot early.
DialsLeaveRoom(linked, q, n) ==
  /\ n = Len(q) \/ Cardinality(linked \cup First(q, n)) >= MaxLinks - 1
  /\ \A m \in 0 .. n - 1 : Cardinality(linked \cup First(q, m)) < MaxLinks

\* How many addresses the loop of spawn_from_queue takes.
Dials(linked, q, n) ==
  /\ n = Len(q) \/ Cardinality(linked \cup First(q, n)) >= MaxLinks
  /\ \A m \in 0 .. n - 1 : Cardinality(linked \cup First(q, m)) < MaxLinks

\* spawn_from_queue, after l links, g ghosts, the queue q and the outboxes boxes.
SpawnFromQueue(l, g, u, q, boxes) ==
  LET linked == {a \in Addrs : l[a] # "none"}
  IN  \E n \in 0 .. Len(q) :
        LET new == First(q, n)
        IN  /\ Dials(linked, q, n)
            /\ link' = [a \in Addrs |-> IF a \in new THEN "dialling" ELSE l[a]]
            /\ ghosts' = [a \in Addrs |-> IF a \in new \cap linked THEN g[a] + 1 ELSE g[a]]
            /\ useless' = u \ new
            /\ queue' = SubSeq(q, n + 1, Len(q))
            /\ outbox' = Outboxes(boxes, new)

KeepQueued(q) == queue' = q /\ UNCHANGED <<link, useless, ghosts, outbox>>

\* Mutant: only an address that can be dialled at once is remembered.
RememberDialled(a) == IF phase = "Recheck" THEN tried ELSE tried \cup {a}

Remember(a) == tried \cup {a}

\* enqueue, and what follows it in every handler: during the recheck the
\* addresses wait.
Learn(a) ==
  LET q == IF a \in tried THEN queue ELSE Append(queue, a)
  IN  /\ tried' = Remember(a)
      /\ IF phase = "Recheck" THEN KeepQueued(q) ELSE SpawnFromQueue(link, ghosts, useless, q, outbox)
      /\ UNCHANGED phase

-----------------------------------------------------------------------------
(***************************************************************************)
(* Events of the hub.                                                      *)
(***************************************************************************)

\* Announce and DiscoveredPeers: several addresses are taken like one by one.
Discovered(a) == Learn(a)

\* Messages are taken for the link of an address, from its own task or from the
\* task of a link that it replaced, whose last events are still in the channel.
Speaks(a) == link[a] = "open" \/ (link[a] # "none" /\ ghosts[a] > 0)

\* on_pex.  Of a message that comes too early nothing is taken, of others all
\* but our own address.
OnPex(from, a) == Speaks(from) /\ a \notin Self /\ Learn(a)

\* dial_peer has gone through.
Dialled(a) ==
  /\ link[a] = "dialling"
  /\ link' = [link EXCEPT ![a] = "open"]
  /\ UNCHANGED <<phase, useless, ghosts, tried, queue, outbox>>

\* InboundConnected: taken while there is room; then only in place of a useless
\* link, which is asked to go but stays until its task has reported.
Inbound(a) ==
  /\ link[a] = "none"
  /\ Cardinality(Linked) < MaxLinks \/ useless # {}
  /\ link' = [link EXCEPT ![a] = "open"]
  /\ outbox' = Outboxes(outbox, {a})
  /\ UNCHANGED <<phase, useless, ghosts, tried, queue>>

\* The peer's bitfield and interest; without the torrent no bitfield is full.
TurnsUseless(a) ==
  /\ phase # "Metadata" /\ Speaks(a)
  /\ useless' = useless \cup {a}
  /\ UNCHANGED <<phase, link, ghosts, tried, queue, outbox>>

TurnsUseful(a) ==
  /\ useless' = useless \ {a}
  /\ UNCHANGED <<phase, link, ghosts, tried, queue, outbox>>

\* on_ext_handshake of a peer that speaks ut_pex.
ExtHandshake(a) ==
  /\ a \in PexPeers /\ Speaks(a) /\ ~ outbox[a].on
  /\ outbox' = [outbox EXCEPT ![a].on = TRUE]
  /\ UNCHANGED <<phase, link, useless, ghosts, tried, queue>>

\* What the peer knows after a first message, and after one that tells him what
\* is new; add and drop_peer do not cancel each other, so the latter may name an
\* address both ways.
SentFull(named) == Outbox(TRUE, TRUE, {}, {}, named, {})

SentNew(o) ==
  Outbox(TRUE, TRUE, {}, {},
         (o.told \cup (o.added \ o.dropped)) \ (o.dropped \ o.added),
         (o.unsure \ (o.added \cup o.dropped)) \cup (o.added \cap o.dropped))

\* Mutant: links that are still being dialled are left out.
SwarmOpen == {a \in Linked : link[a] = "open"}

\* Whom the first message names.
Swarm == Linked

\* flush_pex: the first message names all links, later ones what is new.
FlushPex ==
  /\ outbox' = [a \in Addrs |->
       LET o == outbox[a]
       IN  IF ~ o.on THEN o
           ELSE IF o.full THEN SentNew(o)
           ELSE SentFull(Swarm \ (Self \cup {a}))]
  /\ UNCHANGED <<phase, link, useless, ghosts, tried, queue>>

\* The handler of Disconnected, whose task it was making no difference: the link
\* of the address goes, the others hear of it, the queue moves up.
Removed(a, g) ==
  /\ SpawnFromQueue([link EXCEPT ![a] = "none"], g, useless \ {a}, queue,
                    [x \in Addrs |-> IF x = a THEN NoPex ELSE HearOfLoss(outbox[x], a)])
  /\ UNCHANGED <<phase, tried>>

\* The link's own task reports.
Disconnected(a) == link[a] # "none" /\ Removed(a, ghosts)

\* A task without a link reports: a new link of that address loses its task.
GhostDisconnected(a) ==
  /\ ghosts[a] > 0
  /\ Removed(a, IF link[a] = "none" THEN [ghosts EXCEPT ![a] = @ - 1] ELSE ghosts)

\* metadata_complete
MetadataComplete ==
  /\ phase = "Metadata" /\ phase' = "Recheck"
  /\ UNCHANGED <<link, useless, ghosts, tried, queue, outbox>>

\* What has waited for the end of the recheck.
AfterRecheck == SpawnFromQueue(link, ghosts, useless, queue, outbox)

RecheckDone ==
  /\ phase = "Recheck" /\ phase' = "Download"
  /\ AfterRecheck
  /\ UNCHANGED tried

Next ==
  \/ \E a \in Addrs :
       \/ Discovered(a)
       \/ \E from \in Addrs : OnPex(from, a)
       \/ Dialled(a)
       \/ Inbound(a)
       \/ TurnsUseless(a)
       \/ TurnsUseful(a)
       \/ ExtHandshake(a)
       \/ Disconnected(a)
       \/ GhostDisconnected(a)
  \/ FlushPex
  \/ MetadataComplete
  \/ RecheckDone

Spec == Init /\ [][Next]_vars

-----------------------------------------------------------------------------
(***************************************************************************)
(* Properties.                                                             *)
(***************************************************************************)

\* Types of the variables.  An address is known to be tried before it waits or
\* is dialled; only links are useless, and only those whose peer, or that of the
\* link they replaced, has spoken have an outbox.
TypeOK ==
  /\ phase \in {"Metadata", "Recheck", "Download"}
  /\ link \in [Addrs -> LinkStates]
  /\ useless \subseteq Linked
  /\ ghosts \in [Addrs -> Nat]
  /\ tried \subseteq Addrs /\ queue \in Seq(tried)
  /\ outbox \in [Addrs -> [on : BOOLEAN, full : BOOLEAN, added : SUBSET Addrs,
                           dropped : SUBSET Addrs, told : SUBSET Addrs, unsure : SUBSET Addrs]]
  /\ \A a \in Addrs : outbox[a].on => Speaks(a)

\* Except during the recheck no address waits while there is room for it,
\* whoever leaves, is replaced or is let in on top of the limit.
NoRoomWasted == phase # "Recheck" /\ queue # <<>> => Cardinality(Linked) >= MaxLinks

\* Once a peer gets what waits in its outbox it knows of every open link, and of
\* nobody who has gone, through replaced links and reports that end the wrong one.
\* Left open are links still being dialled, and an address that was named both as
\* added and as dropped: of it the peer knows nothing until it is named again.  He
\* never hears of himself or of an address we recognise as ours.
PexAddsUp ==
  \A a \in Addrs : outbox[a].full =>
    LET o == SentNew(outbox[a])
    IN  /\ \A x \in Addrs \ (Self \cup {a} \cup o.unsure) :
             /\ link[x] = "open" => x \in o.told
             /\ link[x] = "none" => x \notin o.told
        /\ (Self \cup {a}) \cap (outbox[a].told \cup outbox[a].added) = {}

(***************************************************************************)
(* A claim of the code's comments that the code does not keep.             *)
(***************************************************************************)

\* Comment of on_pex: an address that was learned gets into nobody's outbox before
\* there is a real connection to it.
OnlyMetAreNamed ==
  \A a, x \in Addrs : link[x] = "dialling" /\ ghosts[x] = 0 => x \notin outbox[a].added
=============================================================================
