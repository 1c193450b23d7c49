----------------------------- MODULE LinksProofs -----------------------------
(***************************************************************************)
(* The pool wastes no room, for every number of addresses and slots.  All  *)
(* handlers that free a slot or bring an address fill the pool in one and  *)
(* the same way; it is described once, by FilledRoom and FilledTyped.      *)
(***************************************************************************)
EXTENDS Links, FiniteSetTheorems, SequenceTheorems, TLAPS

\* TypeOK, split into the part that filling the pool needs and the outboxes.
PoolTyped ==
  /\ phase \in {"Metadata", "Recheck", "Download"}
  /\ link \in [Addrs -> LinkStates]
  /\ useless \subseteq Linked
  /\ ghosts \in [Addrs -> Nat]
  /\ tried \subseteq Addrs /\ queue \in Seq(tried)

OutboxSet ==
  [on : BOOLEAN, full : BOOLEAN, added : SUBSET Addrs,
   dropped : SUBSET Addrs, told : SUBSET Addrs, unsure : SUBSET Addrs]

OutboxTyped ==
  /\ outbox \in [Addrs -> OutboxSet]
  /\ \A a \in Addrs : outbox[a].on => Speaks(a)

LEMMA TypeParts == TypeOK <=> PoolTyped /\ OutboxTyped
  BY DEF TypeOK, PoolTyped, OutboxTyped, OutboxSet

LEMMA LinkedFinite == IsFiniteSet(Linked)
  BY LinksAssumption, FS_Subset, Linked \subseteq Addrs DEF Linked

\* The addresses that leave the queue are known, and so are those that stay.
LEMMA FirstTyped ==
  ASSUME NEW S, NEW q \in Seq(S), NEW n \in 0 .. Len(q)
  PROVE  First(q, n) \subseteq S /\ SubSeq(q, n + 1, Len(q)) \in Seq(S)
<1>1. Len(q) \in Nat /\ \A i \in 1 .. Len(q) : q[i] \in S
  BY LenProperties, ElementOfSeq
<1>2. /\ SubSeq(q, 1, n) \in Seq(S)
      /\ SubSeq(q, n + 1, Len(q)) \in Seq(S)
  <2>1. \A i \in 1 .. n : q[i] \in S
    BY <1>1
  <2>2. \A i \in n + 1 .. Len(q) : q[i] \in S
    BY <1>1
  <2>3. 1 \in Int /\ n \in Int /\ n + 1 \in Int /\ Len(q) \in Int
    BY <1>1
  <2> QED
    BY <2>1, <2>2, <2>3, SubSeqProperties
<1>3. \A i \in DOMAIN SubSeq(q, 1, n) : SubSeq(q, 1, n)[i] \in S
  BY <1>2, ElementOfSeq, LenProperties
<1> QED
  BY <1>2, <1>3 DEF First, Range

\* After the pool was filled the queue is empty or no slot is free.
LEMMA FilledRoom ==
  ASSUME NEW l, NEW g, NEW u, NEW q \in Seq(Addrs), NEW boxes,
         SpawnFromQueue(l, g, u, q, boxes)
  PROVE  queue' # <<>> => Cardinality(Linked') >= MaxLinks
<1> DEFINE linked == {a \in Addrs : l[a] # "none"}
<1>1. PICK n \in 0 .. Len(q) :
        /\ Dials(linked, q, n)
        /\ link' = [a \in Addrs |-> IF a \in First(q, n) THEN "dialling" ELSE l[a]]
        /\ queue' = SubSeq(q, n + 1, Len(q))
  BY DEF SpawnFromQueue
<1>2. First(q, n) \subseteq Addrs
  BY FirstTyped
<1>3. Linked' = linked \cup First(q, n)
  BY <1>1, <1>2 DEF Linked
<1>4. CASE n = Len(q)
  <2>1. Len(q) \in Nat /\ n + 1 \in Int /\ Len(q) \in Int
    BY LenProperties
  <2>2. Len(q) < n + 1
    BY <1>4, <2>1
  <2>3. SubSeq(q, n + 1, Len(q)) = <<>>
    BY <2>1, <2>2, SubSeqEmpty
  <2> QED
    BY <1>1, <2>3
<1>5. CASE Cardinality(linked \cup First(q, n)) >= MaxLinks
  BY <1>3, <1>5
<1> QED
  BY <1>1, <1>4, <1>5 DEF Dials

\* Filling the pool keeps the types.
LEMMA FilledTyped ==
  ASSUME NEW l \in [Addrs -> LinkStates], NEW g \in [Addrs -> Nat],
         NEW u \in SUBSET {a \in Addrs : l[a] # "none"},
         tried' \in SUBSET Addrs, NEW q \in Seq(tried'),
         NEW boxes \in [Addrs -> OutboxSet],
         \A a \in Addrs : boxes[a].on => l[a] = "open" \/ (l[a] # "none" /\ g[a] > 0),
         phase' \in {"Metadata", "Recheck", "Download"},
         SpawnFromQueue(l, g, u, q, boxes)
  PROVE  PoolTyped' /\ OutboxTyped'
<1> DEFINE linked == {a \in Addrs : l[a] # "none"}
<1>1. PICK n \in 0 .. Len(q) :
        /\ link' = [a \in Addrs |-> IF a \in First(q, n) THEN "dialling" ELSE l[a]]
        /\ ghosts' = [a \in Addrs |-> IF a \in First(q, n) \cap linked THEN g[a] + 1 ELSE g[a]]
        /\ useless' = u \ First(q, n)
        /\ queue' = SubSeq(q, n + 1, Len(q))
        /\ outbox' = Outboxes(boxes, First(q, n))
  BY DEF SpawnFromQueue
<1> DEFINE new == First(q, n)
<1>2. new \subseteq Addrs /\ queue' \in Seq(tried')
  BY <1>1, FirstTyped
<1>3. link' \in [Addrs -> LinkStates] /\ ghosts' \in [Addrs -> Nat]
  BY <1>1 DEF LinkStates
<1>4. useless' \subseteq Linked'
  BY <1>1 DEF Linked
<1>5. ASSUME NEW a \in Addrs
      PROVE  /\ outbox'[a] \in OutboxSet
             /\ outbox'[a].on => link'[a] = "open" \/ (link'[a] # "none" /\ ghosts'[a] > 0)
  <2>1. outbox'[a] = IF a \in new THEN NoPex ELSE HearOf(boxes[a], new)
    BY <1>1 DEF Outboxes
  <2>2. NoPex \in OutboxSet /\ ~ NoPex.on
    BY DEF NoPex, Outbox, OutboxSet
  <2>3. HearOf(boxes[a], new) \in OutboxSet /\ HearOf(boxes[a], new).on = boxes[a].on
    <3>1. boxes[a] \in OutboxSet
      OBVIOUS
    <3>2. new \ Self \in SUBSET Addrs
      BY <1>2
    <3> HIDE DEF new
    <3> QED
      BY <3>1, <3>2 DEF HearOf, OutboxSet
  <2>4. a \notin new => link'[a] = l[a] /\ ghosts'[a] = g[a]
    BY <1>1
  <2> QED
    BY <2>1, <2>2, <2>3, <2>4
<1>6. outbox' \in [Addrs -> OutboxSet]
  <2>1. outbox' = [a \in Addrs |-> outbox'[a]]
    BY <1>1 DEF Outboxes
  <2> QED
    BY <1>5, <2>1
<1> QED
  BY <1>2, <1>3, <1>4, <1>5, <1>6 DEF PoolTyped, OutboxTyped, Speaks

(***************************************************************************)
(* The invariant of the pool.                                              *)
(***************************************************************************)

PoolInv == TypeOK /\ NoRoomWasted

LEMMA InitPool == Init => PoolInv
<1> SUFFICES ASSUME Init PROVE PoolInv
  OBVIOUS
<1>1. PoolTyped
  BY DEF Init, PoolTyped, LinkStates, Linked
<1>2. NoPex \in OutboxSet /\ ~ NoPex.on
  BY DEF NoPex, Outbox, OutboxSet
<1>3. OutboxTyped
  BY <1>2 DEF Init, OutboxTyped
<1> QED
  BY <1>1, <1>3, TypeParts DEF Init, PoolInv, NoRoomWasted

\* What is left of the pool when a link has gone.
LEMMA RemovedTyped ==
  ASSUME TypeOK, NEW a \in Addrs, NEW g \in [Addrs -> Nat], Removed(a, g),
         \A x \in Addrs \ {a} : g[x] = ghosts[x]
  PROVE  PoolInv'
<1> DEFINE l == [link EXCEPT ![a] = "none"]
           boxes == [x \in Addrs |-> IF x = a THEN NoPex ELSE HearOfLoss(outbox[x], a)]
<1> USE TypeParts
<1>1. SpawnFromQueue(l, g, useless \ {a}, queue, boxes) /\ UNCHANGED <<phase, tried>>
  BY DEF Removed
<1>2. l \in [Addrs -> LinkStates]
  BY DEF PoolTyped, LinkStates
<1>3. useless \ {a} \in SUBSET {x \in Addrs : l[x] # "none"}
  BY DEF PoolTyped, Linked
<1>4. NoPex \in OutboxSet /\ ~ NoPex.on
  BY DEF NoPex, Outbox, OutboxSet
<1>5. ASSUME NEW x \in Addrs
      PROVE  /\ boxes[x] \in OutboxSet
             /\ boxes[x].on => l[x] = "open" \/ (l[x] # "none" /\ g[x] > 0)
  <2>1. CASE x = a
    BY <1>4, <2>1
  <2>2. CASE x # a
    <3>1. outbox[x] \in OutboxSet /\ (outbox[x].on => Speaks(x))
      BY DEF OutboxTyped
    <3>2. HearOfLoss(outbox[x], a) \in OutboxSet
      BY <3>1 DEF HearOfLoss, OutboxSet
    <3>3. HearOfLoss(outbox[x], a).on = outbox[x].on
      BY <3>1 DEF HearOfLoss, OutboxSet
    <3> QED
      BY <2>2, <3>1, <3>2, <3>3 DEF PoolTyped, Speaks
  <2> QED
    BY <2>1, <2>2
<1>6. /\ boxes \in [Addrs -> OutboxSet]
      /\ \A x \in Addrs : boxes[x].on => l[x] = "open" \/ (l[x] # "none" /\ g[x] > 0)
  BY <1>5
<1>7. /\ tried' \in SUBSET Addrs /\ queue \in Seq(tried')
      /\ phase' \in {"Metadata", "Recheck", "Download"}
  BY <1>1 DEF PoolTyped
<1>8. queue \in Seq(Addrs)
  BY DEF PoolTyped
<1> HIDE DEF l, boxes
<1>9. PoolTyped' /\ OutboxTyped'
  BY <1>1, <1>2, <1>3, <1>6, <1>7, FilledTyped
<1>10. queue' # <<>> => Cardinality(Linked') >= MaxLinks
  BY <1>1, <1>8, FilledRoom
<1> QED
  BY <1>9, <1>10 DEF PoolInv, NoRoomWasted, TypeOK, PoolTyped, OutboxTyped, OutboxSet, Speaks

LEMMA StepPool == PoolInv /\ [Next]_vars => PoolInv'
<1> SUFFICES ASSUME PoolInv, [Next]_vars PROVE PoolInv'
  OBVIOUS
<1>0. TypeOK /\ NoRoomWasted /\ PoolTyped /\ OutboxTyped
  BY TypeParts DEF PoolInv
<1>parts. ASSUME PoolTyped', OutboxTyped', NoRoomWasted' PROVE PoolInv'
  BY <1>parts DEF PoolInv, TypeOK, PoolTyped, OutboxTyped, OutboxSet, Speaks
<1>same. ASSUME UNCHANGED <<phase, queue>>, Linked \subseteq Linked' PROVE NoRoomWasted'
  <2>1. IsFiniteSet(Linked')
    BY LinksAssumption, FS_Subset DEF Linked
  <2>2. Cardinality(Linked) <= Cardinality(Linked')
    BY <1>same, <2>1, FS_Subset
  <2>3. Cardinality(Linked) \in Nat /\ Cardinality(Linked') \in Nat
    BY <2>1, LinkedFinite, FS_CardinalityType
  <2> QED
    BY <1>0, <1>same, <2>2, <2>3, LinksAssumption DEF NoRoomWasted
<1>1. ASSUME NEW a \in Addrs, Learn(a) PROVE PoolInv'
  <2> DEFINE q == IF a \in tried THEN queue ELSE Append(queue, a)
  <2>1. tried' \in SUBSET Addrs /\ UNCHANGED phase
    BY <1>0, <1>1 DEF Learn, Remember, PoolTyped
  <2>2. q \in Seq(tried')
    BY <1>0, <1>1 DEF Learn, Remember, PoolTyped
  <2>3. q \in Seq(Addrs)
    BY <1>0, <1>1 DEF PoolTyped
  <2>4. CASE phase = "Recheck"
    <3>1. queue' = q /\ UNCHANGED <<phase, link, useless, ghosts, outbox>>
      BY <1>1, <2>4 DEF Learn, KeepQueued
    <3>2. PoolTyped'
      BY <1>0, <2>1, <2>2, <3>1 DEF PoolTyped, Linked
    <3>3. OutboxTyped'
      BY <1>0, <3>1 DEF OutboxTyped, Speaks
    <3>4. NoRoomWasted'
      BY <2>4, <3>1 DEF NoRoomWasted
    <3> QED
      BY <1>parts, <3>2, <3>3, <3>4
  <2>5. CASE phase # "Recheck"
    <3>1. SpawnFromQueue(link, ghosts, useless, q, outbox)
      BY <1>1, <2>5 DEF Learn
    <3>2. /\ link \in [Addrs -> LinkStates] /\ ghosts \in [Addrs -> Nat]
          /\ useless \in SUBSET {x \in Addrs : link[x] # "none"}
          /\ outbox \in [Addrs -> OutboxSet]
          /\ \A x \in Addrs : outbox[x].on => link[x] = "open" \/ (link[x] # "none" /\ ghosts[x] > 0)
          /\ phase' \in {"Metadata", "Recheck", "Download"}
      BY <1>0, <2>1 DEF PoolTyped, OutboxTyped, Linked, Speaks
    <3> HIDE DEF q
    <3>3. PoolTyped' /\ OutboxTyped'
      BY <2>1, <2>2, <3>1, <3>2, FilledTyped
    <3>4. NoRoomWasted'
      BY <2>3, <3>1, FilledRoom DEF NoRoomWasted
    <3> QED
      BY <1>parts, <3>3, <3>4
  <2> QED
    BY <2>4, <2>5
<1>2. ASSUME NEW a \in Addrs, Dialled(a) PROVE PoolInv'
  <2>1. PoolTyped'
    BY <1>0, <1>2 DEF Dialled, PoolTyped, LinkStates, Linked
  <2>2. OutboxTyped'
    BY <1>0, <1>2 DEF Dialled, OutboxTyped, PoolTyped, Speaks
  <2>3. Linked \subseteq Linked'
    BY <1>0, <1>2 DEF Dialled, Linked, PoolTyped
  <2> QED
    BY <1>parts, <1>same, <1>2, <2>1, <2>2, <2>3 DEF Dialled
<1>3. ASSUME NEW a \in Addrs, Inbound(a) PROVE PoolInv'
  <2>1. PoolTyped'
    BY <1>0, <1>3 DEF Inbound, PoolTyped, LinkStates, Linked
  <2>2. ASSUME NEW x \in Addrs
        PROVE  outbox'[x] \in OutboxSet /\ (outbox'[x].on => Speaks(x)')
    <3>1. outbox'[x] = IF x = a THEN NoPex ELSE HearOf(outbox[x], {a})
      BY <1>3 DEF Inbound, Outboxes
    <3>2. NoPex \in OutboxSet /\ ~ NoPex.on
      BY DEF NoPex, Outbox, OutboxSet
    <3>3. outbox[x] \in OutboxSet /\ (outbox[x].on => Speaks(x))
      BY <1>0 DEF OutboxTyped
    <3>4. HearOf(outbox[x], {a}) \in OutboxSet /\ HearOf(outbox[x], {a}).on = outbox[x].on
      BY <3>3 DEF HearOf, OutboxSet
    <3>5. x # a => link'[x] = link[x] /\ ghosts'[x] = ghosts[x]
      BY <1>0, <1>3 DEF Inbound, PoolTyped
    <3> QED
      BY <3>1, <3>2, <3>3, <3>4, <3>5 DEF Speaks
  <2>3. outbox' = [x \in Addrs |-> outbox'[x]]
    BY <1>3 DEF Inbound, Outboxes
  <2>4. OutboxTyped'
    BY <2>2, <2>3 DEF OutboxTyped
  <2>5. Linked \subseteq Linked'
    BY <1>0, <1>3 DEF Inbound, Linked, PoolTyped
  <2> QED
    BY <1>parts, <1>same, <1>3, <2>1, <2>4, <2>5 DEF Inbound
<1>4. ASSUME NEW a \in Addrs, TurnsUseless(a) \/ TurnsUseful(a) PROVE PoolInv'
  <2>1. PoolTyped'
    BY <1>0, <1>4 DEF TurnsUseless, TurnsUseful, PoolTyped, Linked, Speaks
  <2>2. OutboxTyped' /\ Linked' = Linked /\ UNCHANGED <<phase, queue>>
    BY <1>0, <1>4 DEF TurnsUseless, TurnsUseful, OutboxTyped, Linked, Speaks
  <2> QED
    BY <1>parts, <1>same, <2>1, <2>2
<1>5. ASSUME NEW a \in Addrs, ExtHandshake(a) PROVE PoolInv'
  <2>1. PoolTyped' /\ Linked' = Linked /\ UNCHANGED <<phase, queue>>
    BY <1>0, <1>5 DEF ExtHandshake, PoolTyped, Linked
  <2>2. OutboxTyped'
    <3>1. ASSUME NEW x \in Addrs
          PROVE  outbox'[x] \in OutboxSet /\ (outbox'[x].on => Speaks(x)')
      <4>1. outbox[x] \in OutboxSet /\ (outbox[x].on => Speaks(x))
        BY <1>0 DEF OutboxTyped
      <4>2. outbox'[x] = IF x = a THEN [outbox[a] EXCEPT !.on = TRUE] ELSE outbox[x]
        BY <1>0, <1>5 DEF ExtHandshake, OutboxTyped
      <4>3. [outbox[x] EXCEPT !.on = TRUE] \in OutboxSet
        BY <4>1 DEF OutboxSet
      <4> QED
        BY <1>5, <4>1, <4>2, <4>3 DEF ExtHandshake, Speaks
    <3>2. outbox' = [x \in Addrs |-> outbox'[x]]
      BY <1>0, <1>5 DEF ExtHandshake, OutboxTyped
    <3> QED
      BY <3>1, <3>2 DEF OutboxTyped
  <2> QED
    BY <1>parts, <1>same, <2>1, <2>2
<1>6. ASSUME NEW a \in Addrs, Disconnected(a) PROVE PoolInv'
  <2>1. ghosts \in [Addrs -> Nat]
    BY <1>0 DEF PoolTyped
  <2> QED
    BY <1>0, <1>6, <2>1, RemovedTyped DEF Disconnected
<1>7. ASSUME NEW a \in Addrs, GhostDisconnected(a) PROVE PoolInv'
  <2> DEFINE g == IF link[a] = "none" THEN [ghosts EXCEPT ![a] = @ - 1] ELSE ghosts
  <2>1. g \in [Addrs -> Nat] /\ \A x \in Addrs \ {a} : g[x] = ghosts[x]
    BY <1>0, <1>7 DEF PoolTyped, GhostDisconnected
  <2>2. Removed(a, g)
    BY <1>7 DEF GhostDisconnected
  <2> HIDE DEF g
  <2> QED
    BY <1>0, <2>1, <2>2, RemovedTyped
<1>8. CASE FlushPex
  <2>1. PoolTyped' /\ Linked' = Linked /\ UNCHANGED <<phase, queue>>
    BY <1>0, <1>8 DEF FlushPex, PoolTyped, Linked
  <2>2. ASSUME NEW x \in Addrs
        PROVE  outbox'[x] \in OutboxSet /\ outbox'[x].on = outbox[x].on
    <3>1. outbox[x] \in OutboxSet
      BY <1>0 DEF OutboxTyped
    <3>2. Swarm \ (Self \cup {x}) \in SUBSET Addrs
      BY DEF Swarm, Linked
    <3>3. outbox'[x] = IF ~ outbox[x].on THEN outbox[x]
                       ELSE IF outbox[x].full THEN SentNew(outbox[x])
                       ELSE SentFull(Swarm \ (Self \cup {x}))
      BY <1>8 DEF FlushPex
    <3>4. SentNew(outbox[x]) \in OutboxSet /\ SentNew(outbox[x]).on
      <4>1. /\ outbox[x].told \in SUBSET Addrs /\ outbox[x].unsure \in SUBSET Addrs
            /\ outbox[x].added \in SUBSET Addrs /\ outbox[x].dropped \in SUBSET Addrs
        BY <3>1 DEF OutboxSet
      <4> QED
        BY <4>1 DEF SentNew, Outbox, OutboxSet
    <3>5. /\ SentFull(Swarm \ (Self \cup {x})) \in OutboxSet
          /\ SentFull(Swarm \ (Self \cup {x})).on /\ outbox[x].on \in BOOLEAN
      BY <3>1, <3>2 DEF SentFull, Outbox, OutboxSet
    <3>6. CASE ~ outbox[x].on
      BY <3>1, <3>3, <3>6
    <3>7. CASE outbox[x].on /\ outbox[x].full
      BY <3>3, <3>4, <3>7
    <3>8. CASE outbox[x].on /\ ~ outbox[x].full
      BY <3>3, <3>5, <3>8
    <3> QED
      BY <3>6, <3>7, <3>8
  <2>3. outbox' = [x \in Addrs |-> outbox'[x]]
    BY <1>8 DEF FlushPex
  <2>4. OutboxTyped'
    BY <1>0, <1>8, <2>2, <2>3 DEF OutboxTyped, FlushPex, Speaks
  <2> QED
    BY <1>parts, <1>same, <2>1, <2>4
<1>9. CASE MetadataComplete
  BY <1>0, <1>9, <1>parts DEF MetadataComplete, PoolTyped, OutboxTyped, NoRoomWasted, Linked, Speaks
<1>10. CASE RecheckDone
  <2>1. /\ SpawnFromQueue(link, ghosts, useless, queue, outbox)
        /\ phase' = "Download" /\ UNCHANGED tried
    BY <1>10 DEF RecheckDone, AfterRecheck
  <2>2. /\ link \in [Addrs -> LinkStates] /\ ghosts \in [Addrs -> Nat]
        /\ useless \in SUBSET {x \in Addrs : link[x] # "none"}
        /\ tried' \in SUBSET Addrs /\ queue \in Seq(tried') /\ queue \in Seq(Addrs)
        /\ outbox \in [Addrs -> OutboxSet]
        /\ \A x \in Addrs : outbox[x].on => link[x] = "open" \/ (link[x] # "none" /\ ghosts[x] > 0)
        /\ phase' \in {"Metadata", "Recheck", "Download"}
    BY <1>0, <2>1 DEF PoolTyped, OutboxTyped, Linked, Speaks
  <2>3. PoolTyped' /\ OutboxTyped'
    BY <2>1, <2>2, FilledTyped
  <2>4. NoRoomWasted'
    BY <2>1, <2>2, FilledRoom DEF NoRoomWasted
  <2> QED
    BY <1>parts, <2>3, <2>4
<1>11. CASE UNCHANGED vars
  BY <1>0, <1>11, <1>parts DEF vars, PoolTyped, OutboxTyped, NoRoomWasted, Linked, Speaks
<1> QED
  BY <1>1, <1>2, <1>3, <1>4, <1>5, <1>6, <1>7, <1>8, <1>9, <1>10, <1>11
  DEF Next, Discovered, OnPex

\* No address waits while there is room for it, however many peers are there.
THEOREM RoomIsUsed == Spec => []NoRoomWasted
<1>1. PoolInv => NoRoomWasted
  BY DEF PoolInv
<1> QED
  BY <1>1, InitPool, StepPool, PTL DEF Spec

\* The links keep their types; only links are useless, and an outbox belongs to
\* a link whose peer has spoken, or the peer of a link it replaced.
THEOREM LinksTyped == Spec => []TypeOK
<1>1. PoolInv => TypeOK
  BY DEF PoolInv
<1> QED
  BY <1>1, InitPool, StepPool, PTL DEF Spec

(***************************************************************************)
(* What the peers are told adds up.  The invariant is about all links, the *)
(* ones still being dialled included.                                      *)
(***************************************************************************)

Steady(o, a, L) == o.full =>
  /\ o.on
  /\ \A x \in Addrs \ (Self \cup {a}) :
       x \notin SentNew(o).unsure => (x \in SentNew(o).told <=> x \in L)
  /\ (Self \cup {a}) \cap (o.told \cup o.added) = {}

PexInv == \A a \in Addrs : Steady(outbox[a], a, Linked)

LEMMA NoPexSteady == ASSUME NEW a, NEW L PROVE Steady(NoPex, a, L)
  BY DEF Steady, NoPex, Outbox

\* Hearing of links that are there keeps an outbox steady.
LEMMA HearOfSteady ==
  ASSUME NEW o \in OutboxSet, NEW a, NEW L, NEW new, a \notin new, Steady(o, a, L)
  PROVE  Steady(HearOf(o, new), a, L \cup new)
<1>1. CASE ~ o.on
  BY <1>1 DEF HearOf, Steady
<1>2. CASE o.on
  <2> DEFINE r == HearOf(o, new)
  <2>1. r = [o EXCEPT !.added = o.added \cup (new \ Self)]
    BY <1>2 DEF HearOf
  <2>2. /\ r.full = o.full /\ r.on = o.on /\ r.told = o.told /\ r.unsure = o.unsure
        /\ r.dropped = o.dropped /\ r.added = o.added \cup (new \ Self)
    BY <2>1 DEF OutboxSet
  <2> HIDE DEF r
  <2>3. Steady(r, a, L \cup new)
    BY <2>2 DEF Steady, SentNew, Outbox
  <2> QED
    BY <2>3 DEF r
<1> QED
  BY <1>1, <1>2

\* So does hearing that one has gone.
LEMMA HearOfLossSteady ==
  ASSUME NEW o \in OutboxSet, NEW a, NEW L, NEW x, Steady(o, a, L)
  PROVE  Steady(HearOfLoss(o, x), a, L \ {x})
<1>1. CASE ~ o.on
  BY <1>1 DEF HearOfLoss, Steady
<1>2. CASE o.on
  <2> DEFINE r == HearOfLoss(o, x)
  <2>1. r = [o EXCEPT !.dropped = o.dropped \cup {x}]
    BY <1>2 DEF HearOfLoss
  <2>2. /\ r.full = o.full /\ r.on = o.on /\ r.told = o.told /\ r.unsure = o.unsure
        /\ r.added = o.added /\ r.dropped = o.dropped \cup {x}
    BY <2>1 DEF OutboxSet
  <2> HIDE DEF r
  <2>3. Steady(r, a, L \ {x})
    BY <2>2 DEF Steady, SentNew, Outbox
  <2> QED
    BY <2>3 DEF r
<1> QED
  BY <1>1, <1>2

\* Filling the pool keeps the outboxes steady.
LEMMA FilledSteady ==
  ASSUME NEW l, NEW g, NEW u, NEW q \in Seq(Addrs),
         NEW boxes \in [Addrs -> OutboxSet],
         \A a \in Addrs : Steady(boxes[a], a, {x \in Addrs : l[x] # "none"}),
         SpawnFromQueue(l, g, u, q, boxes)
  PROVE  PexInv'
<1> DEFINE L == {x \in Addrs : l[x] # "none"}
<1>1. PICK n \in 0 .. Len(q) :
        /\ link' = [a \in Addrs |-> IF a \in First(q, n) THEN "dialling" ELSE l[a]]
        /\ outbox' = Outboxes(boxes, First(q, n))
  BY DEF SpawnFromQueue
<1>2. First(q, n) \subseteq Addrs
  BY FirstTyped
<1>3. Linked' = L \cup First(q, n)
  BY <1>1, <1>2 DEF Linked
<1>4. ASSUME NEW a \in Addrs PROVE Steady(outbox'[a], a, L \cup First(q, n))
  <2>1. outbox'[a] = IF a \in First(q, n) THEN NoPex ELSE HearOf(boxes[a], First(q, n))
    BY <1>1 DEF Outboxes
  <2>2. CASE a \in First(q, n)
    BY <2>1, <2>2, NoPexSteady
  <2>3. CASE a \notin First(q, n)
    <3>1. boxes[a] \in OutboxSet /\ Steady(boxes[a], a, L)
      OBVIOUS
    <3> HIDE DEF L
    <3>2. Steady(HearOf(boxes[a], First(q, n)), a, L \cup First(q, n))
      BY <2>3, <3>1, HearOfSteady
    <3> QED
      BY <2>1, <2>3, <3>2
  <2> QED
    BY <2>2, <2>3
<1> QED
  BY <1>3, <1>4 DEF PexInv

\* A message makes an outbox steady that is in use.
LEMMA SentSteady ==
  ASSUME NEW o \in OutboxSet, NEW a \in Addrs, NEW L, o.on, Steady(o, a, L)
  PROVE  Steady(IF o.full THEN SentNew(o) ELSE SentFull(L \ (Self \cup {a})), a, L)
<1>1. CASE o.full
  <2> DEFINE r == SentNew(o)
  <2>1. /\ r.full /\ r.on /\ r.added = {} /\ r.dropped = {}
        /\ r.told = SentNew(o).told /\ r.unsure = SentNew(o).unsure
        /\ SentNew(o).told \subseteq o.told \cup o.added
    BY DEF SentNew, Outbox
  <2> HIDE DEF r
  <2>2. SentNew(r).told = r.told /\ SentNew(r).unsure = r.unsure
    BY <2>1 DEF SentNew, Outbox
  <2>3. Steady(r, a, L)
    BY <1>1, <2>1, <2>2 DEF Steady
  <2> QED
    BY <1>1, <2>3 DEF r
<1>2. CASE ~ o.full
  <2> DEFINE r == SentFull(L \ (Self \cup {a}))
  <2>1. /\ r.full /\ r.on /\ r.added = {} /\ r.dropped = {} /\ r.unsure = {}
        /\ r.told = L \ (Self \cup {a})
    BY DEF SentFull, Outbox
  <2> HIDE DEF r
  <2>2. SentNew(r).told = r.told /\ SentNew(r).unsure = {}
    BY <2>1 DEF SentNew, Outbox
  <2>3. Steady(r, a, L)
    BY <2>1, <2>2 DEF Steady
  <2> QED
    BY <1>2, <2>3 DEF r
<1> QED
  BY <1>1, <1>2

LEMMA StepPex == PoolInv /\ PexInv /\ [Next]_vars => PexInv'
<1> SUFFICES ASSUME PoolInv, PexInv, [Next]_vars PROVE PexInv'
  OBVIOUS
<1>0. PoolTyped /\ OutboxTyped /\ queue \in Seq(Addrs)
  BY TypeParts DEF PoolInv, PoolTyped
<1>fill. ASSUME NEW q \in Seq(Addrs), SpawnFromQueue(link, ghosts, useless, q, outbox)
         PROVE  PexInv'
  BY <1>0, <1>fill, FilledSteady DEF PexInv, OutboxTyped, Linked
<1>same. ASSUME UNCHANGED outbox, Linked' = Linked PROVE PexInv'
  BY <1>same DEF PexInv
<1>1. ASSUME NEW a \in Addrs, Learn(a) PROVE PexInv'
  <2> DEFINE q == IF a \in tried THEN queue ELSE Append(queue, a)
  <2>1. q \in Seq(Addrs)
    BY <1>0
  <2>2. CASE phase = "Recheck"
    BY <1>1, <2>2, <1>same DEF Learn, KeepQueued, Linked
  <2>3. CASE phase # "Recheck"
    <3>1. SpawnFromQueue(link, ghosts, useless, q, outbox)
      BY <1>1, <2>3 DEF Learn
    <3> HIDE DEF q
    <3> QED
      BY <2>1, <3>1, <1>fill
  <2> QED
    BY <2>2, <2>3
<1>2. ASSUME NEW a \in Addrs, Dialled(a) PROVE PexInv'
  <2>1. Linked' = Linked
    BY <1>0, <1>2 DEF Dialled, Linked, PoolTyped
  <2> QED
    BY <1>2, <2>1, <1>same DEF Dialled
<1>3. ASSUME NEW a \in Addrs, Inbound(a) PROVE PexInv'
  <2>1. Linked' = Linked \cup {a}
    BY <1>0, <1>3 DEF Inbound, Linked, PoolTyped
  <2>2. ASSUME NEW x \in Addrs PROVE Steady(outbox'[x], x, Linked \cup {a})
    <3>1. outbox'[x] = IF x \in {a} THEN NoPex ELSE HearOf(outbox[x], {a})
      BY <1>3 DEF Inbound, Outboxes
    <3>2. outbox[x] \in OutboxSet /\ Steady(outbox[x], x, Linked)
      BY <1>0 DEF OutboxTyped, PexInv
    <3>3. CASE x \in {a}
      BY <3>1, <3>3, NoPexSteady
    <3>4. CASE x \notin {a}
      BY <3>1, <3>2, <3>4, HearOfSteady
    <3> QED
      BY <3>3, <3>4
  <2> QED
    BY <2>1, <2>2 DEF PexInv
<1>4. ASSUME NEW a \in Addrs, TurnsUseless(a) \/ TurnsUseful(a) PROVE PexInv'
  BY <1>4, <1>same DEF TurnsUseless, TurnsUseful, Linked
<1>5. ASSUME NEW a \in Addrs, ExtHandshake(a) PROVE PexInv'
  <2>1. Linked' = Linked
    BY <1>5 DEF ExtHandshake, Linked
  <2>2. ASSUME NEW x \in Addrs PROVE Steady(outbox'[x], x, Linked)
    <3>1. outbox[x] \in OutboxSet /\ Steady(outbox[x], x, Linked)
      BY <1>0 DEF OutboxTyped, PexInv
    <3>2. outbox'[x] = IF x = a THEN [outbox[x] EXCEPT !.on = TRUE] ELSE outbox[x]
      BY <1>0, <1>5 DEF ExtHandshake, OutboxTyped
    <3>3. CASE x = a
      <4> DEFINE r == [outbox[x] EXCEPT !.on = TRUE]
      <4>1. ~ outbox[x].full
        BY <1>5, <3>1, <3>3 DEF ExtHandshake, Steady
      <4>2. r.full = outbox[x].full
        BY <3>1 DEF OutboxSet
      <4>3. Steady(r, x, Linked)
        <5> HIDE DEF r
        <5> QED
          BY <3>1, <4>1, <4>2 DEF Steady
      <4> QED
        BY <3>2, <3>3, <4>3
    <3> QED
      BY <3>1, <3>2, <3>3
  <2> QED
    BY <2>1, <2>2 DEF PexInv
<1>6. ASSUME NEW a \in Addrs, NEW g, Removed(a, g) PROVE PexInv'
  <2> DEFINE l == [link EXCEPT ![a] = "none"]
             boxes == [x \in Addrs |-> IF x = a THEN NoPex ELSE HearOfLoss(outbox[x], a)]
  <2>1. SpawnFromQueue(l, g, useless \ {a}, queue, boxes)
    BY <1>6 DEF Removed
  <2>2. {x \in Addrs : l[x] # "none"} = Linked \ {a}
    BY <1>0 DEF PoolTyped, Linked
  <2>3. ASSUME NEW x \in Addrs
        PROVE  boxes[x] \in OutboxSet /\ Steady(boxes[x], x, Linked \ {a})
    <3>1. outbox[x] \in OutboxSet /\ Steady(outbox[x], x, Linked)
      BY <1>0 DEF OutboxTyped, PexInv
    <3>2. NoPex \in OutboxSet
      BY DEF NoPex, Outbox, OutboxSet
    <3>3. HearOfLoss(outbox[x], a) \in OutboxSet
      BY <3>1 DEF HearOfLoss, OutboxSet
    <3> QED
      BY <3>1, <3>2, <3>3, NoPexSteady, HearOfLossSteady
  <2>4. boxes \in [Addrs -> OutboxSet]
    BY <2>3
  <2>5. \A x \in Addrs : Steady(boxes[x], x, {y \in Addrs : l[y] # "none"})
    BY <2>2, <2>3
  <2> HIDE DEF l, boxes
  <2> QED
    BY <1>0, <2>1, <2>4, <2>5, FilledSteady
<1>7. ASSUME NEW a \in Addrs, Disconnected(a) \/ GhostDisconnected(a) PROVE PexInv'
  BY <1>6, <1>7 DEF Disconnected, GhostDisconnected
<1>8. CASE FlushPex
  <2>1. Linked' = Linked
    BY <1>8 DEF FlushPex, Linked
  <2>2. ASSUME NEW x \in Addrs PROVE Steady(outbox'[x], x, Linked)
    <3>1. outbox[x] \in OutboxSet /\ Steady(outbox[x], x, Linked)
      BY <1>0 DEF OutboxTyped, PexInv
    <3>2. outbox'[x] = IF ~ outbox[x].on THEN outbox[x]
                       ELSE IF outbox[x].full THEN SentNew(outbox[x])
                       ELSE SentFull(Linked \ (Self \cup {x}))
      BY <1>8 DEF FlushPex, Swarm
    <3>3. CASE ~ outbox[x].on
      BY <3>1, <3>2, <3>3
    <3>4. CASE outbox[x].on
      BY <3>1, <3>2, <3>4, SentSteady
    <3> QED
      BY <3>3, <3>4
  <2> QED
    BY <2>1, <2>2 DEF PexInv
<1>9. CASE MetadataComplete
  BY <1>9, <1>same DEF MetadataComplete, Linked
<1>10. CASE RecheckDone
  BY <1>0, <1>10, <1>fill DEF RecheckDone, AfterRecheck
<1>11. CASE UNCHANGED vars
  BY <1>11, <1>same DEF vars, Linked
<1> QED
  BY <1>1, <1>2, <1>3, <1>4, <1>5, <1>7, <1>8, <1>9, <1>10, <1>11
  DEF Next, Discovered, OnPex

\* Once a peer that got its first list has what waits for it, it knows of every
\* open link and of nobody who has gone, but for the addresses last named both
\* ways; it hears neither of itself nor of us.
THEOREM PexIsRight == Spec => []PexAddsUp
<1>1. Init => PexInv
  BY NoPexSteady DEF Init, PexInv
<1>2. PexInv => PexAddsUp
  BY DEF PexInv, Steady, PexAddsUp, Linked
<1> QED
  BY <1>1, <1>2, InitPool, StepPool, StepPex, PTL DEF Spec
=============================================================================
