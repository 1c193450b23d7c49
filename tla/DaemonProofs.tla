----------------------------- MODULE DaemonProofs -----------------------------
(***************************************************************************)
(* Registry, sessions and state file agree, for every set of torrents and  *)
(* any number of sessions, crashes and restarts.  What handlers do to the  *)
(* sessions is described by Own, Orders and Alike; the invariant says what *)
(* a command on its way, and a list that is being restored, mean.          *)
(***************************************************************************)
EXTENDS Daemon, SequenceTheorems, TLAPS

(***************************************************************************)
(* Changes of the sessions.                                                *)
(***************************************************************************)

LEMMA Update ==
  ASSUME NEW q \in Seq(SessionRecords), NEW s \in 1 .. Len(q), NEW x \in SessionRecords,
         NEW n, n = [q EXCEPT ![s] = x]
  PROVE  /\ n \in Seq(SessionRecords) /\ Len(n) = Len(q)
         /\ \A t \in 1 .. Len(q) : n[t] = IF t = s THEN x ELSE q[t]
  BY ExceptSeq

\* The contents of a channel are told apart.
LEMMA CommandsDiffer ==
  /\ <<"Pause">> # <<>> /\ <<"Resume">> # <<>> /\ <<"Shutdown">> # <<>>
  /\ <<"Pause">> # <<"Resume">> /\ <<"Pause">> # <<"Shutdown">>
  /\ <<"Resume">> # <<"Shutdown">>
<1>1. \A c \in {"Pause", "Resume", "Shutdown"} : Len(<<c>>) = 1 /\ <<c>>[1] = c
  OBVIOUS
<1>2. Len(<<>>) = 0
  OBVIOUS
<1> QED
  BY <1>1, <1>2

\* What a session may become without a command of the actor: it goes on as it
\* was, or reads the command in its channel and obeys.
Own(old, new) ==
  /\ new.torrent = old.torrent
  /\ new.state = "running" =>
       /\ old.state = "running"
       /\ \/ new.commands = old.commands /\ new.paused = old.paused
          \/ new.commands = <<>> /\ old.commands = <<"Pause">> /\ new.paused
          \/ new.commands = <<>> /\ old.commands = <<"Resume">> /\ ~ new.paused

SessionsTyped(q) == q \in Seq(SessionRecords) /\ Len(q) = Len(sessions)

Moves == SessionsTyped(sessions') /\ \A t \in Ids : Own(sessions[t], sessions'[t])

LEMMA SessionFacts ==
  ASSUME TypeOK
  PROVE  /\ sessions \in Seq(SessionRecords) /\ Len(sessions) \in Nat
         /\ Ids = 1 .. Len(sessions)
         /\ \A s \in Ids : sessions[s] \in SessionRecords
  BY ElementOfSeq, LenProperties DEF TypeOK, Ids

LEMMA OneMoves ==
  ASSUME TypeOK, NEW s \in Ids, NEW x \in SessionRecords, Own(sessions[s], x),
         sessions' = [sessions EXCEPT ![s] = x]
  PROVE  Moves
  BY SessionFacts, Update DEF Moves, SessionsTyped, Own

LEMMA ReadMoves == ASSUME TypeOK, NEW s \in Ids, ReadCommand(s) PROVE Moves
<1> DEFINE old == sessions[s]
<1>1. old \in SessionRecords /\ s \in DOMAIN sessions /\ sessions \in Seq(SessionRecords)
  BY SessionFacts, LenProperties
<1>2. old.state = "running"
  BY DEF ReadCommand
<1>3. CASE Head(old.commands) = "Pause"
  <2> DEFINE x == [old EXCEPT !.commands = <<>>, !.paused = TRUE]
  <2>0. old.commands = <<"Pause">>
    BY <1>1, <1>3 DEF SessionRecords, ReadCommand
  <2>1. x \in SessionRecords /\ Own(old, x)
    BY <1>1, <1>2, <2>0 DEF SessionRecords, Own
  <2>2. sessions' = [sessions EXCEPT ![s] = x]
    BY <1>1, <1>3 DEF ReadCommand
  <2> QED
    BY <2>1, <2>2, OneMoves
<1>4. CASE Head(old.commands) = "Resume"
  <2> DEFINE x == [old EXCEPT !.commands = <<>>, !.paused = FALSE]
  <2>0. old.commands = <<"Resume">>
    BY <1>1, <1>4 DEF SessionRecords, ReadCommand
  <2>1. x \in SessionRecords /\ Own(old, x)
    BY <1>1, <1>2, <2>0 DEF SessionRecords, Own
  <2>2. sessions' = [sessions EXCEPT ![s] = x]
    BY <1>1, <1>4 DEF ReadCommand
  <2> QED
    BY <2>1, <2>2, OneMoves
<1>5. CASE Head(old.commands) = "Shutdown"
  <2> DEFINE x == [old EXCEPT !.commands = <<>>, !.state = "stopping"]
  <2>1. x \in SessionRecords /\ Own(old, x)
    BY <1>1, <1>5 DEF SessionRecords, Own
  <2>2. sessions' = [sessions EXCEPT ![s] = x]
    BY <1>1, <1>5 DEF ReadCommand
  <2> QED
    BY <2>1, <2>2, OneMoves
<1> QED
  BY <1>3, <1>4, <1>5 DEF ReadCommand

LEMMA MetadataMoves == ASSUME TypeOK, NEW s \in Ids, MetadataDone(s) PROVE Moves
<1> DEFINE old == sessions[s]
           x == [old EXCEPT !.metadata = TRUE]
<1>1. old \in SessionRecords /\ s \in DOMAIN sessions
  BY SessionFacts, LenProperties
<1>2. x \in SessionRecords /\ Own(old, x)
  BY <1>1 DEF SessionRecords, Own
<1>3. sessions' = [sessions EXCEPT ![s] = x]
  BY <1>1 DEF MetadataDone
<1> QED
  BY <1>2, <1>3, OneMoves

LEMMA FailsMoves == ASSUME TypeOK, NEW s \in Ids, Fails(s) PROVE Moves
<1> DEFINE old == sessions[s]
           x == [old EXCEPT !.state = "stopping", !.failed = TRUE]
<1>1. old \in SessionRecords /\ s \in DOMAIN sessions
  BY SessionFacts, LenProperties
<1>2. x \in SessionRecords /\ Own(old, x)
  BY <1>1 DEF SessionRecords, Own
<1>3. sessions' = [sessions EXCEPT ![s] = x]
  BY <1>1 DEF Fails
<1> QED
  BY <1>2, <1>3, OneMoves

LEMMA TornDownMoves == ASSUME TypeOK, NEW s \in Ids, TornDown(s) PROVE Moves
<1> DEFINE old == sessions[s]
<1>1. old \in SessionRecords /\ s \in DOMAIN sessions
  BY SessionFacts, LenProperties
<1>2. PICK failed \in BOOLEAN :
        sessions' = [sessions EXCEPT ![s].state = "done", ![s].commands = <<>>,
                                     ![s].paused = FALSE, ![s].failed = @ \/ failed]
  BY DEF TornDown
<1> DEFINE x == [old EXCEPT !.state = "done", !.commands = <<>>, !.paused = FALSE,
                               !.failed = @ \/ failed]
<1>3. old.failed \/ failed \in BOOLEAN
  BY <1>1 DEF SessionRecords
<1>4. x \in SessionRecords /\ Own(old, x)
  BY <1>1, <1>3 DEF SessionRecords, Own
<1>5. sessions' = [sessions EXCEPT ![s] = x]
  BY <1>1, <1>2
<1> QED
  BY <1>4, <1>5, OneMoves

LEMMA ReportedMoves ==
  ASSUME TypeOK, NEW s \in Ids,
         sessions' = [sessions EXCEPT ![s].state = "reported", ![s].failed = FALSE]
  PROVE  Moves
<1> DEFINE old == sessions[s]
           x == [old EXCEPT !.state = "reported", !.failed = FALSE]
<1>1. old \in SessionRecords /\ s \in DOMAIN sessions
  BY SessionFacts, LenProperties
<1>2. x \in SessionRecords /\ Own(old, x)
  BY <1>1 DEF SessionRecords, Own
<1>3. sessions' = [sessions EXCEPT ![s] = x]
  BY <1>1
<1> QED
  BY <1>2, <1>3, OneMoves

\* What a session is after the actor sent it a command.
Orders(s, command) ==
  /\ SessionsTyped(sessions')
  /\ \A t \in Ids \ {s} : Own(sessions[t], sessions'[t])
  /\ sessions'[s].torrent = sessions[s].torrent
  /\ sessions'[s].state = "running" =>
       /\ sessions[s].state = "running" /\ sessions[s].commands = <<>>
       /\ sessions'[s].commands = <<command>>
       /\ sessions'[s].paused = sessions[s].paused

LEMMA SentFacts ==
  ASSUME TypeOK, NEW s \in Ids, CanSend(s), NEW c \in {"Pause", "Resume", "Shutdown"},
         NEW n, n = Sent(s, c)
  PROVE  /\ SessionsTyped(n)
         /\ \A t \in Ids \ {s} : n[t] = sessions[t]
         /\ n[s].torrent = sessions[s].torrent /\ n[s].state = sessions[s].state
         /\ n[s].paused = sessions[s].paused
         /\ Writing(s) => sessions[s].commands = <<>> /\ n[s].commands = <<c>>
<1>1. /\ sessions[s] \in SessionRecords /\ s \in DOMAIN sessions
      /\ sessions \in Seq(SessionRecords)
  BY SessionFacts, LenProperties
<1>2. CASE Writing(s)
  <2> DEFINE x == [sessions[s] EXCEPT !.commands = <<c>>]
  <2>1. sessions[s].commands = <<>>
    BY <1>2 DEF CanSend
  <2>2. x \in SessionRecords
    BY <1>1 DEF SessionRecords
  <2>3. /\ x.torrent = sessions[s].torrent /\ x.state = sessions[s].state
        /\ x.paused = sessions[s].paused /\ x.commands = <<c>>
    BY <1>1 DEF SessionRecords
  <2>4. n = [sessions EXCEPT ![s] = x]
    BY <1>1, <1>2, <2>1 DEF Sent
  <2>5. SessionsTyped(n) /\ \A t \in Ids : n[t] = IF t = s THEN x ELSE sessions[t]
    BY <1>1, <2>2, <2>4, Update, SessionFacts DEF SessionsTyped
  <2> QED
    BY <2>1, <2>3, <2>5
<1>3. CASE ~ Writing(s)
  BY <1>1, <1>3, SessionFacts DEF Sent, SessionsTyped
<1> QED
  BY <1>2, <1>3

LEMMA SentOrders ==
  ASSUME TypeOK, NEW s \in Ids, CanSend(s), NEW c \in {"Pause", "Resume", "Shutdown"},
         sessions' = Sent(s, c)
  PROVE  Orders(s, c)
  BY SentFacts, SessionFacts DEF Orders, Own, Writing

\* Lists of sessions that differ in the answers to removals at most.
Alike(q, n) ==
  /\ SessionsTyped(n)
  /\ \A t \in Ids : /\ n[t].torrent = q[t].torrent /\ n[t].state = q[t].state
                    /\ n[t].commands = q[t].commands /\ n[t].paused = q[t].paused

Removals == {"none", "waiting", "ok", "error", "dropped"}

LEMMA AnswerAlike ==
  ASSUME TypeOK, NEW q, SessionsTyped(q), NEW s \in Ids, NEW r \in Removals,
         NEW n, n = [q EXCEPT ![s].removal = r]
  PROVE  Alike(q, n)
<1> DEFINE x == [q[s] EXCEPT !.removal = r]
<1>1. q \in Seq(SessionRecords) /\ Len(q) = Len(sessions) /\ Ids = 1 .. Len(q)
  BY SessionFacts DEF SessionsTyped
<1>2. q[s] \in SessionRecords /\ s \in DOMAIN q
  BY <1>1, ElementOfSeq, LenProperties
<1>3. x \in SessionRecords
  BY <1>2 DEF SessionRecords, Removals
<1>4. /\ x.torrent = q[s].torrent /\ x.state = q[s].state
      /\ x.commands = q[s].commands /\ x.paused = q[s].paused
  BY <1>2 DEF SessionRecords
<1>5. n = [q EXCEPT ![s] = x]
  BY <1>2
<1> QED
  BY <1>1, <1>3, <1>4, <1>5, Update DEF Alike, SessionsTyped

LEMMA ReplacedAlike ==
  ASSUME TypeOK, NEW q, SessionsTyped(q), NEW h
  PROVE  Alike(q, Replaced(h, q))
<1> DEFINE n == Replaced(h, q)
<1>1. /\ q \in Seq(SessionRecords) /\ Len(q) = Len(sessions) /\ Ids = 1 .. Len(q)
      /\ Len(q) \in Nat /\ DOMAIN q = Ids
  BY SessionFacts, LenProperties DEF SessionsTyped
<1>2. ASSUME NEW t \in Ids
      PROVE  /\ n[t] \in SessionRecords
             /\ n[t].torrent = q[t].torrent /\ n[t].state = q[t].state
             /\ n[t].commands = q[t].commands /\ n[t].paused = q[t].paused
  <2>1. q[t] \in SessionRecords
    BY <1>1, ElementOfSeq
  <2>2. n[t] \in {q[t], [q[t] EXCEPT !.removal = "dropped"]}
    BY <1>1 DEF Replaced
  <2> QED
    BY <2>1, <2>2 DEF SessionRecords
<1>3. n \in [1 .. Len(q) -> SessionRecords]
  BY <1>1, <1>2 DEF Replaced
<1>4. n \in Seq(SessionRecords) /\ Len(n) = Len(q)
  BY <1>1, <1>3
<1> QED
  BY <1>1, <1>2, <1>4 DEF Alike, SessionsTyped

(***************************************************************************)
(* The invariant.                                                          *)
(***************************************************************************)

\* What a command on its way to a session, or none, says of the flag that the
\* user is shown.
Heeds(x, flag) ==
  x.state = "running" =>
    /\ x.commands = <<>> => x.paused = flag
    /\ x.commands = <<"Pause">> => flag
    /\ x.commands = <<"Resume">> => ~ flag

Obeys == \A h \in Known : Heeds(sessions[registry[h].session], registry[h].paused)

\* What is to do is not registered yet while restoring, and is while telling.
Phased ==
  /\ actor = "restoring" => DOMAIN todo \cap Known = {}
  /\ actor = "telling" => DOMAIN todo \subseteq Known
  /\ actor = "down" => Known = {}

Running == {"up", "removing", "saving", "telling", "stopping"}

\* What persist left: the registry's torrents and flags; during a removal also the
\* torrent that is being removed.
SavedFits ==
  /\ actor \in {"up", "telling", "stopping"} => saved = [h \in Known |-> registry[h].paused]
  /\ actor \in {"removing", "saving"} =>
       \A h \in Known : h \in DOMAIN saved /\ saved[h] = registry[h].paused

\* A torrent that is gone is in none of the lists that could bring it back.
GoneStays ==
  /\ \A h \in gone : h \notin Known /\ h \notin DOMAIN saved /\ h \notin DOMAIN job
  /\ actor = "restoring" => \A h \in gone : h \notin DOMAIN todo

\* Where each promised torrent is to be found: in the registry, while restoring
\* also in what is to do, and without a process in the state file.
Kept ==
  /\ DOMAIN promised \subseteq Magnets \cup blobs
  /\ actor \in Running =>
       \A h \in DOMAIN promised : h \in Known /\ registry[h].paused = promised[h]
  /\ actor = "down" =>
       \A h \in DOMAIN promised : h \in DOMAIN saved /\ saved[h] = promised[h]
  /\ actor = "restoring" =>
       \A h \in DOMAIN promised :
         /\ \/ h \in Known /\ registry[h].paused = promised[h]
            \/ h \in DOMAIN todo /\ todo[h] = promised[h]
         /\ h \in DOMAIN saved => saved[h] = promised[h]

SessionsInv == TypeOK /\ NoOrphan /\ Obeys
ListInv == SavedFits /\ GoneStays /\ Phased /\ Kept

DaemonInv == SessionsInv /\ ListInv

LEMMA OwnHeeds ==
  ASSUME NEW old \in SessionRecords, NEW new \in SessionRecords, Own(old, new),
         NEW flag \in BOOLEAN, Heeds(old, flag)
  PROVE  Heeds(new, flag)
<1> SUFFICES ASSUME new.state = "running" PROVE Heeds(new, flag)
  BY DEF Heeds
<1>1. /\ old.state = "running"
      /\ \/ new.commands = old.commands /\ new.paused = old.paused
         \/ new.commands = <<>> /\ old.commands = <<"Pause">> /\ new.paused
         \/ new.commands = <<>> /\ old.commands = <<"Resume">> /\ ~ new.paused
  BY DEF Own
<1>2. /\ old.commands = <<>> => old.paused = flag
      /\ old.commands = <<"Pause">> => flag
      /\ old.commands = <<"Resume">> => ~ flag
  BY <1>1 DEF Heeds
<1>3. new.paused \in BOOLEAN
  BY DEF SessionRecords
<1> QED
  BY <1>1, <1>2, <1>3, CommandsDiffer DEF Heeds

LEMMA InitDaemon == Init => DaemonInv
<1> SUFFICES ASSUME Init PROVE DaemonInv
  OBVIOUS
<1>1. /\ Known = {} /\ DOMAIN pending = {} /\ DOMAIN saved = {} /\ DOMAIN todo = {}
      /\ DOMAIN promised = {} /\ DOMAIN job = {} /\ sessions = <<>> /\ Ids = {}
  BY DEF Init, Known, Ids
<1>2. TypeOK
  BY <1>1, DaemonAssumption, EmptySeq DEF Init, TypeOK, Phases
<1>3. SavedFits /\ GoneStays
  BY <1>1 DEF SavedFits, GoneStays, Init
<1> QED
  BY <1>1, <1>2, <1>3 DEF Init, DaemonInv, SessionsInv, ListInv, NoOrphan, Obeys, Phased, Kept, Running

\* A session on its own disturbs nothing.
LEMMA MovesKeep ==
  ASSUME DaemonInv, Moves, RestUnchanged, data' \subseteq Torrents
  PROVE  DaemonInv'
<1>1. Ids' = Ids /\ Known' = Known /\ sessions' \in Seq(SessionRecords)
      /\ \A t \in Ids : sessions'[t].torrent = sessions[t].torrent
  BY DEF Moves, SessionsTyped, Own, Ids, Known, RestUnchanged
<1>2. TypeOK'
  BY <1>1 DEF DaemonInv, SessionsInv, TypeOK, RestUnchanged, Moves, SessionsTyped
<1>3. NoOrphan'
  <2> SUFFICES ASSUME NEW s \in Ids, sessions'[s].state = "running"
               PROVE  \/ \E h \in Known : registry[h].session = s
                      \/ sessions'[s].commands = <<"Shutdown">>
                      \/ actor = "removing" /\ \E h \in DOMAIN job : job[h].session = s
    BY <1>1 DEF NoOrphan, RestUnchanged, Known
  <2>1. Own(sessions[s], sessions'[s])
    BY DEF Moves
  <2>2. CASE sessions[s].commands = <<"Shutdown">>
    BY <2>1, <2>2, CommandsDiffer DEF Own
  <2> QED
    BY <2>1, <2>2 DEF DaemonInv, SessionsInv, NoOrphan, Own
<1>4. Obeys'
  <2> SUFFICES ASSUME NEW h \in Known
               PROVE  Heeds(sessions'[registry[h].session], registry[h].paused)
    BY <1>1 DEF Obeys, RestUnchanged
  <2>1. registry[h].session \in Ids /\ registry[h].paused \in BOOLEAN
    BY DEF DaemonInv, SessionsInv, TypeOK
  <2>2. /\ sessions'[registry[h].session] \in SessionRecords
        /\ sessions[registry[h].session] \in SessionRecords
    BY <1>1, <2>1, ElementOfSeq, SessionFacts DEF DaemonInv, SessionsInv, Ids
  <2> QED
    BY <2>1, <2>2, OwnHeeds DEF DaemonInv, SessionsInv, Obeys, Moves
<1>5. ListInv'
  BY <1>1 DEF DaemonInv, ListInv, SavedFits, GoneStays, Phased, Kept, Running, RestUnchanged
<1> QED
  BY <1>2, <1>3, <1>4, <1>5 DEF DaemonInv, SessionsInv

\* A session that starts is registered, told to pause if it has to, and saved.
LEMMA Started ==
  ASSUME TypeOK, NEW h \in Torrents, h \notin Known, NEW paused \in BOOLEAN,
         StartSession(h, paused)
  PROVE  /\ sessions' \in Seq(SessionRecords) /\ Len(sessions') <= MaxSessions
         /\ Ids' = Ids \cup {Len(sessions) + 1} /\ Len(sessions) + 1 \notin Ids
         /\ \A s \in Ids : sessions'[s] = sessions[s]
         /\ LET x == sessions'[Len(sessions) + 1]
            IN  /\ x.torrent = h /\ x.state = "running" /\ ~ x.paused
                /\ x.commands = IF paused THEN <<"Pause">> ELSE <<>>
         /\ Known' = Known \cup {h}
         /\ \A k \in Known : registry'[k] = registry[k]
         /\ registry'[h] = [session |-> Len(sessions) + 1, paused |-> paused,
                            ended |-> FALSE, paths |-> FALSE]
         /\ saved' = [k \in Known' |-> registry'[k].paused]
         /\ blobs' \subseteq Torrents \ Magnets /\ blobs \ {h} \subseteq blobs'
         /\ h \in Magnets => blobs' = blobs
<1> DEFINE x == NewSession(h, FirstCommands(paused))
<1>1. x \in SessionRecords
  BY DEF SessionRecords, NewSession, FirstCommands
<1>2. /\ sessions' \in Seq(SessionRecords) /\ Len(sessions') = Len(sessions) + 1
      /\ \A s \in 1 .. Len(sessions) : sessions'[s] = sessions[s]
      /\ sessions'[Len(sessions) + 1] = x
  BY <1>1, SessionFacts, AppendProperties DEF StartSession
<1>3. Len(sessions') <= MaxSessions /\ Ids' = Ids \cup {Len(sessions) + 1}
      /\ Len(sessions) + 1 \notin Ids
  BY <1>2, SessionFacts, DaemonAssumption DEF StartSession, Ids
<1>4. /\ Known' = Known \cup {h}
      /\ \A k \in Known : registry'[k] = registry[k]
      /\ registry'[h] = [session |-> Len(sessions) + 1, paused |-> paused,
                         ended |-> FALSE, paths |-> FALSE]
  BY DEF StartSession, With, Known
<1>5. saved' = [k \in Known' |-> registry'[k].paused]
  BY DEF StartSession, Persist, Known
<1>6. /\ blobs' \subseteq Torrents \ Magnets /\ blobs \ {h} \subseteq blobs'
      /\ h \in Magnets => blobs' = blobs
  BY DEF StartSession, BlobSaved, TypeOK
<1>7. /\ x.torrent = h /\ x.state = "running" /\ ~ x.paused
      /\ x.commands = IF paused THEN <<"Pause">> ELSE <<>>
  BY DEF NewSession, FirstCommands
<1> QED
  BY <1>2, <1>3, <1>4, <1>5, <1>6, <1>7, SessionFacts

LEMMA StartKeepsSessions ==
  ASSUME SessionsInv, NEW h \in Torrents, h \notin Known, NEW paused \in BOOLEAN,
         StartSession(h, paused), UNCHANGED <<pending, data, actor, clients, job>>,
         actor \in {"up", "restoring"}, gone' \subseteq Torrents,
         DOMAIN todo' \subseteq Torrents /\ \A k \in DOMAIN todo' : todo'[k] \in BOOLEAN,
         DOMAIN promised' \subseteq Torrents,
         \A k \in DOMAIN promised' : promised'[k] \in BOOLEAN
  PROVE  SessionsInv'
<1> DEFINE new == Len(sessions) + 1
<1>1. /\ sessions' \in Seq(SessionRecords) /\ Len(sessions') <= MaxSessions
      /\ Ids' = Ids \cup {new} /\ new \notin Ids
      /\ \A s \in Ids : sessions'[s] = sessions[s]
      /\ sessions'[new].torrent = h /\ sessions'[new].state = "running"
      /\ ~ sessions'[new].paused
      /\ sessions'[new].commands = IF paused THEN <<"Pause">> ELSE <<>>
  BY Started DEF SessionsInv
<1>2. /\ Known' = Known \cup {h}
      /\ \A k \in Known : registry'[k] = registry[k]
      /\ registry'[h] = [session |-> new, paused |-> paused, ended |-> FALSE, paths |-> FALSE]
  BY Started DEF SessionsInv
<1>3. /\ saved' = [k \in Known' |-> registry'[k].paused]
      /\ blobs' \subseteq Torrents \ Magnets
  BY Started DEF SessionsInv
<1>4. /\ Known' \subseteq Torrents
      /\ \A k \in Known' :
           /\ registry'[k] \in [session : Ids', paused : BOOLEAN, ended : BOOLEAN, paths : BOOLEAN]
           /\ sessions'[registry'[k].session].torrent = k
  <2>1. \A k \in Known : registry[k].session \in Ids
    BY DEF SessionsInv, TypeOK
  <2>2. /\ registry'[h] \in [session : Ids', paused : BOOLEAN, ended : BOOLEAN, paths : BOOLEAN]
        /\ sessions'[registry'[h].session].torrent = h
    BY <1>1, <1>2
  <2>3. ASSUME NEW k \in Known
        PROVE  /\ registry'[k] \in [session : Ids', paused : BOOLEAN, ended : BOOLEAN, paths : BOOLEAN]
               /\ sessions'[registry'[k].session].torrent = k
    BY <1>1, <1>2, <2>1 DEF SessionsInv, TypeOK
  <2> QED
    BY <1>2, <2>2, <2>3 DEF SessionsInv, TypeOK
<1>5. /\ DOMAIN saved' \subseteq Torrents
      /\ \A k \in DOMAIN saved' : saved'[k] \in BOOLEAN
  BY <1>3, <1>4
<1>6. \A k \in DOMAIN pending' : pending'[k] \in Ids' /\ sessions'[pending'[k]].torrent = k
  BY <1>1 DEF SessionsInv, TypeOK
<1>7. TypeOK'
  <2>1. DOMAIN job' = {}
    BY DEF SessionsInv, TypeOK
  <2> QED
    BY <1>1, <1>3, <1>4, <1>5, <1>6, <2>1 DEF SessionsInv, TypeOK
<1>8. NoOrphan'
  <2> SUFFICES ASSUME NEW s \in Ids', sessions'[s].state = "running"
               PROVE  \/ \E k \in Known' : registry'[k].session = s
                      \/ sessions'[s].commands = <<"Shutdown">>
    BY DEF NoOrphan
  <2>1. CASE s = new
    BY <1>2, <2>1
  <2>2. CASE s \in Ids
    BY <1>1, <1>2, <2>2 DEF SessionsInv, NoOrphan
  <2> QED
    BY <1>1, <2>1, <2>2
<1>9. Obeys'
  <2> SUFFICES ASSUME NEW k \in Known'
               PROVE  Heeds(sessions'[registry'[k].session], registry'[k].paused)
    BY DEF Obeys
  <2>1. CASE k = h
    <3>1. sessions'[new].paused = FALSE
      <4>1. sessions'[new] \in SessionRecords
        BY <1>1, ElementOfSeq DEF Ids
      <4> QED
        BY <1>1, <4>1 DEF SessionRecords
    <3>2. registry'[k].session = new /\ registry'[k].paused = paused
      BY <1>2, <2>1
    <3>3. CASE paused = TRUE
      BY <1>1, <3>2, <3>3, CommandsDiffer DEF Heeds
    <3>4. CASE paused = FALSE
      BY <1>1, <3>1, <3>2, <3>4, CommandsDiffer DEF Heeds
    <3> QED
      BY <3>3, <3>4
  <2>2. CASE k \in Known
    BY <1>1, <1>2, <2>2 DEF SessionsInv, Obeys, TypeOK
  <2> QED
    BY <1>2, <2>1, <2>2
<1> QED
  BY <1>7, <1>8, <1>9 DEF SessionsInv

(***************************************************************************)
(* Handlers that send a command: what they have in common.                 *)
(***************************************************************************)

LEMMA OrdersKeepTypes ==
  ASSUME TypeOK, NEW s \in Ids, NEW c, Orders(s, c)
  PROVE  /\ sessions' \in Seq(SessionRecords) /\ Len(sessions') <= MaxSessions /\ Ids' = Ids
         /\ \A t \in Ids : /\ sessions'[t].torrent = sessions[t].torrent
                           /\ sessions'[t] \in SessionRecords
<1>1. sessions' \in Seq(SessionRecords) /\ Len(sessions') = Len(sessions)
  BY DEF Orders, SessionsTyped
<1>2. \A t \in Ids : sessions'[t].torrent = sessions[t].torrent
  BY DEF Orders, Own
<1> QED
  BY <1>1, <1>2, ElementOfSeq DEF TypeOK, Ids

\* Torrents whose sessions were told nothing go on to heed their flags.
LEMMA OrdersKeepOthers ==
  ASSUME SessionsInv, NEW s \in Ids, NEW c, Orders(s, c),
         NEW k \in Known, k # sessions[s].torrent
  PROVE  Heeds(sessions'[registry[k].session], registry[k].paused)
<1>1. registry[k].session \in Ids \ {s} /\ registry[k].paused \in BOOLEAN
  BY DEF SessionsInv, TypeOK
<1>2. /\ sessions[registry[k].session] \in SessionRecords
      /\ sessions'[registry[k].session] \in SessionRecords
  BY <1>1, SessionFacts, OrdersKeepTypes DEF SessionsInv
<1> QED
  BY <1>1, <1>2, OwnHeeds DEF SessionsInv, Obeys, Orders

\* A session that was told nothing and runs on was registered or told to stop,
\* and still is.
LEMMA OrdersKeepFarewells ==
  ASSUME SessionsInv, NEW s \in Ids, NEW c, Orders(s, c), NEW t \in Ids \ {s},
         sessions'[t].state = "running", \A h \in DOMAIN job : job[h].session = s
  PROVE  \/ \E k \in Known : registry[k].session = t
         \/ sessions'[t].commands = <<"Shutdown">>
<1>1. Own(sessions[t], sessions'[t])
  BY DEF Orders
<1>2. sessions[t].state = "running"
  BY <1>1 DEF Own
<1>3. CASE sessions[t].commands = <<"Shutdown">>
  BY <1>1, <1>3, CommandsDiffer DEF Own
<1> QED
  BY <1>2, <1>3 DEF SessionsInv, NoOrphan

LEMMA PausedKeepsSessions ==
  ASSUME SessionsInv, NEW h \in Torrents, NEW paused \in BOOLEAN, SetPaused(h, paused)
  PROVE  SessionsInv'
<1> DEFINE s == registry[h].session
           c == IF paused THEN "Pause" ELSE "Resume"
<1>1. /\ h \in Known /\ s \in Ids /\ TypeOK
      /\ sessions[s].torrent = h /\ DOMAIN job = {} /\ job' = job
  BY DEF SetPaused, SessionsInv, TypeOK
<1>2. Orders(s, c)
  BY <1>1, SentOrders DEF SetPaused
<1>3. /\ Known' = Known /\ registry'[h] = [registry[h] EXCEPT !.paused = paused]
      /\ \A k \in Known \ {h} : registry'[k] = registry[k]
  BY <1>1 DEF SetPaused, Known
<1>4. /\ registry'[h].session = s /\ registry'[h].paused = paused
      /\ registry'[h] \in [session : Ids, paused : BOOLEAN, ended : BOOLEAN, paths : BOOLEAN]
  BY <1>1, <1>3 DEF TypeOK
<1>5. TypeOK'
  <2>1. \A k \in Known' :
          /\ registry'[k] \in [session : Ids', paused : BOOLEAN, ended : BOOLEAN, paths : BOOLEAN]
          /\ sessions'[registry'[k].session].torrent = k
    BY <1>1, <1>2, <1>3, <1>4, OrdersKeepTypes DEF TypeOK
  <2>2. \A k \in DOMAIN pending' : pending'[k] \in Ids' /\ sessions'[pending'[k]].torrent = k
    BY <1>1, <1>2, OrdersKeepTypes DEF TypeOK, SetPaused
  <2>3. DOMAIN saved' \subseteq Torrents /\ \A k \in DOMAIN saved' : saved'[k] \in BOOLEAN
    BY <1>1, <1>3, <2>1 DEF SetPaused, Persist, Known, TypeOK
  <2>4. /\ DOMAIN promised' \subseteq Torrents
        /\ \A k \in DOMAIN promised' : promised'[k] \in BOOLEAN
    BY <1>1 DEF SetPaused, TypeOK
  <2> QED
    BY <1>1, <1>2, <1>3, <2>1, <2>2, <2>3, <2>4, OrdersKeepTypes DEF TypeOK, SetPaused
<1>6. NoOrphan'
  <2> SUFFICES ASSUME NEW t \in Ids, sessions'[t].state = "running"
               PROVE  \/ \E k \in Known' : registry'[k].session = t
                      \/ sessions'[t].commands = <<"Shutdown">>
    BY <1>1, <1>2, OrdersKeepTypes DEF NoOrphan
  <2>1. CASE t = s
    BY <1>1, <1>3, <1>4, <2>1
  <2>2. CASE t # s
    BY <1>1, <1>2, <1>3, <1>4, <2>2, OrdersKeepFarewells
  <2> QED
    BY <2>1, <2>2
<1>7. Obeys'
  <2>1. Heeds(sessions'[s], paused)
    BY <1>1, <1>2, CommandsDiffer DEF Heeds, Orders
  <2> QED
    BY <1>1, <1>2, <1>3, <1>4, <2>1, OrdersKeepOthers DEF Obeys
<1> QED
  BY <1>5, <1>6, <1>7 DEF SessionsInv

LEMMA TellKeepsSessions ==
  ASSUME SessionsInv, NEW h \in Torrents, TellShutdown(h), h \in Known
  PROVE  SessionsInv'
<1> DEFINE s == registry[h].session
<1>1. /\ s \in Ids /\ TypeOK
      /\ sessions[s].torrent = h /\ DOMAIN job = {} /\ job' = job
  BY DEF SessionsInv, TypeOK, TellShutdown
<1>2. Orders(s, "Shutdown")
  BY <1>1, SentOrders DEF TellShutdown
<1>3. Known' = Known /\ registry' = registry
  BY DEF TellShutdown, Known
<1>4. TypeOK'
  <2>1. /\ DOMAIN todo' \subseteq Torrents
        /\ \A k \in DOMAIN todo' : todo'[k] \in BOOLEAN
    BY <1>1 DEF TellShutdown, Without, TypeOK
  <2> QED
    BY <1>1, <1>2, <1>3, <2>1, OrdersKeepTypes DEF TypeOK, TellShutdown
<1>5. NoOrphan'
  <2> SUFFICES ASSUME NEW t \in Ids, sessions'[t].state = "running"
               PROVE  \/ \E k \in Known : registry[k].session = t
                      \/ sessions'[t].commands = <<"Shutdown">>
    BY <1>1, <1>2, <1>3, OrdersKeepTypes DEF NoOrphan
  <2>1. CASE t = s
    BY <2>1
  <2>2. CASE t # s
    BY <1>1, <1>2, <2>2, OrdersKeepFarewells
  <2> QED
    BY <2>1, <2>2
<1>6. Obeys'
  <2>1. Heeds(sessions'[s], registry[h].paused)
    BY <1>1, <1>2, CommandsDiffer DEF Heeds, Orders
  <2> QED
    BY <1>1, <1>2, <1>3, <2>1, OrdersKeepOthers DEF Obeys
<1> QED
  BY <1>4, <1>5, <1>6 DEF SessionsInv

\* Answers to removals do not matter to what was ordered.
LEMMA AlikeOrders ==
  ASSUME TypeOK, NEW s \in Ids, NEW told, CanSend(s), told = Sent(s, "Shutdown"),
         \/ sessions' = told
         \/ Alike(told, sessions')
  PROVE  Orders(s, "Shutdown")
<1>1. /\ SessionsTyped(told)
      /\ \A t \in Ids \ {s} : told[t] = sessions[t]
      /\ told[s].torrent = sessions[s].torrent /\ told[s].state = sessions[s].state
      /\ told[s].paused = sessions[s].paused
      /\ Writing(s) => sessions[s].commands = <<>> /\ told[s].commands = <<"Shutdown">>
  BY SentFacts
<1>2. /\ SessionsTyped(sessions')
      /\ \A t \in Ids : /\ sessions'[t].torrent = told[t].torrent
                        /\ sessions'[t].state = told[t].state
                        /\ sessions'[t].commands = told[t].commands
                        /\ sessions'[t].paused = told[t].paused
  BY <1>1 DEF Alike
<1> QED
  BY <1>1, <1>2 DEF Orders, Own, Writing

\* remove takes the entry out: its session runs on, and the removal will tell it.
LEMMA RemoveKeepsSessions ==
  ASSUME SessionsInv, NEW h \in Torrents, NEW delete \in BOOLEAN, Remove(h, delete)
  PROVE  SessionsInv'
<1> DEFINE s == registry[h].session
           e == [session |-> s, ended |-> registry[h].ended, paths |-> registry[h].paths,
                 delete |-> delete]
<1>1. /\ TypeOK /\ h \in Known /\ s \in Ids /\ sessions[s].torrent = h
      /\ DOMAIN job = {} /\ actor' = "removing"
      /\ e \in [session : Ids, ended : BOOLEAN, paths : BOOLEAN, delete : BOOLEAN]
  BY DEF Remove, SessionsInv, TypeOK
<1>2. Known' = Known \ {h} /\ \A k \in Known' : registry'[k] = registry[k]
  BY DEF Remove, Without, Known
<1>3. DOMAIN job' = {h} /\ job'[h] = e
  BY <1>1 DEF Remove, With
<1>4. Alike(sessions, sessions')
  <2>1. SessionsTyped(sessions)
    BY <1>1, SessionFacts DEF SessionsTyped
  <2>2. CASE delete
    BY <1>1, <2>1, <2>2, AnswerAlike DEF Remove, Removals
  <2>3. CASE ~ delete
    BY <2>1, <2>3 DEF Remove, Alike
  <2> QED
    BY <2>2, <2>3
<1>5. /\ sessions' \in Seq(SessionRecords) /\ Len(sessions') <= MaxSessions /\ Ids' = Ids
      /\ \A t \in Ids : /\ sessions'[t].torrent = sessions[t].torrent
                        /\ sessions'[t].state = sessions[t].state
                        /\ sessions'[t].commands = sessions[t].commands
                        /\ sessions'[t].paused = sessions[t].paused
  BY <1>1, <1>4 DEF Alike, SessionsTyped, TypeOK, Ids
<1>6. TypeOK'
  <2>1. /\ DOMAIN promised' \subseteq Torrents
        /\ \A k \in DOMAIN promised' : promised'[k] \in BOOLEAN
    BY <1>1 DEF Remove, Without, TypeOK
  <2>2. /\ DOMAIN job' \subseteq Torrents \ Known'
        /\ \A k \in DOMAIN job' :
             /\ job'[k] \in [session : Ids', ended : BOOLEAN, paths : BOOLEAN, delete : BOOLEAN]
             /\ sessions'[job'[k].session].torrent = k
    BY <1>1, <1>2, <1>3, <1>5
  <2>3. \A k \in Known' :
          /\ registry'[k] \in [session : Ids', paused : BOOLEAN, ended : BOOLEAN, paths : BOOLEAN]
          /\ sessions'[registry'[k].session].torrent = k
    BY <1>1, <1>2, <1>5 DEF TypeOK
  <2>4. \A k \in DOMAIN pending' : pending'[k] \in Ids' /\ sessions'[pending'[k]].torrent = k
    BY <1>1, <1>5 DEF TypeOK, Remove
  <2> QED
    BY <1>1, <1>2, <1>3, <1>5, <2>1, <2>2, <2>3, <2>4 DEF TypeOK, Remove, Phases
<1>7. NoOrphan'
  BY <1>1, <1>2, <1>3, <1>5 DEF NoOrphan, SessionsInv
<1>8. Obeys'
  BY <1>1, <1>2, <1>5 DEF Obeys, Heeds, SessionsInv, TypeOK
<1> QED
  BY <1>6, <1>7, <1>8 DEF SessionsInv

LEMMA RemovalOrders ==
  ASSUME TypeOK, NEW h \in Torrents, RemoveTold(h)
  PROVE  /\ h \in DOMAIN job /\ job[h].session \in Ids
         /\ Orders(job[h].session, "Shutdown")
         /\ data' \subseteq Torrents
         /\ \/ pending' = pending
            \/ pending' = With(pending, h, job[h].session)
<1> DEFINE entry == job[h]
           s == job[h].session
           told == Sent(s, "Shutdown")
<1>1. /\ h \in DOMAIN job /\ s \in Ids /\ CanSend(s) /\ told = Farewell(s) /\ SessionsTyped(told)
      /\ data \subseteq Torrents
  BY SentFacts DEF RemoveTold, TypeOK, Farewell
<1>2. CASE /\ pending' = With(pending, h, s)
           /\ sessions' = Replaced(h, told)
           /\ UNCHANGED data
  <2>1. Alike(told, sessions')
    BY <1>1, <1>2, ReplacedAlike
  <2> QED
    BY <1>1, <1>2, <2>1, AlikeOrders
<1>3. CASE /\ data' = Remains(h, entry.paths)
           /\ sessions' = [told EXCEPT ![s].removal = DeleteResult(h, entry.paths)]
           /\ UNCHANGED pending
  <2>1. Alike(told, sessions')
    BY <1>1, <1>3, AnswerAlike DEF Removals, DeleteResult
  <2> QED
    BY <1>1, <1>3, <2>1, AlikeOrders DEF Remains
<1>4. CASE sessions' = told /\ UNCHANGED <<pending, data>>
  BY <1>1, <1>4, AlikeOrders
<1> QED
  BY <1>1, <1>2, <1>3, <1>4 DEF RemoveTold

LEMMA RemovalTellsSession ==
  ASSUME SessionsInv, NEW h \in Torrents, RemoveTold(h)
  PROVE  SessionsInv'
<1> DEFINE s == job[h].session
<1>1. /\ TypeOK /\ h \in DOMAIN job /\ s \in Ids
      /\ Orders(s, "Shutdown")
      /\ data' \subseteq Torrents
      /\ \/ pending' = pending
         \/ pending' = With(pending, h, s)
  BY RemovalOrders DEF SessionsInv
<1>2. /\ registry' = registry /\ Known' = Known /\ job' = job
      /\ h \notin Known /\ sessions[s].torrent = h
      /\ \A k \in DOMAIN job : job[k].session = s
  BY <1>1 DEF RemoveTold, Known, TypeOK
<1>3. TypeOK'
  <2>1. /\ DOMAIN pending' \subseteq Torrents
        /\ \A k \in DOMAIN pending' : pending'[k] \in Ids /\ sessions[pending'[k]].torrent = k
    BY <1>1, <1>2 DEF With, TypeOK
  <2>2. actor' \in Phases /\ (DOMAIN job' # {} <=> actor' \in {"removing", "saving"})
    BY <1>1, <1>2 DEF RemoveTold, Phases
  <2> QED
    BY <1>1, <1>2, <2>1, <2>2, OrdersKeepTypes DEF TypeOK, RemoveTold
<1>4. NoOrphan'
  <2> SUFFICES ASSUME NEW t \in Ids, sessions'[t].state = "running"
               PROVE  \/ \E k \in Known : registry[k].session = t
                      \/ sessions'[t].commands = <<"Shutdown">>
    BY <1>1, <1>2, OrdersKeepTypes DEF NoOrphan
  <2>1. CASE t = s
    BY <1>1, <2>1 DEF Orders
  <2>2. CASE t # s
    BY <1>1, <1>2, <2>2, OrdersKeepFarewells
  <2> QED
    BY <2>1, <2>2
<1>5. Obeys'
  BY <1>1, <1>2, OrdersKeepOthers DEF Obeys
<1> QED
  BY <1>3, <1>4, <1>5 DEF SessionsInv

LEMMA RemovalSaved ==
  ASSUME SessionsInv, NEW h \in Torrents, RemoveSaved(h)
  PROVE  SessionsInv'
<1>1. /\ TypeOK /\ actor = "saving" /\ actor' = "up" /\ DOMAIN job' = {}
      /\ Known' = Known /\ Ids' = Ids
      /\ UNCHANGED <<registry, pending, sessions, data, todo, clients, blobs, promised>>
  BY DEF RemoveSaved, SessionsInv, Known, Ids
<1>2. TypeOK'
  <2>1. DOMAIN saved' \subseteq Torrents /\ \A k \in DOMAIN saved' : saved'[k] \in BOOLEAN
    BY <1>1 DEF RemoveSaved, SavedAfterRemoval, Persist, Known, TypeOK
  <2>2. gone' \subseteq Torrents /\ actor' \in Phases
    BY <1>1 DEF RemoveSaved, TypeOK, Phases
  <2> QED
    BY <1>1, <2>1, <2>2 DEF TypeOK
<1> QED
  BY <1>1, <1>2 DEF SessionsInv, NoOrphan, Obeys

\* A session reports its end: an answer to a removal may be given with it.
LEMMA ReportMoves ==
  ASSUME TypeOK, NEW s \in Ids, SessionEnded(s)
  PROVE  Moves /\ data' \subseteq Torrents
<1> DEFINE h == sessions[s].torrent
           paths == sessions[s].metadata /\ ~ sessions[s].failed
           old == sessions[s]
           x == [old EXCEPT !.state = "reported", !.failed = FALSE]
           reported == [sessions EXCEPT ![s] = x]
<1>1. old \in SessionRecords /\ s \in DOMAIN sessions
  BY SessionFacts, LenProperties
<1>2. x \in SessionRecords /\ Own(old, x)
  BY <1>1 DEF SessionRecords, Own
<1>3. reported = [sessions EXCEPT ![s].state = "reported", ![s].failed = FALSE]
  BY <1>1
<1>4. SessionsTyped(reported) /\ \A t \in Ids : Own(sessions[t], reported[t])
  BY <1>2, SessionFacts, Update DEF SessionsTyped, Own
<1>5. CASE /\ h \in DOMAIN pending
           /\ data' = Remains(h, h \in Known /\ paths)
           /\ sessions' = [reported EXCEPT
                ![pending[h]].removal = DeleteResult(h, h \in Known /\ paths)]
  <2>1. pending[h] \in Ids
    BY <1>5 DEF TypeOK
  <2>2. Alike(reported, sessions')
    BY <1>4, <1>5, <2>1, AnswerAlike DEF Removals, DeleteResult
  <2>3. \A t \in Ids : Own(sessions[t], sessions'[t])
    BY <1>4, <2>2 DEF Alike, Own
  <2>4. data' \subseteq Torrents
    BY <1>5 DEF Remains, TypeOK
  <2> QED
    BY <2>2, <2>3, <2>4 DEF Alike, Moves
<1>6. CASE sessions' = reported /\ UNCHANGED data
  BY <1>4, <1>6 DEF Moves, TypeOK
<1> QED
  BY <1>3, <1>5, <1>6 DEF SessionEnded

\* The report leaves everybody registered with session and flag.
LEMMA EndKeepsEntries ==
  ASSUME TypeOK, NEW s \in Ids, SessionEnded(s)
  PROVE  /\ Known' = Known
         /\ \A k \in Known :
              /\ registry'[k] \in [session : Ids, paused : BOOLEAN, ended : BOOLEAN, paths : BOOLEAN]
              /\ registry'[k].session = registry[k].session
              /\ registry'[k].paused = registry[k].paused
<1> DEFINE h == sessions[s].torrent
           paths == sessions[s].metadata /\ ~ sessions[s].failed
<1>1. registry' = MarkEnded(h, paths) /\ paths \in BOOLEAN
  BY SessionFacts DEF SessionEnded, SessionRecords
<1>2. \A k \in Known :
        registry[k] \in [session : Ids, paused : BOOLEAN, ended : BOOLEAN, paths : BOOLEAN]
  BY DEF TypeOK
<1>3. CASE h \notin Known
  BY <1>1, <1>2, <1>3 DEF MarkEnded, Known
<1>4. CASE h \in Known
  <2> DEFINE e == [registry[h] EXCEPT !.ended = TRUE, !.paths = paths]
  <2>1. registry' = [registry EXCEPT ![h] = e]
    BY <1>1, <1>4 DEF MarkEnded, Known
  <2>2. /\ e \in [session : Ids, paused : BOOLEAN, ended : BOOLEAN, paths : BOOLEAN]
        /\ e.session = registry[h].session /\ e.paused = registry[h].paused
    BY <1>1, <1>2, <1>4
  <2> QED
    BY <1>2, <1>4, <2>1, <2>2 DEF Known
<1> QED
  BY <1>3, <1>4

LEMMA EndKeepsSessions ==
  ASSUME SessionsInv, NEW s \in Ids, SessionEnded(s)
  PROVE  SessionsInv'
<1> DEFINE h == sessions[s].torrent
           paths == sessions[s].metadata /\ ~ sessions[s].failed
<1>1. TypeOK /\ Moves /\ data' \subseteq Torrents
  BY ReportMoves DEF SessionsInv
<1>2. /\ Ids' = Ids /\ sessions' \in Seq(SessionRecords) /\ Len(sessions') <= MaxSessions
      /\ \A t \in Ids : /\ sessions'[t].torrent = sessions[t].torrent
                        /\ sessions'[t] \in SessionRecords /\ sessions[t] \in SessionRecords
                        /\ Own(sessions[t], sessions'[t])
  BY <1>1, ElementOfSeq, SessionFacts DEF Moves, SessionsTyped, Own, Ids, TypeOK
<1>4. /\ Known' = Known
      /\ \A k \in Known :
           /\ registry'[k] \in [session : Ids, paused : BOOLEAN, ended : BOOLEAN, paths : BOOLEAN]
           /\ registry'[k].session = registry[k].session
           /\ registry'[k].paused = registry[k].paused
  BY <1>1, EndKeepsEntries
<1>5. TypeOK'
  <2>1. /\ DOMAIN pending' \subseteq DOMAIN pending
        /\ \A k \in DOMAIN pending' : pending'[k] = pending[k]
    BY DEF SessionEnded, Without
  <2>2. DOMAIN job' = {} /\ job' = job /\ gone' = gone /\ actor' = actor
    BY <1>1 DEF SessionEnded, TypeOK
  <2>3. \A k \in Known' :
          /\ registry'[k] \in [session : Ids', paused : BOOLEAN, ended : BOOLEAN, paths : BOOLEAN]
          /\ sessions'[registry'[k].session].torrent = k
    BY <1>1, <1>2, <1>4 DEF TypeOK
  <2>4. \A k \in DOMAIN pending' : pending'[k] \in Ids' /\ sessions'[pending'[k]].torrent = k
    BY <1>1, <1>2, <2>1 DEF TypeOK
  <2> QED
    BY <1>1, <1>2, <1>4, <2>1, <2>2, <2>3, <2>4 DEF TypeOK, SessionEnded
<1>6. NoOrphan'
  <2> SUFFICES ASSUME NEW t \in Ids, sessions'[t].state = "running"
               PROVE  \/ \E k \in Known : registry[k].session = t
                      \/ sessions'[t].commands = <<"Shutdown">>
    BY <1>2, <1>4 DEF NoOrphan
  <2>0. DOMAIN job = {}
    BY <1>1 DEF SessionEnded, TypeOK
  <2>1. Own(sessions[t], sessions'[t])
    BY <1>2
  <2>2. CASE sessions[t].commands = <<"Shutdown">>
    BY <2>1, <2>2, CommandsDiffer DEF Own
  <2> QED
    BY <2>0, <2>1, <2>2 DEF SessionsInv, NoOrphan, Own
<1>7. Obeys'
  <2> SUFFICES ASSUME NEW k \in Known
               PROVE  Heeds(sessions'[registry[k].session], registry[k].paused)
    BY <1>4 DEF Obeys
  <2>1. registry[k].session \in Ids /\ registry[k].paused \in BOOLEAN
    BY <1>1 DEF TypeOK
  <2> QED
    BY <1>2, <2>1, OwnHeeds DEF SessionsInv, Obeys
<1> QED
  BY <1>5, <1>6, <1>7 DEF SessionsInv

LEMMA EndsKeepSessions ==
  ASSUME SessionsInv, ProcessEnds, DOMAIN promised' \subseteq Torrents,
         \A k \in DOMAIN promised' : promised'[k] \in BOOLEAN
  PROVE  SessionsInv'
<1>1. /\ Known' = {} /\ DOMAIN pending' = {} /\ DOMAIN todo' = {} /\ Ids' = {}
      /\ DOMAIN job' = {}
  BY DEF ProcessEnds, Known, Ids
<1>2. TypeOK'
  <2>1. sessions' \in Seq(SessionRecords) /\ Len(sessions') <= MaxSessions
    BY DaemonAssumption, EmptySeq DEF ProcessEnds
  <2>2. actor' \in Phases
    BY DEF ProcessEnds, Phases
  <2> QED
    BY <1>1, <2>1, <2>2 DEF TypeOK, SessionsInv, ProcessEnds
<1> QED
  BY <1>1, <1>2 DEF SessionsInv, NoOrphan, Obeys

LEMMA StepSessions == DaemonInv /\ [Next]_vars => SessionsInv'
<1> SUFFICES ASSUME DaemonInv, [Next]_vars PROVE SessionsInv'
  OBVIOUS
<1>0. SessionsInv /\ TypeOK /\ Phased
  BY DEF DaemonInv, SessionsInv, ListInv
<1>a. ASSUME NEW h \in Torrents, Add(h) PROVE SessionsInv'
  <2>1. /\ DOMAIN promised' \subseteq Torrents
        /\ \A k \in DOMAIN promised' : promised'[k] \in BOOLEAN
    BY <1>0, <1>a DEF Add, With, TypeOK
  <2>2. h \notin Known /\ StartSession(h, FALSE)
    BY <1>a DEF Add
  <2> QED
    BY <1>0, <1>a, <2>1, <2>2, StartKeepsSessions DEF Add, TypeOK
<1>b. ASSUME NEW h \in Torrents, NEW paused \in BOOLEAN, SetPaused(h, paused)
      PROVE  SessionsInv'
  BY <1>0, <1>b, PausedKeepsSessions
<1>c. ASSUME NEW h \in Torrents, NEW delete \in BOOLEAN, Remove(h, delete)
      PROVE  SessionsInv'
  BY <1>0, <1>c, RemoveKeepsSessions
<1>s. ASSUME NEW h \in Torrents, RemoveTold(h) \/ RemoveSaved(h) PROVE SessionsInv'
  BY <1>0, <1>s, RemovalTellsSession, RemovalSaved
<1>d. CASE DropHandles
  BY <1>0, <1>d DEF DropHandles, SessionsInv, TypeOK, NoOrphan, Obeys, Known, Ids
<1>e. CASE BeginShutdown
  <2>1. DOMAIN todo' = Known /\ \A h \in Known : todo'[h] \in BOOLEAN
    BY <1>0, <1>e DEF BeginShutdown, Persist, Known, TypeOK
  <2>2. TypeOK'
    BY <1>0, <1>e, <2>1 DEF BeginShutdown, TypeOK, Phases, Known, Ids
  <2> QED
    BY <1>0, <1>e, <2>2 DEF BeginShutdown, SessionsInv, NoOrphan, Obeys, Known, Ids
<1>f. ASSUME NEW h \in Torrents, TellShutdown(h) PROVE SessionsInv'
  BY <1>0, <1>f, TellKeepsSessions DEF Phased, TellShutdown
<1>g. CASE Told
  BY <1>0, <1>g DEF Told, SessionsInv, TypeOK, NoOrphan, Obeys, Known, Ids, Phases
<1>h. CASE FinishShutdown
  BY <1>0, <1>h, EndsKeepSessions DEF FinishShutdown, TypeOK
<1>i. CASE Crash
  <2>1. /\ DOMAIN promised' \subseteq Torrents
        /\ \A k \in DOMAIN promised' : promised'[k] \in BOOLEAN
    BY <1>0, <1>i DEF Crash, TypeOK
  <2> QED
    BY <1>0, <1>i, <2>1, EndsKeepSessions DEF Crash
<1>j. CASE Start
  BY <1>0, <1>j DEF Start, SessionsInv, TypeOK, NoOrphan, Obeys, Known, Ids, Phases
<1>k. ASSUME NEW h \in Torrents, Restore(h) PROVE SessionsInv'
  <2>1. /\ h \notin Known /\ todo[h] \in BOOLEAN /\ StartSession(h, todo[h])
    BY <1>0, <1>k DEF Restore, Phased, TypeOK
  <2>2. /\ DOMAIN todo' \subseteq Torrents /\ \A k \in DOMAIN todo' : todo'[k] \in BOOLEAN
        /\ DOMAIN promised' \subseteq Torrents
        /\ \A k \in DOMAIN promised' : promised'[k] \in BOOLEAN
    BY <1>0, <1>k DEF Restore, Without, TypeOK
  <2> QED
    BY <1>0, <1>k, <2>1, <2>2, StartKeepsSessions DEF Restore, TypeOK
<1>l. ASSUME NEW h \in Torrents, RestoreSkips(h) \/ RestoreFails(h) PROVE SessionsInv'
  <2>1. /\ DOMAIN todo' \subseteq Torrents /\ \A k \in DOMAIN todo' : todo'[k] \in BOOLEAN
        /\ DOMAIN promised' \subseteq Torrents
        /\ \A k \in DOMAIN promised' : promised'[k] \in BOOLEAN
        /\ UNCHANGED <<registry, pending, sessions, saved, data, actor, clients, blobs, job, gone>>
    BY <1>0, <1>l DEF RestoreSkips, RestoreFails, Without, TypeOK
  <2> QED
    BY <1>0, <2>1 DEF SessionsInv, TypeOK, NoOrphan, Obeys, Known, Ids
<1>m. CASE RestoreDone
  <2>1. /\ DOMAIN saved' \subseteq Torrents /\ \A k \in DOMAIN saved' : saved'[k] \in BOOLEAN
        /\ actor = "restoring" /\ actor' = "up"
        /\ UNCHANGED <<registry, pending, sessions, data, todo, clients, blobs, job, promised, gone>>
    BY <1>0, <1>m DEF RestoreDone, Persist, TypeOK, Known
  <2> QED
    BY <1>0, <2>1 DEF SessionsInv, TypeOK, NoOrphan, Obeys, Known, Ids, Phases
<1>n. ASSUME NEW s \in Ids, SessionEnded(s) PROVE SessionsInv'
  BY <1>0, <1>n, EndKeepsSessions
<1>o. ASSUME Moves, RestUnchanged, data' \subseteq Torrents PROVE SessionsInv'
  BY <1>o, MovesKeep DEF DaemonInv
<1>p. ASSUME NEW s \in Ids, SessionEndedRejected(s) PROVE SessionsInv'
  <2>1. Moves
    BY <1>0, <1>p, ReportedMoves DEF SessionEndedRejected
  <2> QED
    BY <1>0, <1>o, <1>p, <2>1 DEF SessionEndedRejected, RestUnchanged, TypeOK
<1>q. ASSUME NEW s \in Ids,
             ReadCommand(s) \/ MetadataDone(s) \/ WriteFiles(s) \/ Fails(s) \/ TornDown(s)
      PROVE  SessionsInv'
  <2>1. Moves
    <3>1. ASSUME WriteFiles(s) PROVE Moves
      BY <3>1, <1>0, SessionFacts DEF WriteFiles, Moves, SessionsTyped, Own
    <3> QED
      BY <1>0, <1>q, <3>1, ReadMoves, MetadataMoves, FailsMoves, TornDownMoves
  <2>2. RestUnchanged
    BY <1>q DEF ReadCommand, MetadataDone, WriteFiles, Fails, TornDown
  <2>3. data' \subseteq Torrents
    <3>1. sessions[s].torrent \in Torrents
      BY <1>0, SessionFacts DEF SessionRecords
    <3> QED
      BY <1>0, <1>q, <3>1 DEF ReadCommand, MetadataDone, WriteFiles, Fails, TornDown, TypeOK
  <2> QED
    BY <1>o, <2>1, <2>2, <2>3
<1>r. CASE UNCHANGED vars
  BY <1>0, <1>r DEF vars, SessionsInv, TypeOK, NoOrphan, Obeys, Known, Ids
<1> QED
  BY <1>a, <1>b, <1>c, <1>d, <1>e, <1>f, <1>g, <1>h, <1>i, <1>j, <1>k, <1>l, <1>m,
     <1>n, <1>p, <1>q, <1>r, <1>s DEF Next, ClientStep, ProcessStep, SessionStep

(***************************************************************************)
(* The lists: registry, state file, and what is promised.                  *)
(***************************************************************************)

\* Steps that leave every list alone.
LEMMA SameLists ==
  ASSUME ListInv, UNCHANGED <<saved, actor, todo, blobs, job, promised, gone>>, Known' = Known,
         \A h \in Known : registry'[h].paused = registry[h].paused
  PROVE  ListInv'
<1>1. SavedFits' /\ GoneStays'
  BY DEF ListInv, SavedFits, GoneStays
<1>2. Phased' /\ Kept'
  BY DEF ListInv, Phased, Kept, Running
<1> QED
  BY <1>1, <1>2 DEF ListInv

LEMMA StepLists == DaemonInv /\ [Next]_vars => ListInv'
<1> SUFFICES ASSUME DaemonInv, [Next]_vars PROVE ListInv'
  OBVIOUS
<1>0. TypeOK /\ SavedFits /\ GoneStays /\ Phased /\ Kept /\ ListInv
  BY DEF DaemonInv, SessionsInv, ListInv
<1>a. ASSUME NEW h \in Torrents, Add(h) PROVE ListInv'
  <2>1. /\ h \notin Known /\ actor = "up" /\ actor' = "up"
        /\ StartSession(h, FALSE)
    BY <1>a DEF Add
  <2>2. /\ Known' = Known \cup {h}
        /\ \A k \in Known : registry'[k] = registry[k]
        /\ registry'[h].paused = FALSE
        /\ saved' = [k \in Known' |-> registry'[k].paused]
        /\ blobs \ {h} \subseteq blobs'
    <3>1. /\ Known' = Known \cup {h}
          /\ \A k \in Known : registry'[k] = registry[k]
          /\ registry'[h] = [session |-> Len(sessions) + 1, paused |-> FALSE,
                             ended |-> FALSE, paths |-> FALSE]
      BY <1>0, <2>1, Started
    <3>2. /\ saved' = [k \in Known' |-> registry'[k].paused]
          /\ blobs \ {h} \subseteq blobs'
      BY <1>0, <2>1, Started
    <3> QED
      BY <3>1, <3>2
  <2>3. h \notin DOMAIN promised
    BY <1>0, <2>1 DEF Kept, Running
  <2>4. /\ DOMAIN promised' \subseteq DOMAIN promised \cup {h}
        /\ \A k \in DOMAIN promised : promised'[k] = promised[k]
        /\ h \in DOMAIN promised' => promised'[h] = FALSE /\ h \in Magnets \cup blobs'
    BY <1>a, <2>3 DEF Add, With
  <2>5. SavedFits' /\ GoneStays'
    BY <1>0, <1>a, <2>1, <2>2 DEF SavedFits, GoneStays, Add
  <2>6. Kept'
    BY <1>0, <2>1, <2>2, <2>3, <2>4 DEF Kept, Running
  <2> QED
    BY <2>1, <2>5, <2>6 DEF ListInv, Phased
<1>b. ASSUME NEW h \in Torrents, NEW paused \in BOOLEAN, SetPaused(h, paused)
      PROVE  ListInv'
  <2>1. /\ h \in Known /\ actor = "up" /\ actor' = "up" /\ Known' = Known
        /\ \A k \in Known \ {h} : registry'[k] = registry[k]
        /\ registry'[h] = [registry[h] EXCEPT !.paused = paused]
        /\ saved' = [k \in Known' |-> registry'[k].paused]
        /\ blobs' = blobs
        /\ promised' = IF h \in DOMAIN promised THEN [promised EXCEPT ![h] = paused] ELSE promised
    BY <1>b DEF SetPaused, Known, Persist
  <2>2. registry'[h].paused = paused
    BY <1>0, <2>1 DEF TypeOK
  <2>3. Kept'
    BY <1>0, <2>1, <2>2 DEF Kept, Running
  <2>4. SavedFits' /\ GoneStays'
    BY <1>0, <1>b, <2>1 DEF SavedFits, GoneStays, SetPaused
  <2> QED
    BY <1>0, <2>1, <2>3, <2>4 DEF ListInv, Phased
<1>c. ASSUME NEW h \in Torrents, NEW delete \in BOOLEAN, Remove(h, delete)
      PROVE  ListInv'
  <2>1. /\ actor = "up" /\ actor' = "removing" /\ h \in Known /\ Known' = Known \ {h}
        /\ \A k \in Known' : registry'[k] = registry[k]
        /\ DOMAIN job' = DOMAIN job \cup {h}
        /\ UNCHANGED <<saved, blobs, gone>> /\ DOMAIN promised' = DOMAIN promised \ {h}
        /\ \A k \in DOMAIN promised' : promised'[k] = promised[k]
    BY <1>c DEF Remove, Known, With, Without
  <2>2. Kept'
    BY <1>0, <2>1 DEF Kept, Running
  <2>3. SavedFits' /\ GoneStays'
    BY <1>0, <2>1 DEF SavedFits, GoneStays
  <2> QED
    BY <2>1, <2>2, <2>3 DEF ListInv, Phased
<1>s. ASSUME NEW h \in Torrents, RemoveTold(h) PROVE ListInv'
  <2>1. /\ actor = "removing" /\ actor' = "saving"
        /\ UNCHANGED <<registry, saved, blobs, job, promised, gone>>
    BY <1>s DEF RemoveTold
  <2> QED
    BY <1>0, <2>1 DEF ListInv, SavedFits, GoneStays, Phased, Kept, Running, Known
<1>t. ASSUME NEW h \in Torrents, RemoveSaved(h) PROVE ListInv'
  <2>1. /\ actor = "saving" /\ actor' = "up" /\ Known' = Known
        /\ h \notin Known /\ DOMAIN job' = {} /\ gone' = gone \cup {h}
        /\ saved' = [k \in Known |-> registry[k].paused]
        /\ UNCHANGED <<registry, blobs, promised>>
    BY <1>0, <1>t DEF RemoveSaved, SavedAfterRemoval, Persist, Known, TypeOK
  <2> QED
    BY <1>0, <2>1 DEF ListInv, SavedFits, GoneStays, Phased, Kept, Running
<1>d. CASE DropHandles
  BY <1>0, <1>d, SameLists DEF DropHandles, Known
<1>e. CASE BeginShutdown
  <2>1. /\ actor = "up" /\ actor' = "telling" /\ DOMAIN todo' = Known
        /\ UNCHANGED <<registry, saved, blobs, job, promised, gone>>
    BY <1>e DEF BeginShutdown, Persist, Known
  <2> QED
    BY <1>0, <2>1 DEF ListInv, SavedFits, GoneStays, Phased, Kept, Running, Known
<1>f. ASSUME NEW h \in Torrents, TellShutdown(h) PROVE ListInv'
  <2>1. /\ actor = "telling" /\ actor' = "telling" /\ DOMAIN todo' \subseteq DOMAIN todo
        /\ UNCHANGED <<registry, saved, blobs, job, promised, gone>>
    BY <1>f DEF TellShutdown, Without
  <2> QED
    BY <1>0, <2>1 DEF ListInv, SavedFits, GoneStays, Phased, Kept, Running, Known
<1>g. CASE Told
  BY <1>0, <1>g DEF Told, ListInv, SavedFits, GoneStays, Phased, Kept, Running, Known
<1>h. CASE FinishShutdown
  <2>1. /\ actor \in {"telling", "stopping"} /\ actor' = "down" /\ Known' = {}
        /\ DOMAIN job' = {} /\ UNCHANGED <<saved, blobs, promised, gone>>
    BY <1>h DEF FinishShutdown, ProcessEnds, Known
  <2>2. Kept'
    BY <1>0, <2>1 DEF SavedFits, GoneStays, Kept, Running
  <2> QED
    BY <1>0, <2>1, <2>2 DEF ListInv, SavedFits, GoneStays, Phased
<1>i. CASE Crash
  <2>1. /\ actor \in Running \cup {"restoring"} /\ actor' = "down"
        /\ Known' = {} /\ DOMAIN job' = {} /\ UNCHANGED <<saved, blobs, gone>>
    BY <1>0, <1>i DEF Crash, ProcessEnds, Known, TypeOK, Phases, Running
  <2>2. CASE actor = "restoring"
    <3>1. promised' = [h \in DOMAIN promised \cap DOMAIN saved |-> promised[h]]
      BY <1>i, <2>2 DEF Crash
    <3>2. Kept'
      BY <1>0, <2>1, <2>2, <3>1 DEF Kept, Running
    <3> QED
      BY <1>0, <2>1, <3>2 DEF ListInv, SavedFits, GoneStays, Phased
  <2>3. CASE actor \in Running
    <3>1. promised' = promised
      BY <1>i, <2>3 DEF Crash, Running
    <3>2. Kept'
      BY <1>0, <2>1, <2>3, <3>1 DEF SavedFits, Kept, Running
    <3> QED
      BY <1>0, <2>1, <3>2 DEF ListInv, SavedFits, GoneStays, Phased
  <2> QED
    BY <2>1, <2>2, <2>3
<1>j. CASE Start
  <2>1. /\ actor = "down" /\ actor' = "restoring" /\ todo' = saved /\ Known' = {}
        /\ UNCHANGED <<saved, blobs, job, promised, gone>>
    BY <1>0, <1>j DEF Start, Known, Phased
  <2> QED
    BY <1>0, <2>1 DEF ListInv, SavedFits, GoneStays, Phased, Kept, Running
<1>k. ASSUME NEW h \in Torrents, Restore(h) PROVE ListInv'
  <2>1. /\ h \notin Known /\ h \in DOMAIN todo /\ todo[h] \in BOOLEAN
        /\ actor = "restoring" /\ actor' = "restoring"
        /\ StartSession(h, todo[h])
    BY <1>0, <1>k DEF Restore, Phased, TypeOK
  <2>2. /\ Known' = Known \cup {h}
        /\ \A k \in Known : registry'[k] = registry[k]
        /\ registry'[h].paused = todo[h]
        /\ saved' = [k \in Known' |-> registry'[k].paused]
        /\ blobs \ {h} \subseteq blobs'
    <3>1. /\ Known' = Known \cup {h}
          /\ \A k \in Known : registry'[k] = registry[k]
          /\ registry'[h] = [session |-> Len(sessions) + 1, paused |-> todo[h],
                             ended |-> FALSE, paths |-> FALSE]
      BY <1>0, <2>1, Started
    <3>2. /\ saved' = [k \in Known' |-> registry'[k].paused]
          /\ blobs \ {h} \subseteq blobs'
      BY <1>0, <2>1, Started
    <3> QED
      BY <3>1, <3>2
  <2>3. /\ DOMAIN promised' \subseteq DOMAIN promised
        /\ \A k \in DOMAIN promised' : promised'[k] = promised[k]
        /\ h \in DOMAIN promised' => h \in Magnets \cup blobs'
        /\ DOMAIN todo' = DOMAIN todo \ {h}
        /\ \A k \in DOMAIN todo' : todo'[k] = todo[k]
    BY <1>k DEF Restore, Without
  <2>4. \A k \in DOMAIN promised' :
          \/ k \in Known' /\ registry'[k].paused = promised'[k]
          \/ k \in DOMAIN todo' /\ todo'[k] = promised'[k]
    BY <1>0, <2>1, <2>2, <2>3 DEF Kept, Running
  <2>5. \A k \in DOMAIN promised' : k \in Known' => registry'[k].paused = promised'[k]
    BY <1>0, <2>1, <2>2, <2>3, <2>4 DEF Phased
  <2>6. Kept'
    BY <1>0, <2>1, <2>2, <2>3, <2>4, <2>5 DEF Kept, Running
  <2>7. Phased'
    BY <1>0, <2>1, <2>2, <2>3 DEF Phased
  <2> QED
    BY <1>0, <1>k, <2>1, <2>2, <2>3, <2>6, <2>7 DEF ListInv, SavedFits, GoneStays, Restore
<1>l. ASSUME NEW h \in Torrents, RestoreSkips(h) \/ RestoreFails(h) PROVE ListInv'
  <2>1. /\ actor = "restoring" /\ UNCHANGED <<registry, saved, actor, blobs, job, gone>>
        /\ DOMAIN todo' = DOMAIN todo \ {h} /\ \A k \in DOMAIN todo' : todo'[k] = todo[k]
    BY <1>l DEF RestoreSkips, RestoreFails, Without
  <2>2. /\ DOMAIN promised' \subseteq DOMAIN promised \ {h}
        /\ \A k \in DOMAIN promised' : promised'[k] = promised[k]
    <3>1. CASE RestoreSkips(h)
      BY <1>0, <3>1 DEF RestoreSkips, HasSource, Kept, Running
    <3>2. CASE RestoreFails(h)
      BY <3>2 DEF RestoreFails, Without
    <3> QED
      BY <1>l, <3>1, <3>2
  <2>3. Kept'
    BY <1>0, <2>1, <2>2 DEF Kept, Running, Known
  <2> QED
    BY <1>0, <2>1, <2>3 DEF ListInv, SavedFits, GoneStays, Phased, Known
<1>m. CASE RestoreDone
  <2>1. /\ actor = "restoring" /\ actor' = "up" /\ DOMAIN todo = {}
        /\ saved' = [k \in Known |-> registry[k].paused]
        /\ UNCHANGED <<registry, todo, blobs, job, promised, gone>>
    BY <1>m DEF RestoreDone, Persist, Known
  <2> QED
    BY <1>0, <2>1 DEF ListInv, SavedFits, GoneStays, Phased, Kept, Running, Known
<1>n. ASSUME NEW s \in Ids, SessionEnded(s) PROVE ListInv'
  BY <1>0, <1>n, EndKeepsEntries, SameLists DEF SessionEnded
<1>o. ASSUME UNCHANGED <<registry, saved, actor, todo, blobs, job, promised, gone>> PROVE ListInv'
  BY <1>0, <1>o, SameLists DEF Known
<1>p. ASSUME NEW s \in Ids,
             \/ SessionEndedRejected(s) \/ ReadCommand(s) \/ MetadataDone(s)
             \/ WriteFiles(s) \/ Fails(s) \/ TornDown(s)
      PROVE  ListInv'
  BY <1>o, <1>p DEF SessionEndedRejected, ReadCommand, MetadataDone, WriteFiles, Fails,
     TornDown, RestUnchanged
<1>q. CASE UNCHANGED vars
  BY <1>o, <1>q DEF vars
<1> QED
  BY <1>a, <1>b, <1>c, <1>d, <1>e, <1>f, <1>g, <1>h, <1>i, <1>j, <1>k, <1>l, <1>m,
     <1>n, <1>p, <1>q, <1>s, <1>t DEF Next, ClientStep, ProcessStep, SessionStep

\* Registry, sessions, state file, what is being restored and what is promised fit
\* together in every state: the inductive invariant of what follows.
THEOREM DaemonInvariant == Spec => []DaemonInv
<1>1. DaemonInv /\ [Next]_vars => DaemonInv'
  BY StepSessions, StepLists DEF DaemonInv
<1> QED
  BY <1>1, InitDaemon, PTL DEF Spec

\* Entries and waiting removals are of sessions of their own torrent, for every
\* set of torrents and any number of sessions, crashes and restarts.
THEOREM DaemonTyped == Spec => []TypeOK
<1>1. DaemonInv => TypeOK
  BY DEF DaemonInv, SessionsInv
<1> QED
  BY <1>1, DaemonInvariant, PTL

\* remove saves the list only after it answered, and every add and restore saves the
\* registry anew: once a removal was saved nothing brings the torrent back, over any
\* number of crashes and restarts, until it is added again.
THEOREM RemovalsStick == Spec => []RemovalSticks
<1>1. DaemonInv => RemovalSticks
  BY DEF DaemonInv, ListInv, GoneStays, RemovalSticks
<1> QED
  BY <1>1, DaemonInvariant, PTL

\* A session that runs is registered, or the order to shut down is in its channel, or
\* its removal still waits for room there: none is left that nobody can stop.
THEOREM NobodyOrphaned == Spec => []NoOrphan
<1>1. DaemonInv => NoOrphan
  BY DEF DaemonInv, SessionsInv
<1> QED
  BY <1>1, DaemonInvariant, PTL

\* Pauses and resumes pass through a channel of one command, restored flags
\* through the first one: a session whose channel is empty obeys the flag shown.
THEOREM PauseIsObeyed == Spec => []PauseObeyed
<1>1. DaemonInv => PauseObeyed
  BY DEF DaemonInv, SessionsInv, Obeys, Heeds, PauseObeyed
<1> QED
  BY <1>1, DaemonInvariant, PTL

\* After every start the torrents that were promised are registered with their
\* pause flags, wherever the process ended before.
THEOREM NothingLost == Spec => []RestartBringsBack
<1>1. DaemonInv => RestartBringsBack
  BY DEF DaemonInv, ListInv, Kept, Running, RestartBringsBack
<1> QED
  BY <1>1, DaemonInvariant, PTL
=============================================================================
