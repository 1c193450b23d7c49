------------------------------- MODULE Daemon -------------------------------
(***************************************************************************)
(* The daemon (crates/daemon/src/lib.rs): an actor that keeps the registry *)
(* of torrents, starts and stops their sessions, saves the list to a state *)
(* file and restores it at the next start.                                 *)
(*                                                                         *)
(* Calls of the client are taken when the actor gets to them.  What a      *)
(* handler does after its bounded send to the session went through is one  *)
(* step; a removal takes three, for it changes the registry before it      *)
(* sends and answers before it saves.  Ends of sessions reach the actor as *)
(* messages of independent tasks, in any order.  Of a session the module   *)
(* keeps what the daemon depends on: its command channel, whether it still *)
(* writes, and the file paths it returns.                                  *)
(***************************************************************************)
EXTENDS Integers, Sequences, FiniteSets

CONSTANTS
  Torrents,     \* info hashes, the handles of the registry
  Magnets,      \* those that are added by a magnet link
  MaxSessions   \* bound: sessions that one process starts

ASSUME DaemonAssumption ==
  /\ IsFiniteSet(Torrents)
  /\ Magnets \subseteq Torrents
  /\ MaxSessions \in Nat

VARIABLES
  registry,  \* DaemonState.registry: a function on the registered torrents
  pending,   \* pending_removals: the session whose removal waits, by torrent
  sessions,  \* sequence of the sessions that this process started
  saved,     \* state.json: the paused flag of every saved torrent
  data,      \* torrents that have files on disk
  actor,     \* what the process does, see Phases
  todo,      \* paused flags of the torrents not yet restored, or not yet told
  clients,   \* whether a DaemonHandle still exists
  blobs,     \* torrents/: the .torrent files that are stored whole
  job,       \* the removal the actor is at: the entry it took out, by torrent
  promised,  \* history: paused flag of every torrent the user may expect after a restart
  gone       \* history: torrents not added yet, or not since their removal was saved

vars == <<registry, pending, sessions, saved, data, actor, todo, clients, blobs, job, promised, gone>>

Phases == {"restoring", "up", "removing", "saving", "telling", "stopping", "down"}

Known == DOMAIN registry
Ids == 1 .. Len(sessions)
Writing(s) == sessions[s].state \in {"running", "stopping"}

Init ==
  /\ registry = <<>> /\ pending = <<>> /\ sessions = <<>> /\ saved = <<>>
  /\ data = {} /\ actor = "restoring" /\ todo = <<>> /\ clients = TRUE
  /\ blobs = {} /\ job = <<>> /\ promised = <<>> /\ gone = Torrents

-----------------------------------------------------------------------------
(***************************************************************************)
(* Helpers of the handlers.                                                *)
(***************************************************************************)

With(f, h, v) == [k \in DOMAIN f \cup {h} |-> IF k = h THEN v ELSE f[k]]

Without(f, h) == [k \in DOMAIN f \ {h} |-> f[k]]

\* Mutant: a channel without a bound.
CanSendAlways(s) == TRUE

\* The channel holds one command; sending to a session that returned fails at
\* once, which the daemon ignores.
CanSend(s) == Writing(s) => sessions[s].commands = <<>>

Sent(s, command) ==
  IF Writing(s) THEN [sessions EXCEPT ![s].commands = Append(@, command)] ELSE sessions

\* persist.
Persist(reg) == [h \in DOMAIN reg |-> reg[h].paused]

NewSession(h, commands) ==
  [torrent |-> h, state |-> "running", commands |-> commands, paused |-> FALSE,
   metadata |-> h \notin Magnets, failed |-> FALSE, removal |-> "none"]

\* Mutant: a restored torrent is not told to pause.
FirstCommandsNone(paused) == <<>>

FirstCommands(paused) == IF paused THEN <<"Pause">> ELSE <<>>

\* save_torrent_blob writes in place: a failure leaves an older blob of the same
\* torrent (they are never deleted) or ruins it.
BlobSaved(h) == {blobs \cup {h}, blobs, blobs \ {h}}

\* Mutant: a magnet is looked up in torrents/ too.
HasSourceAsFile(h) == h \in blobs

\* restore_persisted: a .torrent is read from its blob, a magnet needs none.
HasSource(h) == h \in Magnets \cup blobs

\* add_torrent_inner, past its checks.  A blob that could not be saved is only
\* logged.
StartSession(h, paused) ==
  /\ Len(sessions) < MaxSessions
  /\ sessions' = Append(sessions, NewSession(h, FirstCommands(paused)))
  /\ registry' = With(registry, h, [session |-> Len(sessions) + 1, paused |-> paused,
                                    ended |-> FALSE, paths |-> FALSE])
  /\ saved' = Persist(registry')
  /\ blobs' \in IF h \in Magnets THEN {blobs} ELSE BlobSaved(h)

\* delete_torrent_data: the reported paths, else the root that is known of a
\* .torrent; without either there is nothing to delete.
HasTarget(h, paths) == paths \/ h \notin Magnets
Remains(h, paths) == IF HasTarget(h, paths) THEN data \ {h} ELSE data
DeleteResult(h, paths) == IF HasTarget(h, paths) /\ h \notin data THEN "error" ELSE "ok"

-----------------------------------------------------------------------------
(***************************************************************************)
(* Commands of the client.                                                 *)
(***************************************************************************)

Add(h) ==
  /\ actor = "up" /\ clients
  /\ h \notin Known
  /\ StartSession(h, FALSE)
  /\ promised' = IF h \in Magnets \cup blobs' THEN With(promised, h, FALSE) ELSE promised
  /\ gone' = gone \ {h}
  /\ UNCHANGED <<pending, data, actor, todo, clients, job>>

SetPaused(h, paused) ==
  /\ actor = "up" /\ clients
  /\ h \in Known
  /\ LET s == registry[h].session
     IN  /\ CanSend(s)
         /\ sessions' = Sent(s, IF paused THEN "Pause" ELSE "Resume")
  /\ registry' = [registry EXCEPT ![h].paused = paused]
  /\ saved' = Persist(registry')
  /\ promised' = IF h \in DOMAIN promised THEN [promised EXCEPT ![h] = paused] ELSE promised
  /\ UNCHANGED <<pending, data, actor, todo, clients, blobs, job, gone>>

\* remove takes the entry out of the registry, and with delete its caller waits.
Remove(h, delete) ==
  /\ actor = "up" /\ clients
  /\ h \in Known
  /\ actor' = "removing"
  /\ job' = With(job, h, [session |-> registry[h].session, ended |-> registry[h].ended,
                          paths |-> registry[h].paths, delete |-> delete])
  /\ registry' = Without(registry, h)
  /\ sessions' = IF delete THEN [sessions EXCEPT ![registry[h].session].removal = "waiting"]
                 ELSE sessions
  /\ promised' = Without(promised, h)
  /\ UNCHANGED <<pending, saved, data, todo, clients, blobs, gone>>

\* Mutant: the files are always left to the report of the session.
MustWaitAlways(entry) == TRUE

\* The files are deleted after the session let go of them.
MustWait(entry) == ~entry.ended

\* A second removal of the same torrent takes the place of the first one, whose
\* caller gets an error.
Replaced(h, list) ==
  [s \in DOMAIN list |->
     IF h \in DOMAIN pending /\ pending[h] = s
     THEN [list[s] EXCEPT !.removal = "dropped"] ELSE list[s]]

\* Mutant: the session is not told.
FarewellSilent(s) == sessions

Farewell(s) == Sent(s, "Shutdown")

\* The session is told; then the removal waits for its end, or the files are
\* deleted, if that was asked for, and the caller is answered.
RemoveTold(h) ==
  /\ actor = "removing" /\ h \in DOMAIN job
  /\ LET entry == job[h]
         s == entry.session
         told == Farewell(s)
     IN  /\ CanSend(s)
         /\ \/ /\ entry.delete /\ MustWait(entry)
               /\ pending' = With(pending, h, s)
               /\ sessions' = Replaced(h, told)
               /\ UNCHANGED data
            \/ /\ entry.delete /\ ~MustWait(entry)
               /\ data' = Remains(h, entry.paths)
               /\ sessions' = [told EXCEPT ![s].removal = DeleteResult(h, entry.paths)]
               /\ UNCHANGED pending
            \/ /\ ~entry.delete
               /\ sessions' = told
               /\ UNCHANGED <<pending, data>>
  /\ actor' = "saving"
  /\ UNCHANGED <<registry, saved, todo, clients, blobs, job, promised, gone>>

\* Mutant: the list is not saved after a removal.
SavedAfterRemovalKept == saved

SavedAfterRemoval == Persist(registry)

\* Only now a restart will not bring the torrent back.
RemoveSaved(h) ==
  /\ actor = "saving" /\ h \in DOMAIN job
  /\ saved' = SavedAfterRemoval
  /\ actor' = "up" /\ job' = <<>>
  /\ gone' = gone \cup {h}
  /\ UNCHANGED <<registry, pending, sessions, data, todo, clients, blobs, promised>>

\* The last DaemonHandle is dropped.  The actor holds a sender of its own
\* command channel, so its receive never reports that the channel is closed.
DropHandles ==
  /\ clients /\ actor = "up"
  /\ clients' = FALSE
  /\ UNCHANGED <<registry, pending, sessions, saved, data, actor, todo, blobs, job, promised, gone>>

-----------------------------------------------------------------------------
(***************************************************************************)
(* The report of a session's end.                                          *)
(***************************************************************************)

\* on_session_ended knows the torrent of the report, not its session.
MarkEnded(h, paths) ==
  IF h \in Known
  THEN [registry EXCEPT ![h].ended = TRUE, ![h].paths = paths]
  ELSE registry

\* A removal that waits for this torrent takes the paths from the registry.
SessionEnded(s) ==
  LET h == sessions[s].torrent
      paths == sessions[s].metadata /\ ~sessions[s].failed
      reported == [sessions EXCEPT ![s].state = "reported", ![s].failed = FALSE]
  IN  /\ actor = "up"
      /\ sessions[s].state = "done"
      /\ registry' = MarkEnded(h, paths)
      /\ \/ /\ h \in DOMAIN pending
            /\ data' = Remains(h, h \in Known /\ paths)
            /\ sessions' = [reported EXCEPT
                 ![pending[h]].removal = DeleteResult(h, h \in Known /\ paths)]
            /\ pending' = Without(pending, h)
         \/ /\ h \notin DOMAIN pending
            /\ sessions' = reported
            /\ UNCHANGED <<data, pending>>
      /\ UNCHANGED <<saved, actor, todo, clients, blobs, job, promised, gone>>

\* Once the shutdown began every command is rejected, this report too.
SessionEndedRejected(s) ==
  /\ actor = "stopping"
  /\ sessions[s].state = "done"
  /\ sessions' = [sessions EXCEPT ![s].state = "reported", ![s].failed = FALSE]
  /\ UNCHANGED <<registry, pending, saved, data, actor, todo, clients, blobs, job, promised, gone>>

-----------------------------------------------------------------------------
(***************************************************************************)
(* Shutdown, crash, restart.                                               *)
(***************************************************************************)

BeginShutdown ==
  /\ actor = "up" /\ clients
  /\ actor' = "telling" /\ todo' = Persist(registry)
  /\ UNCHANGED <<registry, pending, sessions, saved, data, clients, blobs, job, promised, gone>>

\* begin_shutdown waits for room in one channel after the other.
TellShutdown(h) ==
  /\ actor = "telling" /\ h \in DOMAIN todo
  /\ CanSend(registry[h].session)
  /\ sessions' = Sent(registry[h].session, "Shutdown")
  /\ todo' = Without(todo, h)
  /\ UNCHANGED <<registry, pending, saved, data, actor, clients, blobs, job, promised, gone>>

Told ==
  /\ actor = "telling" /\ DOMAIN todo = {} /\ Known # {}
  /\ actor' = "stopping"
  /\ UNCHANGED <<registry, pending, sessions, saved, data, todo, clients, blobs, job, promised, gone>>

\* The process ends: sessions end with it, replies are dropped, and so are the
\* handles.
ProcessEnds ==
  /\ actor' = "down"
  /\ registry' = <<>> /\ pending' = <<>> /\ sessions' = <<>> /\ todo' = <<>>
  /\ job' = <<>> /\ clients' = TRUE
  /\ UNCHANGED <<saved, data, blobs, gone>>

\* finish_shutdown: at once without torrents, else when the deadline is over.
FinishShutdown ==
  /\ \/ actor = "telling" /\ Known = {}
     \/ actor = "stopping"
  /\ ProcessEnds /\ UNCHANGED promised

\* A crash in the midst of a restore loses what is not in the list again: the
\* first torrent restored overwrites it.
Crash ==
  /\ actor # "down"
  /\ ProcessEnds
  /\ promised' = IF actor = "restoring"
                   THEN [h \in DOMAIN promised \cap DOMAIN saved |-> promised[h]]
                   ELSE promised

\* start: the saved list is read.
Start ==
  /\ actor = "down"
  /\ actor' = "restoring" /\ todo' = saved /\ clients' = TRUE
  /\ UNCHANGED <<registry, pending, sessions, saved, data, blobs, job, promised, gone>>

\* restore_persisted starts one torrent after the other; each add saves the
\* registry as it is then.
Restore(h) ==
  /\ actor = "restoring" /\ h \in DOMAIN todo
  /\ HasSource(h)
  /\ StartSession(h, todo[h])
  /\ todo' = Without(todo, h)
  /\ promised' = IF h \in Magnets \cup blobs' THEN promised ELSE Without(promised, h)
  /\ UNCHANGED <<pending, data, actor, clients, job, gone>>

\* A torrent without its blob is skipped, with a warning.
RestoreSkips(h) ==
  /\ actor = "restoring" /\ h \in DOMAIN todo
  /\ ~HasSource(h)
  /\ todo' = Without(todo, h)
  /\ UNCHANGED <<registry, pending, sessions, saved, data, actor, clients, blobs, job, promised, gone>>

\* One that cannot be started, its blob damaged or its directory not there, too:
\* the list that is saved in the end lacks it.
RestoreFails(h) ==
  /\ actor = "restoring" /\ h \in DOMAIN todo
  /\ HasSource(h)
  /\ todo' = Without(todo, h) /\ promised' = Without(promised, h)
  /\ UNCHANGED <<registry, pending, sessions, saved, data, actor, clients, blobs, job, gone>>

RestoreDone ==
  /\ actor = "restoring" /\ DOMAIN todo = {}
  /\ actor' = "up"
  /\ saved' = Persist(registry)
  /\ UNCHANGED <<registry, pending, sessions, data, todo, clients, blobs, job, promised, gone>>

-----------------------------------------------------------------------------
(***************************************************************************)
(* What a session does for itself.                                         *)
(***************************************************************************)

RestUnchanged == UNCHANGED <<registry, pending, saved, actor, todo, clients, blobs, job, promised, gone>>

\* The session loop takes a command.
ReadCommand(s) ==
  /\ sessions[s].state = "running" /\ sessions[s].commands # <<>>
  /\ LET command == Head(sessions[s].commands)
         read == [sessions EXCEPT ![s].commands = <<>>]
     IN  \/ command = "Pause" /\ sessions' = [read EXCEPT ![s].paused = TRUE]
         \/ command = "Resume" /\ sessions' = [read EXCEPT ![s].paused = FALSE]
         \/ command = "Shutdown" /\ sessions' = [read EXCEPT ![s].state = "stopping"]
  /\ UNCHANGED data /\ RestUnchanged

\* A magnet's metadata arrives.
MetadataDone(s) ==
  /\ sessions[s].state = "running" /\ ~sessions[s].metadata
  /\ sessions' = [sessions EXCEPT ![s].metadata = TRUE]
  /\ UNCHANGED data /\ RestUnchanged

\* The session creates its files, or its writer writes: until the teardown has
\* waited for the writer.
WriteFiles(s) ==
  /\ Writing(s) /\ sessions[s].metadata
  /\ data' = data \cup {sessions[s].torrent}
  /\ UNCHANGED sessions /\ RestUnchanged

\* The session loop ends with an error: idle timeout, disk.
Fails(s) ==
  /\ sessions[s].state = "running"
  /\ sessions' = [sessions EXCEPT ![s].state = "stopping", ![s].failed = TRUE]
  /\ UNCHANGED data /\ RestUnchanged

\* The teardown is over; the writer's error may be its result.  The channel goes,
\* and what no handler reads any more is not kept: the pause flag here, the result
\* after the report.
TornDown(s) ==
  /\ sessions[s].state = "stopping"
  /\ \E failed \in BOOLEAN :
       sessions' = [sessions EXCEPT ![s].state = "done", ![s].commands = <<>>, ![s].paused = FALSE,
                                    ![s].failed = @ \/ failed]
  /\ UNCHANGED data /\ RestUnchanged

ClientStep ==
  \/ \E h \in Torrents : Add(h)
  \/ \E h \in Torrents, paused \in BOOLEAN : SetPaused(h, paused)
  \/ \E h \in Torrents, delete \in BOOLEAN : Remove(h, delete)
  \/ DropHandles
  \/ BeginShutdown

ProcessStep ==
  \/ \E h \in Torrents : RemoveTold(h)
  \/ \E h \in Torrents : RemoveSaved(h)
  \/ \E h \in Torrents : TellShutdown(h)
  \/ Told
  \/ FinishShutdown
  \/ Crash
  \/ Start
  \/ \E h \in Torrents : Restore(h)
  \/ \E h \in Torrents : RestoreSkips(h)
  \/ \E h \in Torrents : RestoreFails(h)
  \/ RestoreDone

SessionStep ==
  \/ \E s \in Ids : SessionEnded(s)
  \/ \E s \in Ids : SessionEndedRejected(s)
  \/ \E s \in Ids : ReadCommand(s)
  \/ \E s \in Ids : MetadataDone(s)
  \/ \E s \in Ids : WriteFiles(s)
  \/ \E s \in Ids : Fails(s)
  \/ \E s \in Ids : TornDown(s)

Next == ClientStep \/ ProcessStep \/ SessionStep

Spec == Init /\ [][Next]_vars

\* Sessions read their commands, end when told to and report; the actor handles
\* what it gets, and the deadline of a shutdown comes.
Fairness ==
  /\ \A s \in 1 .. MaxSessions :
       /\ WF_vars(s \in Ids /\ ReadCommand(s))
       /\ WF_vars(s \in Ids /\ TornDown(s))
       /\ WF_vars(s \in Ids /\ SessionEnded(s))
  /\ \A h \in Torrents :
       /\ WF_vars(RemoveTold(h))
       /\ WF_vars(RemoveSaved(h))
       /\ WF_vars(TellShutdown(h))
  /\ WF_vars(Told)
  /\ WF_vars(FinishShutdown)

FairSpec == Spec /\ Fairness

-----------------------------------------------------------------------------
SessionRecords ==
  [torrent : Torrents, state : {"running", "stopping", "done", "reported"},
   commands : {<<>>, <<"Pause">>, <<"Resume">>, <<"Shutdown">>},
   paused : BOOLEAN, metadata : BOOLEAN, failed : BOOLEAN,
   removal : {"none", "waiting", "ok", "error", "dropped"}]

\* Types of the variables; the entries and the waiting removals are of sessions
\* of their own torrent; one removal is under way in two phases, of a torrent
\* that is not registered.
TypeOK ==
  /\ Known \subseteq Torrents
  /\ \A h \in Known :
       /\ registry[h] \in [session : Ids, paused : BOOLEAN, ended : BOOLEAN, paths : BOOLEAN]
       /\ sessions[registry[h].session].torrent = h
  /\ DOMAIN pending \subseteq Torrents
  /\ \A h \in DOMAIN pending : pending[h] \in Ids /\ sessions[pending[h]].torrent = h
  /\ sessions \in Seq(SessionRecords) /\ Len(sessions) <= MaxSessions
  /\ DOMAIN saved \subseteq Torrents /\ \A h \in DOMAIN saved : saved[h] \in BOOLEAN
  /\ data \subseteq Torrents
  /\ actor \in Phases
  /\ DOMAIN todo \subseteq Torrents /\ \A h \in DOMAIN todo : todo[h] \in BOOLEAN
  /\ clients \in BOOLEAN
  /\ blobs \subseteq Torrents \ Magnets
  /\ DOMAIN job \subseteq Torrents \ Known
  /\ \A h \in DOMAIN job :
       /\ job[h] \in [session : Ids, ended : BOOLEAN, paths : BOOLEAN, delete : BOOLEAN]
       /\ sessions[job[h].session].torrent = h
  /\ \A h, k \in DOMAIN job : h = k
  /\ DOMAIN job # {} <=> actor \in {"removing", "saving"}
  /\ DOMAIN promised \subseteq Torrents /\ \A h \in DOMAIN promised : promised[h] \in BOOLEAN
  /\ gone \subseteq Torrents

\* A torrent whose removal was saved does not come back, over crashes at any step,
\* shutdowns and restarts, until the user adds it again.  Before that a crash may
\* bring it back, although its removal was answered.
RemovalSticks == \A h \in gone : h \notin Known

\* No session runs on unnoticed: one that is not registered was told to stop, or
\* its removal waits for room in its channel to tell it.  So
\* sessions of one torrent that was removed and added again overlap only while the
\* older one is being torn down.
NoOrphan ==
  \A s \in Ids : sessions[s].state = "running" =>
    \/ \E h \in Known : registry[h].session = s
    \/ sessions[s].commands = <<"Shutdown">>
    \/ actor = "removing" /\ \E h \in DOMAIN job : job[h].session = s

\* The pause flag that the user is shown and the one the session obeys agree
\* whenever no command is on its way.
PauseObeyed ==
  \A h \in Known :
    LET s == sessions[registry[h].session]
    IN  s.state = "running" /\ s.commands = <<>> => s.paused = registry[h].paused

\* Every removal that was asked to delete the files is answered, also when the
\* torrent is added and removed again, or the daemon is shut down meanwhile.
RemovalsAnswered ==
  \A s \in 1 .. MaxSessions :
    (s \in Ids /\ sessions[s].removal = "waiting")
      ~> ~(s \in Ids /\ sessions[s].removal = "waiting")

\* Comment in remove: the files are deleted only after the session has ended, the
\* writer must have let go of them.
NoDeleteWhileWriting ==
  [][\A h \in data \ data' :
       \A s \in Ids : sessions[s].torrent = h => ~Writing(s)]_vars

\* What a restart brings back: a torrent the user added and did not remove is there
\* again with its pause flag, whatever else is removed, added again or lost.  The
\* only exceptions are those of promised: its blob could not be saved, it could not
\* be started, or a crash in the midst of a restore lost it.
RestartBringsBack ==
  actor = "up" => \A h \in DOMAIN promised : h \in Known /\ registry[h].paused = promised[h]
=============================================================================
