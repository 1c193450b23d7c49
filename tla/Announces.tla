------------------------------ MODULE Announces ------------------------------
(***************************************************************************)
(* How a session makes itself known (crates/engine/src/session.rs): the    *)
(* hub gives announces to the actors of the trackers, which work them off  *)
(* one by one and report those that bring peers; the reports of all        *)
(* trackers set one deadline for the next announce to all of them.  A      *)
(* session that seeds also announces itself to the DHT.  Phases, pauses    *)
(* and the idle timer are those of IdleTimer; what the peers of an answer  *)
(* become is in Links.                                                     *)
(***************************************************************************)
EXTENDS IdleTimer, UdpTracker, Sequences, FiniteSets

CONSTANTS
  Trackers,     \* the session's trackers
  Udp,          \* those of them with udp:// URLs
  Intervals,    \* intervals that trackers ask for, in ticks
  MinInterval,  \* MIN_REANNOUNCE_INTERVAL
  MaxInterval,  \* MAX_REANNOUNCE_INTERVAL
  DhtPeriod,    \* DHT_SEED_ANNOUNCE_PERIOD
  MaxTasks,     \* bound: announces that wait for one tracker
  MaxReports    \* bound: reports that wait for the hub

ASSUME AnnouncesAssumption ==
  /\ IsFiniteSet(Trackers) /\ Udp \subseteq Trackers
  /\ Intervals \subseteq Nat
  /\ MinInterval \in Nat \ {0} /\ MaxInterval \in Nat /\ MinInterval <= MaxInterval
  /\ DhtPeriod \in Nat \ {0}
  /\ MaxTasks \in Nat \ {0} /\ MaxReports \in Nat \ {0}

VARIABLES
  running,    \* whether session_loop runs; then comes teardown_session
  seed,       \* Hub.seed
  announced,  \* the events that the hub has announced so far
  tasks,      \* per tracker: announces of its actor, the first being worked on
  exchange,   \* per tracker: that announce
  reports,    \* HubEvent::Announce on the way: ok and the interval
  deadline,   \* announce_deadline, in ticks from now
  dhtLeft     \* dht_announce_deadline, in ticks from now

actors == <<tasks, exchange, reports>>
hubVars == <<running, seed, announced, deadline, dhtLeft>>
allVars == <<vars, hubVars, actors>>

Events == {"Started", "Periodic", "Completed", "Stopped"}

Unarmed == -1

AnnouncesInit ==
  /\ Init
  /\ running = TRUE /\ seed \in BOOLEAN
  /\ announced = {}
  /\ tasks = [t \in Trackers |-> <<>>]
  /\ exchange = [t \in Trackers |-> NoExchange]
  /\ reports = <<>>
  /\ deadline = Unarmed /\ dhtLeft = Unarmed

-----------------------------------------------------------------------------
(***************************************************************************)
(* The hub.                                                                *)
(***************************************************************************)

\* send_announce, several in a row.
SendAnnounces(events) ==
  /\ tasks' = [t \in Trackers |-> tasks[t] \o events]
  /\ announced' = announced \cup {events[i] : i \in DOMAIN events}
  /\ UNCHANGED exchange

Left(n) == IF n > 0 THEN n - 1 ELSE n

\* Time passes.
Passes ==
  /\ running /\ Tick
  /\ deadline' = Left(deadline) /\ dhtLeft' = Left(dhtLeft)
  /\ UNCHANGED <<running, seed, announced, actors>>

\* Mutant: the announce goes out, the next one is not planned.
DhtAfterOnce(now) == IF now = "Seed" /\ dhtLeft = 0 THEN Unarmed ELSE dhtLeft

\* on_periodic_tick, at the end of every turn of the loop, in phase now.
DhtAfter(now) == IF now = "Seed" /\ dhtLeft = 0 THEN DhtPeriod ELSE dhtLeft

\* A turn of the loop that the timers of choking and PEX cause at the least.
Turn ==
  /\ running
  /\ dhtLeft' = DhtAfter(phase)
  /\ UNCHANGED <<vars, running, seed, announced, deadline, actors>>

\* Turns that bring the session neither to its trackers nor to an end.
Quiet ==
  /\ running
  /\ \/ \E next \in Phases : PeerInMetadata(next)
     \/ PieceWritten(FALSE)
  /\ dhtLeft' = DhtAfter(phase')
  /\ UNCHANGED <<running, seed, announced, deadline, actors>>

Paused ==
  /\ running
  /\ Pause \/ Resume
  /\ UNCHANGED <<hubVars, actors>>

\* The loop is over, and with it what it planned; teardown_session takes leave of
\* the trackers.
EndsWith(events) ==
  /\ running' = FALSE
  /\ SendAnnounces(events \o <<"Stopped">>)
  /\ deadline' = Unarmed /\ dhtLeft' = Unarmed /\ reports' = <<>>
  /\ UNCHANGED seed

\* enter_seed_mode
SeedsWith(events) ==
  /\ SendAnnounces(events)
  /\ dhtLeft' = DhtPeriod
  /\ UNCHANGED <<running, seed, deadline, reports>>

\* What follows when on_event returns true: Completed goes out, without seeding
\* once from session_loop and once from run_session.
Finished(events) ==
  IF seed THEN SeedsWith(events \o <<"Completed">>)
  ELSE EndsWith(events \o <<"Completed", "Completed">>)

\* The Disk event of the last write.
LastPieceWritten ==
  /\ running /\ "Completed" \notin announced
  /\ PieceWritten(TRUE)
  /\ Finished(<<>>)

\* RecheckDone.  It may come late, when the download is already complete.
RecheckFinished ==
  /\ running /\ "Started" \notin announced
  /\ \E complete \in BOOLEAN :
       /\ RecheckDone(complete) \/ (complete /\ phase = "Seed" /\ UNCHANGED vars)
       /\ IF ~ complete
          THEN /\ SendAnnounces(<<"Started">>)
               /\ UNCHANGED <<running, seed, deadline, dhtLeft, reports>>
          ELSE IF seed THEN SeedsWith(<<"Started">>) ELSE Finished(<<"Started">>)

\* announce_wait is over.
AnnounceDue ==
  /\ running /\ deadline = 0
  /\ \A t \in Trackers : Len(tasks[t]) < MaxTasks
  /\ SendAnnounces(<<"Periodic">>)
  /\ deadline' = Unarmed /\ dhtLeft' = DhtAfter(phase)
  /\ UNCHANGED <<vars, running, seed, reports>>

Clamp(n) == IF n < MinInterval THEN MinInterval ELSE IF n > MaxInterval THEN MaxInterval ELSE n

\* announce_next
NextAnnounce(report) == IF report.ok THEN Clamp(report.interval) ELSE MinInterval

\* HubEvent::Announce: the deadline of another tracker's report is replaced.
HandleReport ==
  /\ running /\ reports # <<>>
  /\ deadline' = NextAnnounce(Head(reports))
  /\ reports' = Tail(reports)
  /\ dhtLeft' = DhtAfter(phase)
  /\ UNCHANGED <<vars, running, seed, announced, tasks, exchange>>

\* Shutdown, or an error of the disk.
Stop ==
  /\ running
  /\ EndsWith(<<>>)
  /\ UNCHANGED vars

IdleEnd ==
  /\ running /\ Fire
  /\ EndsWith(<<>>)

-----------------------------------------------------------------------------
(***************************************************************************)
(* The actor of tracker t, and the network.                                *)
(***************************************************************************)

Becomes(t, x) ==
  /\ exchange' = [exchange EXCEPT ![t] = x]
  /\ UNCHANGED <<vars, hubVars, tasks, reports>>

Begin(t) ==
  /\ exchange[t].step = "none" /\ tasks[t] # <<>>
  /\ Becomes(t, Begun(t \in Udp))

\* The address is not found, the socket fails.
Fails(t) ==
  /\ exchange[t].step \in Requests \cup {"http"}
  /\ Becomes(t, Over(exchange[t], "Failed"))

Receive(t) ==
  \E reply \in Replies(exchange[t]) : Becomes(t, Received(exchange[t], reply))

Expire(t) ==
  /\ exchange[t].step \in Requests
  /\ Becomes(t, Expired(exchange[t]))

\* announce_http: its other failures count as Fails.
HttpAnswer(t) ==
  /\ exchange[t].step = "http"
  /\ \E outcome \in {"ok", "TrackerFailure"} : Becomes(t, Over(exchange[t], outcome))

\* Mutant: failures are logged only.
ReportsOk(event, outcome) == event \in {"Started", "Periodic"} /\ outcome = "ok"

\* Which results the hub is told of: those of announces that bring peers.
Reports(event, outcome) == event \in {"Started", "Periodic"} /\ outcome \in Outcomes

\* The announce is over: the actor reports and takes the next one.
Report(t) ==
  /\ exchange[t].step = "done" /\ Len(reports) < MaxReports
  /\ \E interval \in Intervals :
       reports' = IF running /\ Reports(Head(tasks[t]), exchange[t].outcome)
                  THEN Append(reports, [ok |-> exchange[t].outcome = "ok", interval |-> interval])
                  ELSE reports
  /\ tasks' = [tasks EXCEPT ![t] = Tail(@)]
  /\ exchange' = [exchange EXCEPT ![t] = NoExchange]
  /\ UNCHANGED <<vars, hubVars>>

\* teardown_session waits for ACTOR_STOP_TIMEOUT only.
Abort(t) ==
  /\ ~ running /\ tasks[t] # <<>>
  /\ tasks' = [tasks EXCEPT ![t] = <<>>]
  /\ exchange' = [exchange EXCEPT ![t] = NoExchange]
  /\ UNCHANGED <<vars, hubVars, reports>>

AnnouncesNext ==
  \/ Passes
  \/ Turn
  \/ Quiet
  \/ Paused
  \/ LastPieceWritten
  \/ RecheckFinished
  \/ AnnounceDue
  \/ HandleReport
  \/ Stop
  \/ IdleEnd
  \/ \E t \in Trackers :
       \/ Begin(t) \/ Fails(t) \/ Receive(t) \/ Expire(t)
       \/ HttpAnswer(t) \/ Report(t) \/ Abort(t)

\* Time passes, the loop turns and takes every branch that stays ready, and no
\* request outlasts its timeouts.
AnnouncesSpec ==
  /\ AnnouncesInit /\ [][AnnouncesNext]_allVars
  /\ WF_allVars(Passes) /\ WF_allVars(Turn) /\ WF_allVars(IdleEnd)
  /\ WF_allVars(AnnounceDue) /\ WF_allVars(HandleReport)
  /\ \A t \in Trackers :
       WF_allVars(Begin(t)) /\ WF_allVars(Expire(t)) /\ WF_allVars(HttpAnswer(t))
       /\ WF_allVars(Report(t))

-----------------------------------------------------------------------------
\* Types of the variables, those of IdleTimer included.  An exchange belongs to
\* an announce.
AnnouncesTypeOK ==
  /\ TypeOK
  /\ running \in BOOLEAN /\ seed \in BOOLEAN /\ announced \subseteq Events
  /\ tasks \in [Trackers -> Seq(Events)]
  /\ exchange \in [Trackers -> Exchanges]
  /\ \A t \in Trackers : exchange[t].step # "none" => tasks[t] # <<>>
  /\ reports \in Seq([ok : BOOLEAN, interval : Intervals])
  /\ deadline \in {Unarmed} \cup 0 .. MaxInterval
  /\ dhtLeft \in {Unarmed} \cup 0 .. DhtPeriod

\* An announce passes for accepted only if the tracker has accepted it, and for
\* refused only if it was this request that the tracker refused: whatever packets
\* of the connect arrive late or twice.
AnswersBelonged ==
  \A t \in Udp : LET x == exchange[t] IN x.step = "done" =>
    /\ x.outcome = "ok" => x.got = <<"announce", "ok">>
    /\ x.outcome = "TrackerFailure" => x.got = <<x.last, "error">>

\* A session that keeps waiting unpaused for peers that give it nothing ends.
StarvedEnds ==
  ~<>[](running /\ phase \in {"Download", "Metadata"} /\ ~paused /\ quiet # 0)

\* A session that goes on is announced again and again: at every tracker, though
\* reports of others and failures keep moving the one deadline, and in the DHT as
\* long as it seeds.
AnnouncedAgain ==
  /\ \A t \in Trackers :
       []<>(running /\ "Started" \in announced =>
              exchange[t].step = "done" /\ Head(tasks[t]) = "Periodic")
  /\ []<>(running /\ phase = "Seed" => dhtLeft = DhtPeriod)
=============================================================================
