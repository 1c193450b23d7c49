--------------------------- MODULE AnnouncesProofs ---------------------------
(***************************************************************************)
(* For all trackers, intervals and timeouts: the idle timer by itself,     *)
(* then the session around it.  What the session does with its trackers    *)
(* leaves the timer alone, so that its invariant carries over; queues,     *)
(* reports and deadlines keep their types; and no stray packet is taken    *)
(* for an answer.                                                          *)
(***************************************************************************)
EXTENDS Announces, SequenceTheorems, TLAPS

(***************************************************************************)
(* The idle timer spares a session that got something within the timeout,  *)
(* for every timeout.  The inductive invariant says what the timer has     *)
(* left: the rest of the timeout that has not been quiet yet.              *)
(***************************************************************************)

Remainder == left + quiet = Timeout

Inv == TypeOK /\ Remainder /\ ProgressProtects

LEMMA InitInv == Init => Inv
<1> USE IdleTimerAssumption
<1> SUFFICES ASSUME Init PROVE Inv
  OBVIOUS
<1>1. phase \in {"Metadata", "Recheck"} /\ paused \in BOOLEAN
  BY Zenon DEF Init
<1>2. left = Timeout /\ quiet = 0
  BY DEF Init
<1> QED
  BY <1>1, <1>2 DEF Inv, TypeOK, Remainder, ProgressProtects, Phases

LEMMA NextInv == Inv /\ [Next]_vars => Inv'
<1> USE IdleTimerAssumption
<1> SUFFICES ASSUME Inv, [Next]_vars PROVE Inv'
  OBVIOUS
<1> USE DEF Inv, TypeOK, Remainder, ProgressProtects, Phases
<1>1. CASE Tick
  BY <1>1 DEF Tick, Remaining, Capped, Armed
<1>2. ASSUME NEW next \in Phases, PeerInMetadata(next) PROVE Inv'
  BY <1>2 DEF PeerInMetadata, LifeSign, Rearmed
<1>3. ASSUME NEW complete \in BOOLEAN, RecheckDone(complete) PROVE Inv'
  BY <1>3 DEF RecheckDone
<1>4. ASSUME NEW complete \in BOOLEAN, PieceWritten(complete) PROVE Inv'
  BY <1>4 DEF PieceWritten, LifeSign, Rearmed
<1>5. CASE Pause
  BY <1>5 DEF Pause
<1>6. CASE Resume
  BY <1>6 DEF Resume
<1>7. CASE Fire
  BY <1>7 DEF Fire
<1>8. CASE UNCHANGED vars
  BY <1>8 DEF vars
<1> QED
  BY <1>1, <1>2, <1>3, <1>4, <1>5, <1>6, <1>7, <1>8 DEF Next

\* The timer ends no session that got something within the timeout, whatever
\* phases and pauses it went through: when `idle` fires in session_loop, no piece
\* was acknowledged and no sign of life seen for IDLE_TIMEOUT.
THEOREM Protected == Spec => []ProgressProtects
<1>1. Inv => ProgressProtects
  BY DEF Inv
<1> QED
  BY InitInv, NextInv, <1>1, PTL DEF Spec

(***************************************************************************)
(* The session around it.                                                  *)
(***************************************************************************)

\* Every step of the session is one of the idle timer or none at all.
LEMMA StepIsIdle == [AnnouncesNext]_allVars => [Next]_vars
<1> SUFFICES ASSUME [AnnouncesNext]_allVars PROVE [Next]_vars
  OBVIOUS
<1>1. CASE Passes
  BY <1>1 DEF Passes, Next
<1>2. CASE Turn \/ AnnounceDue \/ HandleReport \/ Stop
  BY <1>2 DEF Turn, AnnounceDue, HandleReport, Stop
<1>3. CASE Quiet
  BY <1>3 DEF Quiet, Next
<1>4. CASE Paused
  BY <1>4 DEF Paused, Next
<1>5. CASE LastPieceWritten
  BY <1>5 DEF LastPieceWritten, Next
<1>6. CASE RecheckFinished
  BY <1>6 DEF RecheckFinished, Next
<1>7. CASE IdleEnd
  BY <1>7 DEF IdleEnd, Next
<1>8. ASSUME NEW t \in Trackers,
             Begin(t) \/ Fails(t) \/ Receive(t) \/ Expire(t) \/ HttpAnswer(t) \/ Report(t) \/ Abort(t)
      PROVE  UNCHANGED vars
  BY <1>8 DEF Begin, Fails, Receive, Expire, HttpAnswer, Report, Abort, Becomes
<1>9. CASE UNCHANGED allVars
  BY <1>9 DEF allVars
<1> QED
  BY <1>1, <1>2, <1>3, <1>4, <1>5, <1>6, <1>7, <1>8, <1>9 DEF AnnouncesNext

\* The composed session too ends by the idle timer only when nothing came for
\* the whole timeout.
THEOREM SessionProtected == AnnouncesSpec => []ProgressProtects
<1>1. AnnouncesInit => Inv
  BY InitInv DEF AnnouncesInit
<1>2. Inv /\ [AnnouncesNext]_allVars => Inv'
  BY NextInv, StepIsIdle
<1>3. Inv => ProgressProtects
  BY DEF Inv
<1> QED
  BY <1>1, <1>2, <1>3, PTL DEF AnnouncesSpec

(***************************************************************************)
(* The exchange of one announce.                                           *)
(***************************************************************************)

\* A UDP exchange that believes no stray packet.
Believed(x) ==
  /\ x.step # "http"
  /\ x.step = "done" =>
       /\ x.outcome = "ok" => x.got = <<"announce", "ok">>
       /\ x.outcome = "TrackerFailure" => x.got = <<x.last, "error">>

LEMMA NoExchangeBelieved == NoExchange \in Exchanges /\ Believed(NoExchange)
  BY UdpTrackerAssumption DEF NoExchange, Exchanges, Requests, Answers, Outcomes, Believed

LEMMA BegunBelieved ==
  ASSUME NEW udp \in BOOLEAN
  PROVE  Begun(udp) \in Exchanges /\ (udp => Believed(Begun(udp)))
  BY UdpTrackerAssumption DEF Begun, NoExchange, Exchanges, Requests, Answers, Outcomes, Believed

LEMMA OverTyped ==
  ASSUME NEW x \in Exchanges, x.step \in Requests \cup {"http"}, NEW outcome \in Outcomes
  PROVE  /\ Over(x, outcome) \in Exchanges
         /\ Over(x, outcome).outcome = outcome /\ Over(x, outcome).last = x.step
         /\ Over(x, outcome).step = "done"
  BY UdpTrackerAssumption DEF Over, Exchanges

LEMMA ExpiredBelieved ==
  ASSUME NEW x \in Exchanges, Believed(x), x.step \in Requests
  PROVE  Expired(x) \in Exchanges /\ Believed(Expired(x))
<1>1. CASE x.attempt < MaxAttempts
  <2>1. Expired(x) = [x EXCEPT !.attempt = x.attempt + 1]
    BY <1>1 DEF Expired
  <2>2. Expired(x) \in Exchanges /\ Expired(x).step = x.step
    BY <1>1, <2>1, UdpTrackerAssumption DEF Exchanges
  <2> QED
    BY <2>2 DEF Believed, Requests
<1>2. CASE ~ (x.attempt < MaxAttempts)
  <2>1. Expired(x) = Over(x, "Timeout")
    BY <1>2 DEF Expired
  <2> QED
    BY <2>1, OverTyped DEF Believed, Outcomes
<1> QED
  BY <1>1, <1>2

\* The first packet either belongs to the request that is out or is not believed.
LEMMA ReceivedBelieved ==
  ASSUME NEW x \in Exchanges, NEW reply \in Replies(x)
  PROVE  Received(x, reply) \in Exchanges /\ Believed(Received(x, reply))
<1>1. x.step \in Requests /\ reply \in Requests \X Answers
  BY DEF Replies, Requests, Answers
<1>2. reply = <<reply[1], reply[2]>> /\ reply[2] \in Answers
  BY <1>1
<1>3. CASE TooShort(x, reply) \/ ~ Matches(x, reply)
  <2>1. Received(x, reply) = Over(x, "InvalidField")
    BY <1>3 DEF Received
  <2> QED
    BY <1>1, <2>1, OverTyped DEF Believed, Outcomes
<1>4. CASE ~ TooShort(x, reply) /\ Matches(x, reply) /\ reply[2] = "error"
  <2>1. Received(x, reply) = [Over(x, "TrackerFailure") EXCEPT !.got = reply]
    BY <1>4 DEF Received
  <2>2. Over(x, "TrackerFailure") \in Exchanges /\ Over(x, "TrackerFailure").last = x.step
        /\ Over(x, "TrackerFailure").outcome = "TrackerFailure"
        /\ Over(x, "TrackerFailure").step = "done"
    BY <1>1, OverTyped DEF Outcomes
  <2>3. /\ Received(x, reply) \in Exchanges /\ Received(x, reply).got = reply
        /\ Received(x, reply).last = x.step
        /\ Received(x, reply).outcome = "TrackerFailure" /\ Received(x, reply).step = "done"
    BY <1>1, <2>1, <2>2 DEF Exchanges
  <2>4. reply = <<x.step, "error">>
    BY <1>2, <1>4 DEF Matches
  <2> QED
    BY <2>3, <2>4 DEF Believed
<1>5. CASE ~ TooShort(x, reply) /\ Matches(x, reply) /\ reply[2] # "error"
  <2>1. reply = <<x.step, "ok">>
    BY <1>2, <1>5 DEF TooShort, Matches, Answers
  <2>2. CASE x.step = "connect"
    <3>1. Received(x, reply) = [x EXCEPT !.step = "announce", !.attempt = 1]
      BY <1>5, <2>2 DEF Received
    <3>2. Received(x, reply) =
            [step |-> "announce", last |-> x.last, attempt |-> 1, got |-> x.got,
             outcome |-> x.outcome]
      BY <3>1 DEF Exchanges
    <3>3. Received(x, reply) \in Exchanges /\ Received(x, reply).step = "announce"
      BY <3>2, UdpTrackerAssumption DEF Exchanges, Requests
    <3> QED
      BY <3>3 DEF Believed
  <2>3. CASE x.step # "connect"
    <3>1. x.step = "announce"
      BY <1>1, <2>3 DEF Requests
    <3>2. Received(x, reply) = [Over(x, "ok") EXCEPT !.got = reply]
      BY <1>5, <2>3 DEF Received
    <3>3. Over(x, "ok") \in Exchanges /\ Over(x, "ok").outcome = "ok" /\ Over(x, "ok").step = "done"
      BY <1>1, OverTyped DEF Outcomes
    <3>4. /\ Received(x, reply) \in Exchanges /\ Received(x, reply).got = reply
          /\ Received(x, reply).outcome = "ok" /\ Received(x, reply).step = "done"
      BY <1>1, <3>2, <3>3 DEF Exchanges
    <3> QED
      BY <2>1, <3>1, <3>4 DEF Believed
  <2> QED
    BY <2>2, <2>3
<1> QED
  BY <1>3, <1>4, <1>5

ExchangeInv ==
  /\ exchange \in [Trackers -> Exchanges]
  /\ \A t \in Udp : Believed(exchange[t])

LEMMA StepExchange == ExchangeInv /\ [AnnouncesNext]_allVars => ExchangeInv'
<1> SUFFICES ASSUME ExchangeInv, [AnnouncesNext]_allVars PROVE ExchangeInv'
  OBVIOUS
<1> USE AnnouncesAssumption
<1>same. ASSUME UNCHANGED exchange PROVE ExchangeInv'
  BY <1>same DEF ExchangeInv
<1>becomes. ASSUME NEW t \in Trackers, NEW x \in Exchanges, t \in Udp => Believed(x),
                   exchange' = [exchange EXCEPT ![t] = x]
            PROVE  ExchangeInv'
  BY <1>becomes DEF ExchangeInv
<1>1. CASE Passes \/ Turn \/ Quiet \/ Paused \/ AnnounceDue \/ HandleReport
  BY <1>1, <1>same
  DEF Passes, Turn, Quiet, Paused, AnnounceDue, HandleReport, actors, SendAnnounces
<1>2. CASE LastPieceWritten \/ RecheckFinished \/ Stop \/ IdleEnd
  BY <1>2, <1>same
  DEF LastPieceWritten, RecheckFinished, Stop, IdleEnd, Finished, SeedsWith, EndsWith, SendAnnounces
<1>3. ASSUME NEW t \in Trackers, Begin(t) PROVE ExchangeInv'
  <2>1. (t \in Udp) \in BOOLEAN
    OBVIOUS
  <2> QED
    BY <1>3, <2>1, <1>becomes, BegunBelieved DEF Begin, Becomes
<1>4. ASSUME NEW t \in Trackers, Fails(t) PROVE ExchangeInv'
  <2>1. exchange[t] \in Exchanges
    BY DEF ExchangeInv
  <2>2. Over(exchange[t], "Failed") \in Exchanges /\ Believed(Over(exchange[t], "Failed"))
    BY <1>4, <2>1, OverTyped DEF Fails, Believed, Outcomes
  <2> QED
    BY <1>4, <2>2, <1>becomes DEF Fails, Becomes
<1>5. ASSUME NEW t \in Trackers, Receive(t) PROVE ExchangeInv'
  <2>1. exchange[t] \in Exchanges
    BY DEF ExchangeInv
  <2>2. PICK reply \in Replies(exchange[t]) : exchange' = [exchange EXCEPT ![t] = Received(exchange[t], reply)]
    BY <1>5 DEF Receive, Becomes
  <2> QED
    BY <2>1, <2>2, <1>becomes, ReceivedBelieved
<1>6. ASSUME NEW t \in Trackers, Expire(t) PROVE ExchangeInv'
  <2>1. exchange[t] \in Exchanges /\ exchange[t].step \in Requests
    BY <1>6 DEF ExchangeInv, Expire
  <2>2. Believed(exchange[t])
    BY <2>1, Zenon DEF Believed, Requests
  <2> QED
    BY <1>6, <2>1, <2>2, <1>becomes, ExpiredBelieved DEF Expire, Becomes
<1>7. ASSUME NEW t \in Trackers, HttpAnswer(t) PROVE ExchangeInv'
  <2>1. exchange[t] \in Exchanges
    BY DEF ExchangeInv
  <2>2. PICK outcome \in {"ok", "TrackerFailure"} :
          exchange' = [exchange EXCEPT ![t] = Over(exchange[t], outcome)]
    BY <1>7 DEF HttpAnswer, Becomes
  <2>3. t \notin Udp
    BY <1>7 DEF HttpAnswer, ExchangeInv, Believed
  <2>4. Over(exchange[t], outcome) \in Exchanges
    BY <1>7, <2>1, <2>2, OverTyped DEF HttpAnswer, Outcomes
  <2> QED
    BY <2>2, <2>3, <2>4, <1>becomes
<1>8. ASSUME NEW t \in Trackers, Report(t) \/ Abort(t) PROVE ExchangeInv'
  BY <1>8, <1>becomes, NoExchangeBelieved DEF Report, Abort
<1>9. CASE UNCHANGED allVars
  BY <1>9, <1>same DEF allVars, actors
<1> QED
  BY <1>1, <1>2, <1>3, <1>4, <1>5, <1>6, <1>7, <1>8, <1>9 DEF AnnouncesNext

\* However packets of the two requests are lost, late or doubled, what passes for
\* the tracker's answer was its answer to the request that was out.
THEOREM NoStrayAnswer == AnnouncesSpec => []AnswersBelonged
<1>1. AnnouncesInit => ExchangeInv
  BY NoExchangeBelieved, AnnouncesAssumption DEF AnnouncesInit, ExchangeInv
<1>2. ExchangeInv => AnswersBelonged
  BY DEF ExchangeInv, AnswersBelonged, Believed
<1> QED
  BY <1>1, <1>2, StepExchange, PTL DEF AnnouncesSpec

(***************************************************************************)
(* Queues, reports and deadlines.                                          *)
(***************************************************************************)

Queued == \A t \in Trackers : exchange[t].step # "none" => tasks[t] # <<>>

HubTyped ==
  /\ running \in BOOLEAN /\ seed \in BOOLEAN /\ announced \subseteq Events
  /\ tasks \in [Trackers -> Seq(Events)]
  /\ reports \in Seq([ok : BOOLEAN, interval : Intervals])
  /\ deadline \in {Unarmed} \cup 0 .. MaxInterval
  /\ dhtLeft \in {Unarmed} \cup 0 .. DhtPeriod

SessionTyped == HubTyped /\ Queued

LEMMA SendTyped ==
  ASSUME SessionTyped, NEW events \in Seq(Events), SendAnnounces(events)
  PROVE  tasks' \in [Trackers -> Seq(Events)] /\ announced' \subseteq Events /\ Queued'
<1>1. ASSUME NEW t \in Trackers
      PROVE  /\ tasks'[t] = tasks[t] \o events /\ tasks'[t] \in Seq(Events)
             /\ tasks[t] # <<>> => tasks'[t] # <<>>
  <2>1. tasks'[t] = tasks[t] \o events /\ tasks[t] \in Seq(Events)
    BY DEF SendAnnounces, SessionTyped, HubTyped
  <2>2. tasks'[t] \in Seq(Events) /\ Len(tasks'[t]) = Len(tasks[t]) + Len(events)
    BY <2>1
  <2>3. Len(tasks[t]) \in Nat /\ Len(events) \in Nat
    BY <2>1
  <2>4. tasks[t] # <<>> => Len(tasks[t]) # 0
    BY <2>1
  <2>5. tasks'[t] = <<>> => Len(tasks'[t]) = 0
    OBVIOUS
  <2> QED
    BY <2>1, <2>2, <2>3, <2>4, <2>5
<1>2. tasks' \in [Trackers -> Seq(Events)]
  BY <1>1 DEF SendAnnounces
<1>3. announced' \subseteq Events
  <2>1. \A i \in DOMAIN events : events[i] \in Events
    OBVIOUS
  <2> QED
    BY <2>1 DEF SendAnnounces, SessionTyped, HubTyped
<1>4. Queued'
  BY <1>1 DEF SendAnnounces, SessionTyped, Queued
<1> QED
  BY <1>2, <1>3, <1>4

LEMMA DhtAfterTyped ==
  ASSUME SessionTyped, NEW now PROVE DhtAfter(now) \in {Unarmed} \cup 0 .. DhtPeriod
  BY AnnouncesAssumption DEF DhtAfter, SessionTyped, HubTyped

\* A number of ticks that goes down stays a number of ticks.
LEMMA LeftTyped ==
  ASSUME NEW bound \in Nat, NEW n \in {Unarmed} \cup 0 .. bound
  PROVE  Left(n) \in {Unarmed} \cup 0 .. bound
  BY DEF Left, Unarmed

\* Whatever a tracker asks for, the next announce is planned between the limits.
LEMMA NextAnnounceTyped ==
  ASSUME NEW report \in [ok : BOOLEAN, interval : Intervals]
  PROVE  NextAnnounce(report) \in 0 .. MaxInterval
<1>1. report.interval \in Nat
  BY AnnouncesAssumption
<1> QED
  BY <1>1, AnnouncesAssumption DEF NextAnnounce, Clamp

LEMMA EndTyped ==
  ASSUME SessionTyped, NEW events \in Seq(Events), EndsWith(events)
  PROVE  SessionTyped'
<1>1. events \o <<"Stopped">> \in Seq(Events)
  BY DEF Events
<1>2. tasks' \in [Trackers -> Seq(Events)] /\ announced' \subseteq Events /\ Queued'
  BY <1>1, SendTyped DEF EndsWith
<1>3. reports' \in Seq([ok : BOOLEAN, interval : Intervals])
  <2>1. reports' = <<>>
    BY DEF EndsWith
  <2> QED
    BY <2>1, EmptySeq
<1>4. running' \in BOOLEAN /\ seed' \in BOOLEAN
  BY Zenon DEF EndsWith, SessionTyped, HubTyped
<1> QED
  BY <1>2, <1>3, <1>4 DEF EndsWith, SessionTyped, HubTyped

LEMMA SeedTyped ==
  ASSUME SessionTyped, NEW events \in Seq(Events), SeedsWith(events)
  PROVE  SessionTyped'
<1>1. tasks' \in [Trackers -> Seq(Events)] /\ announced' \subseteq Events /\ Queued'
  BY SendTyped DEF SeedsWith
<1>2. DhtPeriod \in 0 .. DhtPeriod
  BY AnnouncesAssumption
<1> QED
  BY <1>1, <1>2 DEF SeedsWith, SessionTyped, HubTyped

LEMMA FinishedTyped ==
  ASSUME SessionTyped, NEW events \in Seq(Events), Finished(events)
  PROVE  SessionTyped'
<1>1. events \o <<"Completed">> \in Seq(Events) /\ events \o <<"Completed", "Completed">> \in Seq(Events)
  BY DEF Events
<1> QED
  BY <1>1, EndTyped, SeedTyped DEF Finished

LEMMA StepTyped == SessionTyped /\ ExchangeInv /\ [AnnouncesNext]_allVars => SessionTyped'
<1> SUFFICES ASSUME SessionTyped, ExchangeInv, [AnnouncesNext]_allVars PROVE SessionTyped'
  OBVIOUS
<1>events. /\ <<>> \in Seq(Events) /\ <<"Started">> \in Seq(Events)
           /\ <<"Periodic">> \in Seq(Events)
  BY DEF Events
<1>same. ASSUME UNCHANGED <<running, seed, announced, tasks, exchange>>,
                reports' \in Seq([ok : BOOLEAN, interval : Intervals]),
                deadline' \in {Unarmed} \cup 0 .. MaxInterval,
                dhtLeft' \in {Unarmed} \cup 0 .. DhtPeriod
         PROVE  SessionTyped'
  BY <1>same DEF SessionTyped, HubTyped, Queued
<1>begins. ASSUME NEW t \in Trackers, NEW x, Becomes(t, x), tasks[t] # <<>> PROVE SessionTyped'
  <2>1. exchange \in [Trackers -> Exchanges]
    BY DEF ExchangeInv
  <2>2. \A u \in Trackers : u # t => exchange'[u] = exchange[u]
    BY <1>begins, <2>1 DEF Becomes
  <2>3. Queued'
    BY <1>begins, <2>2 DEF Becomes, SessionTyped, Queued
  <2> QED
    BY <1>begins, <2>3 DEF Becomes, hubVars, SessionTyped, HubTyped
<1>1. CASE Passes
  <2>1. MaxInterval \in Nat /\ DhtPeriod \in Nat
    BY AnnouncesAssumption
  <2>2. deadline' \in {Unarmed} \cup 0 .. MaxInterval /\ dhtLeft' \in {Unarmed} \cup 0 .. DhtPeriod
    BY <1>1, <2>1, LeftTyped DEF Passes, SessionTyped, HubTyped
  <2> QED
    BY <1>1, <1>same, <2>2 DEF Passes, actors, SessionTyped, HubTyped
<1>2. CASE Turn \/ Quiet
  BY <1>2, <1>same, DhtAfterTyped DEF Turn, Quiet, actors, SessionTyped, HubTyped
<1>3. CASE Paused
  BY <1>3, <1>same DEF Paused, hubVars, actors, SessionTyped, HubTyped
<1>4. CASE LastPieceWritten
  BY <1>4, <1>events, FinishedTyped DEF LastPieceWritten
<1>5. CASE RecheckFinished
  <2>1. CASE Finished(<<"Started">>)
    BY <2>1, <1>events, FinishedTyped
  <2>2. CASE SeedsWith(<<"Started">>)
    BY <2>2, <1>events, SeedTyped
  <2>3. CASE SendAnnounces(<<"Started">>) /\ UNCHANGED <<running, seed, deadline, dhtLeft, reports>>
    <3>1. tasks' \in [Trackers -> Seq(Events)] /\ announced' \subseteq Events /\ Queued'
      BY <2>3, <1>events, SendTyped
    <3> QED
      BY <2>3, <3>1 DEF SessionTyped, HubTyped
  <2> QED
    BY <1>5, <2>1, <2>2, <2>3 DEF RecheckFinished
<1>6. CASE AnnounceDue
  <2>1. tasks' \in [Trackers -> Seq(Events)] /\ announced' \subseteq Events /\ Queued'
    BY <1>6, <1>events, SendTyped DEF AnnounceDue
  <2>2. dhtLeft' \in {Unarmed} \cup 0 .. DhtPeriod
    BY <1>6, DhtAfterTyped DEF AnnounceDue
  <2> QED
    BY <1>6, <2>1, <2>2 DEF AnnounceDue, SessionTyped, HubTyped
<1>7. CASE HandleReport
  <2>1. reports \in Seq([ok : BOOLEAN, interval : Intervals]) /\ reports # <<>>
    BY <1>7 DEF HandleReport, SessionTyped, HubTyped
  <2>2. /\ Head(reports) \in [ok : BOOLEAN, interval : Intervals]
        /\ Tail(reports) \in Seq([ok : BOOLEAN, interval : Intervals])
    BY <2>1, HeadTailProperties
  <2>3. deadline' \in {Unarmed} \cup 0 .. MaxInterval
    BY <1>7, <2>2, NextAnnounceTyped DEF HandleReport
  <2>4. dhtLeft' \in {Unarmed} \cup 0 .. DhtPeriod
    BY <1>7, DhtAfterTyped DEF HandleReport
  <2> QED
    BY <1>7, <1>same, <2>2, <2>3, <2>4 DEF HandleReport
<1>8. CASE Stop \/ IdleEnd
  BY <1>8, <1>events, EndTyped DEF Stop, IdleEnd
<1>9. ASSUME NEW t \in Trackers, Begin(t) PROVE SessionTyped'
  BY <1>9, <1>begins DEF Begin
<1>10. ASSUME NEW t \in Trackers, Fails(t) \/ Receive(t) \/ Expire(t) \/ HttpAnswer(t)
       PROVE  SessionTyped'
  <2>1. exchange[t].step # "none"
    BY <1>10 DEF Fails, Receive, Expire, HttpAnswer, Replies, Requests
  <2>2. tasks[t] # <<>>
    BY <2>1 DEF SessionTyped, Queued
  <2>3. PICK x : Becomes(t, x)
    BY <1>10 DEF Fails, Receive, Expire, HttpAnswer
  <2> QED
    BY <2>2, <2>3, <1>begins
<1>11. ASSUME NEW t \in Trackers, NEW rest \in Seq(Events), tasks' = [tasks EXCEPT ![t] = rest],
              exchange' = [exchange EXCEPT ![t] = NoExchange], UNCHANGED hubVars,
              reports' \in Seq([ok : BOOLEAN, interval : Intervals])
       PROVE  SessionTyped'
  <2>1. exchange \in [Trackers -> Exchanges] /\ tasks \in [Trackers -> Seq(Events)]
    BY DEF ExchangeInv, SessionTyped, HubTyped
  <2>2. tasks' \in [Trackers -> Seq(Events)]
    BY <1>11, <2>1
  <2>3. /\ \A u \in Trackers : u # t => exchange'[u] = exchange[u] /\ tasks'[u] = tasks[u]
        /\ exchange'[t].step = "none"
    BY <1>11, <2>1 DEF NoExchange
  <2>4. Queued'
    BY <2>3 DEF SessionTyped, Queued
  <2> QED
    BY <1>11, <2>2, <2>4 DEF hubVars, SessionTyped, HubTyped
<1>12. ASSUME NEW t \in Trackers, Report(t) PROVE SessionTyped'
  <2>1. tasks[t] \in Seq(Events) /\ tasks[t] # <<>>
    BY <1>12 DEF Report, SessionTyped, HubTyped, Queued
  <2>2. Tail(tasks[t]) \in Seq(Events)
    BY <2>1
  <2>3. reports' \in Seq([ok : BOOLEAN, interval : Intervals])
    <3> DEFINE R == [ok : BOOLEAN, interval : Intervals]
               new(n) == [ok |-> exchange[t].outcome = "ok", interval |-> n]
    <3>1. PICK interval \in Intervals : reports' = Append(reports, new(interval)) \/ reports' = reports
      BY <1>12, Zenon DEF Report
    <3>2. new(interval) \in R
      OBVIOUS
    <3>3. reports \in Seq(R)
      BY DEF SessionTyped, HubTyped
    <3> HIDE DEF R, new
    <3>4. reports' \in Seq(R)
      BY <3>1, <3>2, <3>3, AppendProperties
    <3> QED
      BY <3>4 DEF R
  <2> QED
    BY <1>11, <1>12, <2>2, <2>3 DEF Report
<1>13. ASSUME NEW t \in Trackers, Abort(t) PROVE SessionTyped'
  BY <1>11, <1>13, <1>events DEF Abort, SessionTyped, HubTyped
<1>14. CASE UNCHANGED allVars
  BY <1>14, <1>same DEF allVars, hubVars, actors, SessionTyped, HubTyped
<1> QED
  BY <1>1, <1>2, <1>3, <1>4, <1>5, <1>6, <1>7, <1>8, <1>9, <1>10, <1>12, <1>13, <1>14
  DEF AnnouncesNext

\* The queues of the trackers' actors, their reports and the two deadlines keep
\* their types: an exchange is always that of the first announce in the queue, and
\* no interval that a tracker asks for moves the next announce out of the limits.
THEOREM AnnouncesTyped == AnnouncesSpec => []AnnouncesTypeOK
<1>1. AnnouncesInit => Inv /\ ExchangeInv /\ SessionTyped
  <2> SUFFICES ASSUME AnnouncesInit PROVE Inv /\ ExchangeInv /\ SessionTyped
    OBVIOUS
  <2>1. Inv
    BY InitInv DEF AnnouncesInit
  <2>2. ExchangeInv
    BY NoExchangeBelieved, AnnouncesAssumption DEF AnnouncesInit, ExchangeInv
  <2>3. SessionTyped
    BY DEF AnnouncesInit, SessionTyped, HubTyped, Queued, NoExchange
  <2> QED
    BY <2>1, <2>2, <2>3
<1>2. Inv /\ [AnnouncesNext]_allVars => Inv'
  BY NextInv, StepIsIdle
<1>3. Inv /\ ExchangeInv /\ SessionTyped => AnnouncesTypeOK
  BY DEF Inv, ExchangeInv, SessionTyped, HubTyped, Queued, AnnouncesTypeOK
<1> QED
  BY <1>1, <1>2, <1>3, StepExchange, StepTyped, PTL DEF AnnouncesSpec
=============================================================================
