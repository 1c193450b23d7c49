------------------------------ MODULE UdpTracker ------------------------------
(***************************************************************************)
(* One announce to a tracker (crates/tracker/src/udp.rs, lib.rs), as pure  *)
(* operators on the state of its exchange.  Over UDP the client connects,  *)
(* then announces, each with one request that it repeats; packets get lost *)
(* and arrive late or twice, so what was once sent may arrive at any time. *)
(* The connect and the announce have transaction ids of their own, which   *)
(* all copies share.  An HTTP announce is one request on one connection.   *)
(***************************************************************************)
EXTENDS Integers

CONSTANT MaxAttempts  \* MAX_ATTEMPTS

ASSUME UdpTrackerAssumption == MaxAttempts \in Nat \ {0}

Requests == {"connect", "announce"}

\* Replies: what was asked for, or an error with a long or a short text.
Answers == {"ok", "error", "short"}

Outcomes == {"ok", "TrackerFailure", "InvalidField", "Timeout", "Failed"}

\* step: the request that is out, or what the exchange is doing instead; of an
\* exchange that is over, last is the request that was out and got the reply
\* that was believed.
Exchanges ==
  [step : Requests \cup {"none", "http", "done"},
   last : Requests \cup {"none", "http"},
   attempt : 1 .. MaxAttempts,
   got : {<<>>} \cup (Requests \X Answers),
   outcome : Outcomes]

NoExchange ==
  [step |-> "none", last |-> "none", attempt |-> 1, got |-> <<>>, outcome |-> "Failed"]

\* announce: the transport follows the scheme of the URL.
Begun(udp) == [NoExchange EXCEPT !.step = IF udp THEN "connect" ELSE "http"]

Over(x, outcome) ==
  [step |-> "done", last |-> x.step, attempt |-> 1, got |-> <<>>, outcome |-> outcome]

\* What may arrive: some copy of each request may have reached the tracker, which
\* answers one like this and another one like that.
Replies(x) ==
  CASE x.step = "connect"  -> {"connect"} \X Answers
    [] x.step = "announce" -> Requests \X Answers
    [] OTHER -> {}

\* Nothing came in time: the same request again, up to MAX_ATTEMPTS.
Expired(x) ==
  IF x.attempt < MaxAttempts THEN [x EXCEPT !.attempt = @ + 1] ELSE Over(x, "Timeout")

\* Too short to be looked at: an announce answer has 20 bytes, a connect answer 16.
TooShort(x, reply) ==
  \/ reply[2] = "short"
  \/ x.step = "announce" /\ reply = <<"connect", "ok">>

\* Mutant: the transaction id is not compared.
MatchesAny(x, reply) == reply \in Replies(x)

\* response_header: transaction ids tell the two requests apart.
Matches(x, reply) == reply[1] = x.step

\* The first packet that arrives decides.
Received(x, reply) ==
  IF TooShort(x, reply) \/ ~ Matches(x, reply) THEN Over(x, "InvalidField")
  ELSE IF reply[2] = "error" THEN [Over(x, "TrackerFailure") EXCEPT !.got = reply]
  ELSE IF x.step = "connect" THEN [x EXCEPT !.step = "announce", !.attempt = 1]
  ELSE [Over(x, "ok") EXCEPT !.got = reply]
=============================================================================
