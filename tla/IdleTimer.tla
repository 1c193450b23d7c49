------------------------------ MODULE IdleTimer ------------------------------
(***************************************************************************)
(* The idle timer of session_loop (crates/engine/src/session.rs): a session*)
(* that gets nothing for IDLE_TIMEOUT ends with an error.  The timer runs  *)
(* from the start of the loop through all phases and pauses; phase and     *)
(* pause only guard the branch that fires, and the loop chooses at random  *)
(* among the branches that are ready, so it may also fire later.  Of the   *)
(* session the module keeps its phase and what moves the timer.            *)
(***************************************************************************)
EXTENDS Integers

CONSTANTS
  Timeout,  \* IDLE_TIMEOUT, in ticks
  Magnet    \* whether the session starts from a magnet link

ASSUME IdleTimerAssumption ==
  /\ Timeout \in Nat \ {0}
  /\ Magnet \in BOOLEAN

VARIABLES
  phase,   \* Hub.phase, or Ended after the timer has fired
  paused,  \* Hub.paused
  left,    \* ticks until the sleep `idle` is over
  quiet    \* ticks since the last valid piece or sign of life

vars == <<phase, paused, left, quiet>>

Phases == {"Metadata", "Recheck", "Download", "Seed"}

Init ==
  /\ phase = IF Magnet THEN "Metadata" ELSE "Recheck"
  /\ paused = FALSE /\ left = Timeout
  /\ quiet = 0

-----------------------------------------------------------------------------
\* Mutant: the timer stops with the metadata.
ArmedInMetadata == phase = "Metadata" /\ ~paused

\* The guard of the branch.
Armed == phase \in {"Download", "Metadata"} /\ ~paused

\* Mutant: the flag is never looked at.
RearmedNever == left

\* reset_idle, at the end of the turn of the loop in which it was set.
Rearmed == Timeout

Capped(n) == IF n < Timeout THEN n ELSE Timeout

\* Mutant: the sleep goes on after its end.
RemainingUnclamped == left - 1

Remaining == IF left = 0 THEN 0 ELSE left - 1

\* Time passes.
Tick ==
  /\ phase # "Ended"
  /\ left' = Remaining
  /\ quiet' = Capped(quiet + 1)
  /\ UNCHANGED <<phase, paused>>

LifeSign == left' = Rearmed /\ quiet' = 0

\* A peer's message while the metadata is fetched, or the last one needed.
PeerInMetadata(next) ==
  /\ phase = "Metadata" /\ next \in {"Metadata", "Recheck"}
  /\ phase' = next
  /\ LifeSign /\ UNCHANGED paused

RecheckDone(complete) ==
  /\ phase = "Recheck"
  /\ phase' = IF complete THEN "Seed" ELSE "Download"
  /\ UNCHANGED <<paused, left, quiet>>

\* The ack of a piece that was written: while the recheck runs, after it, or
\* when the recheck has found the rest.
PieceWritten(complete) ==
  /\ phase \in {"Recheck", "Download", "Seed"}
  /\ phase' = IF complete THEN "Seed" ELSE phase
  /\ LifeSign /\ UNCHANGED paused

Pause ==
  /\ phase # "Ended" /\ ~paused
  /\ paused' = TRUE
  /\ UNCHANGED <<phase, left, quiet>>

Resume ==
  /\ phase # "Ended" /\ paused
  /\ paused' = FALSE
  /\ UNCHANGED <<phase, left, quiet>>

\* The session ends with IdleTimeout.
Fire ==
  /\ left = 0 /\ Armed
  /\ phase' = "Ended"
  /\ UNCHANGED <<paused, left, quiet>>

Next ==
  \/ Tick
  \/ \E next \in Phases : PeerInMetadata(next)
  \/ \E complete \in BOOLEAN : RecheckDone(complete)
  \/ \E complete \in BOOLEAN : PieceWritten(complete)
  \/ Pause
  \/ Resume
  \/ Fire

\* Time passes, and a branch that stays ready is chosen sooner or later.
Spec == Init /\ [][Next]_vars /\ WF_vars(Tick) /\ WF_vars(Fire)

-----------------------------------------------------------------------------
\* Types of the variables.
TypeOK ==
  /\ phase \in Phases \cup {"Ended"}
  /\ paused \in BOOLEAN
  /\ left \in 0 .. Timeout
  /\ quiet \in 0 .. Timeout

\* The timer kills no session that got something within the timeout, whatever
\* phases and pauses it went through.
ProgressProtects == phase = "Ended" => quiet = Timeout
=============================================================================
