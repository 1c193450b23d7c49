------------------------------- MODULE Choking -------------------------------
(***************************************************************************)
(* Who may download from us: ChokeManager (crates/engine/src/choke.rs),    *)
(* which slides a window of slots over the interested peers, and the hub's *)
(* use of it (crates/engine/src/session.rs): recomputed by a timer and     *)
(* whenever a peer changes its interest, never when a peer leaves.         *)
(*                                                                         *)
(* The manager is given the interested peers in the iteration order of the *)
(* hash map of links.  Removing a key leaves the order of the others,      *)
(* inserting one may rehash the map into any order.                        *)
(***************************************************************************)
EXTENDS SequencesExt

CONSTANTS
  Handles,      \* addresses of remote peers
  MaxUnchoked,  \* MAX_UNCHOKED
  CursorSize    \* values of the cursor, a wrapping usize: 2^64 in the code

ASSUME ChokingAssumption ==
  /\ IsFiniteSet(Handles)
  /\ MaxUnchoked \in Nat \ {0}
  /\ CursorSize \in Nat \ {0}

VARIABLES
  order,       \* Hub.peers, in iteration order
  interested,  \* links that asked for data (PeerLink.interested)
  served,      \* links that we told to be unchoked (not PeerLink.our_choke)
  slots,       \* ChokeManager.unchoked
  cursor,      \* ChokeManager.cursor
  left         \* addresses that disconnected at some time

vars == <<order, interested, served, slots, cursor, left>>

Links == Range(order)

Init ==
  /\ order = <<>> /\ interested = {} /\ served = {}
  /\ slots = {} /\ cursor = 0 /\ left = {}

-----------------------------------------------------------------------------
(***************************************************************************)
(* recompute.                                                              *)
(***************************************************************************)

\* The list without all that is not in kept; the rest stays in its order.
Only(list, kept) ==
  LET upTo[n \in 0 .. Len(list)] ==
        IF n = 0 THEN <<>>
        ELSE IF list[n] \in kept THEN Append(upTo[n - 1], list[n]) ELSE upTo[n - 1]
  IN  upTo[Len(list)]

\* The window of the list that starts at the cursor and wraps around.
Window(list) ==
  LET n == Len(list)
      taken == {i \in 0 .. MaxUnchoked - 1 : i < n}
  IN  {list[((cursor + i) % n) + 1] : i \in taken}

Chosen(list) == IF list = <<>> THEN {} ELSE Window(list)

\* Mutants: the cursor does not move; it does not wrap.
AdvanceStuck(n) == cursor
AdvanceUnwrapped(n) == IF cursor < CursorSize THEN cursor + Max({n, 1}) ELSE 0

\* The window moves by its length, and by one when nobody is interested.
Advance(n) == (cursor + Max({n, 1})) % CursorSize

\* Mutant: the manager forgets those that stay unchoked.
SlotsAfterNew(chosen) == chosen \ slots

SlotsAfter(chosen) == chosen

\* recompute_chokes after a handler that set order' and interested': only the
\* changes of the manager's set are sent.
Recompute ==
  LET chosen == Chosen(Only(order', interested'))
  IN  /\ slots' = SlotsAfter(chosen)
      /\ cursor' = Advance(Cardinality(chosen))
      /\ served' = (served \cup (chosen \ slots)) \ (slots \ chosen)

-----------------------------------------------------------------------------
\* A new link is choked and not interested.
Connected(h) ==
  /\ h \notin Links
  /\ order' \in SetToSeqs(Links \cup {h})
  /\ UNCHANGED <<interested, served, slots, cursor, left>>

\* The link goes with its flags; the manager is not told.
Disconnected(h) ==
  /\ h \in Links
  /\ order' = Only(order, Links \ {h})
  /\ interested' = interested \ {h}
  /\ served' = served \ {h}
  /\ left' = left \cup {h}
  /\ UNCHANGED <<slots, cursor>>

Interested(h) ==
  /\ h \in Links
  /\ interested' = interested \cup {h}
  /\ UNCHANGED <<order, left>>
  /\ Recompute

NotInterested(h) ==
  /\ h \in Links
  /\ interested' = interested \ {h}
  /\ UNCHANGED <<order, left>>
  /\ Recompute

\* The choke timer.
Tick ==
  /\ UNCHANGED <<order, interested, left>>
  /\ Recompute

Next ==
  \/ \E h \in Handles : Connected(h)
  \/ \E h \in Handles : Disconnected(h)
  \/ \E h \in Handles : Interested(h)
  \/ \E h \in Handles : NotInterested(h)
  \/ Tick

\* The timer of the session loop fires again and again.
Spec == Init /\ [][Next]_vars /\ WF_vars(Tick)

-----------------------------------------------------------------------------
\* Types of the variables; flags exist only for links.
TypeOK ==
  /\ order \in Seq(Handles) /\ IsInjective(order)
  /\ interested \subseteq Links
  /\ served \subseteq Links
  /\ slots \subseteq Handles
  /\ cursor \in 0 .. CursorSize - 1
  /\ left \subseteq Handles

\* Never more peers are told to be unchoked than there are slots: what was sent
\* piecemeal, as differences, adds up whatever connects and leaves in between.
ServedWithinSlots == Cardinality(served) <= MaxUnchoked

\* A peer that we serve holds a slot: only then will the manager choke it when
\* its turn is over.
ServedHoldSlots == served \subseteq slots

\* Once peers stop coming, leaving and changing their interest, every interested
\* one gets a turn again and again: the window skips nobody, even where the
\* cursor wraps around.  Except those that left and came back: the manager may
\* take such a peer for unchoked already and never tell it.
Settled == <>[][UNCHANGED <<order, interested>>]_vars

TurnsComeRound == Settled => \A h \in Handles : []<>(h \in interested \ left => h \in served)
=============================================================================
