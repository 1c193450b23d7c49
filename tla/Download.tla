------------------------------ MODULE Download ------------------------------
(***************************************************************************)
(* What a session promises to its owner: every piece is accepted once, is  *)
(* written, and counts from the moment the disk has confirmed it; a piece  *)
(* found in the files counts at once.  The session reports Completed only  *)
(* when no piece is missing.  Pieces that were accepted reach the files    *)
(* even after the end, unless a write fails.                               *)
(***************************************************************************)
CONSTANT Pieces

VARIABLES
  have,    \* pieces that are told to peers and to the user
  coming,  \* pieces accepted from peers, not confirmed yet
  files,   \* pieces whose right bytes are in the files
  result   \* how the session ended, or "no"

vars == <<have, coming, files, result>>

Init ==
  /\ have = {} /\ coming = {}
  /\ files \in SUBSET Pieces
  /\ result = "no"

Running == result = "no"

\* The data of a piece passed its hash check.
Accept(p) ==
  /\ Running
  /\ p \notin have \cup coming
  /\ coming' = coming \cup {p}
  /\ UNCHANGED <<have, files, result>>

Write(p) ==
  /\ p \in coming
  /\ files' = files \cup {p}
  /\ UNCHANGED <<have, coming, result>>

\* The last piece may end the session.
Confirm(p) ==
  /\ Running
  /\ p \in coming \cap files
  /\ coming' = coming \ {p}
  /\ have' = have \cup {p}
  /\ result' = result \/ (result' = "Completed" /\ have' = Pieces)
  /\ UNCHANGED files

Find(p) ==
  /\ Running
  /\ p \in files
  /\ have' = have \cup {p}
  /\ UNCHANGED <<coming, files, result>>

\* The disk refused a piece.
Fail(p) ==
  /\ Running
  /\ p \in coming
  /\ coming' = coming \ {p}
  /\ result' = "Failed"
  /\ UNCHANGED <<have, files>>

\* The recheck has found what was missing, or the owner or the idle timer ends
\* the session.
End ==
  /\ Running
  /\ result' \in {"Completed", "Shutdown", "Idle"}
  /\ result' = "Completed" => have \cup coming = Pieces
  /\ UNCHANGED <<have, coming, files>>

Next ==
  \/ \E p \in Pieces : Accept(p)
  \/ \E p \in Pieces : Write(p)
  \/ \E p \in Pieces : Confirm(p)
  \/ \E p \in Pieces : Find(p)
  \/ \E p \in Pieces : Fail(p)
  \/ End

Spec == Init /\ [][Next]_vars
=============================================================================
