----------------------------- MODULE MCAnnounces -----------------------------
(* A small instance of Announces for TLC. *)
EXTENDS Announces
=============================================================================
