------------------------------ MODULE MCSession ------------------------------
(***************************************************************************)
(* Small instances of Session for TLC.  The runs differ only in the values *)
(* of the constants, which the .cfg files give.                            *)
(***************************************************************************)
EXTENDS Session
=============================================================================
