------------------------------ MODULE MCUpload -------------------------------
(* A small instance of Upload for TLC. *)
EXTENDS Upload

\* A piece over three files, one of them empty, and a shorter last piece.
MCFileLengths == <<1, 0, 2>>
=============================================================================
