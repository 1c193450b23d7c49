------------------------------- MODULE MCLinks -------------------------------
(* Small instances of Links for TLC. *)
EXTENDS Links

CONSTANTS me, a, b

Symmetry == Permutations({a, b})
=============================================================================
