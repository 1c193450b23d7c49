--------------------------- MODULE MCPieceManager ---------------------------
(* Small instances of PieceManager for TLC. *)
EXTENDS PieceManager, TLC

Symmetry == Permutations(Peers)
=============================================================================
