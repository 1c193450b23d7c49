------------------------------- MODULE MCDht --------------------------------
(* A small instance of Dht for TLC. *)
EXTENDS Dht

CONSTANTS n1, n2, n3, n4, x, y, w

\* A node at x that chose another id, and one that moved from y to w.
MCAddrOf == [n \in Nodes |-> CASE n \in {n1, n3} -> x [] n = n2 -> y [] n = n4 -> w]

MCIdOf ==
  [n \in Nodes |-> CASE n = n1 -> {0} [] n = n2 -> {2} [] n = n3 -> {2, 1} [] n = n4 -> {2}]

MCHashes == {{2}}

MCSeeds == <<w, y>>
=============================================================================
