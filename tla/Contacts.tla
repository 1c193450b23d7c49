------------------------------ MODULE Contacts ------------------------------
(***************************************************************************)
(* What the routing table promises to the actor: per bucket a set of at    *)
(* most K contacts with different ids, to which contacts are added while   *)
(* there is room and which nothing ever leaves.                            *)
(***************************************************************************)
EXTENDS FiniteSets, Integers

CONSTANTS
  Nodes, IdOf,
  Buckets,
  K,
  Home(_)   \* the bucket of a node

VARIABLE contacts

Init == contacts = [b \in Buckets |-> {}]

\* The contacts that one step adds go to their own bucket, under new ids.
Learn(added) ==
  LET next == [b \in Buckets |-> contacts[b] \cup {n \in added : Home(n) = b}]
  IN  /\ \A b \in Buckets :
           /\ Cardinality(next[b]) <= K
           /\ \A m, n \in next[b] : IdOf[m] = IdOf[n] => m = n
      /\ contacts' = next

Next == \E added \in SUBSET Nodes : Learn(added)

Spec == Init /\ [][Next]_contacts
=============================================================================
