------------------------- MODULE MCOwnershipLocking -------------------------
(* Instances of OwnershipLocking for TLC. *)
EXTENDS OwnershipLocking, TLC
CONSTANTS t1

\* t1 is of one subscription, the other transactions are of a second one.
TwoSubscriptions == [t \in Tx |-> IF t = t1 THEN 1 ELSE 2]

Symmetry == Permutations(Users) \cup Permutations(Guests)
              \cup Permutations(Workers)
=============================================================================
