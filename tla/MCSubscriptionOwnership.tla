---------------------- MODULE MCSubscriptionOwnership ----------------------
(* Instances of SubscriptionOwnership for TLC. *)
EXTENDS SubscriptionOwnership, TLC
CONSTANTS t2

\* Every transaction belongs to one subscription: a purchase and renewals.
OneSubscription == [t \in Tx |-> "original 1"]

\* t2 is the purchase of a second subscription.
TwoSubscriptions ==
  [t \in Tx |-> IF t = t2 THEN "original 2" ELSE "original 1"]

Symmetry == Permutations(Users) \cup Permutations(Guests)
=============================================================================
