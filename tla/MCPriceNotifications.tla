------------------------ MODULE MCPriceNotifications ------------------------
(* Instances of PriceNotifications for TLC. *)
EXTENDS PriceNotifications, TLC
Symmetry == Permutations(Workers) \cup Permutations(Devices)
=============================================================================
