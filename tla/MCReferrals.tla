----------------------------- MODULE MCReferrals -----------------------------
(* An instance of Referrals for TLC. *)
EXTENDS Referrals

\* Two users refer each other and one more user each.
Pairs == {<<2, 1>>, <<3, 1>>, <<1, 2>>, <<4, 2>>}
=============================================================================
