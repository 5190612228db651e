-------------------------- MODULE OwnershipPromise --------------------------
(***************************************************************************)
(* What the subscription ledger promises about ownership, without saying   *)
(* how: a transaction is recorded for one owner, all the transactions of a *)
(* subscription have that owner, a guest hands everything it owns to the   *)
(* account that claims it in one step, and nothing else ever moves a       *)
(* transaction, except that deleting an account deletes what it owns.      *)
(* The promise for src/app/guest_subscriptions.py, apple_subscriptions.py  *)
(* and the deletion of accounts in main.py.                                *)
(***************************************************************************)
CONSTANTS Users, Guests,  \* accounts and anonymous guest identities
          Tx,             \* Apple transaction ids
          Original,       \* Original[t] is t's original transaction id
          Nobody          \* SQL's NULL

VARIABLES live,      \* accounts that exist
          claimedBy, \* claimedBy[g] is the account that claimed g, or Nobody
          owner      \* owner[t] is the owner of t's row, Nobody without a row

vars == <<live, claimedBy, owner>>

Owners == Users \cup Guests

Siblings(t) == {s \in Tx : Original[s] = Original[t]}
OwnedBy(o)  == {t \in Tx : owner[t] = o}

MayOwn(o) == o \in live \/ (o \in Guests /\ claimedBy[o] = Nobody)

Init ==
  /\ live = Users
  /\ claimedBy = [g \in Guests |-> Nobody]
  /\ owner = [t \in Tx |-> Nobody]

Record(t, o) ==
  /\ owner[t] = Nobody
  /\ MayOwn(o)
  /\ \A s \in Siblings(t) : owner[s] \in {o, Nobody}
  /\ owner' = [owner EXCEPT ![t] = o]
  /\ UNCHANGED <<live, claimedBy>>

Claim(g, u) ==
  /\ u \in live
  /\ claimedBy[g] = Nobody
  /\ OwnedBy(g) # {}
  /\ claimedBy' = [claimedBy EXCEPT ![g] = u]
  /\ owner' = [t \in Tx |-> IF owner[t] = g THEN u ELSE owner[t]]
  /\ UNCHANGED live

Delete(u) ==
  /\ u \in live
  /\ live' = live \ {u}
  /\ claimedBy' = [g \in Guests |-> IF claimedBy[g] = u
                                      THEN Nobody ELSE claimedBy[g]]
  /\ owner' = [t \in Tx |-> IF owner[t] = u THEN Nobody ELSE owner[t]]

Next ==
  \/ \E t \in Tx, o \in Owners : Record(t, o)
  \/ \E g \in Guests, u \in Users : Claim(g, u)
  \/ \E u \in Users : Delete(u)

Spec == Init /\ [][Next]_vars
=============================================================================
