--------------------------- MODULE AppleEconomics ---------------------------
(***************************************************************************)
(* Pure operators of src/app/apple_subscriptions.py: how one row of the    *)
(* table apple_transactions absorbs one verified Apple transaction.        *)
(*                                                                         *)
(* Instants are natural numbers and Unset (0) is SQL's NULL.  Columns no   *)
(* decision depends on (product, storefront, offer, reason texts) are left *)
(* out; revocation_date is kept as the Boolean "is not NULL".              *)
(***************************************************************************)
EXTENDS Naturals

Unset   == 0
NoPrice == "no price"

NoAdjustment == "none"
Adjustments  == {"refund", "revoke", "refund_reversed", "revocation_unknown"}

\* APPLE_ECONOMIC_ADJUSTMENT_PRIORITY
Priority == [none |-> 0, refund_reversed |-> 1, revocation_unknown |-> 2,
             refund |-> 3, revoke |-> 4]

\* Mutated: the last adjustment wins, a revoke is forgotten.
LastAdjustment(current, incoming) == incoming

NextAdjustment(current, incoming) ==
  IF "revoke" \in {current, incoming} THEN "revoke"
  ELSE IF incoming = "refund" THEN "refund"
  ELSE IF current # "refund" THEN "revocation_unknown"
  ELSE IF incoming = "refund_reversed" THEN "refund_reversed"
  ELSE "refund"

\* The four cases of reduce_apple_economic_adjustment: nothing incoming,
\* incoming signed before, at, or after the watermark of the row.
Reduce(current, at, incoming, incomingAt) ==
  LET result(adjustment, watermark, accepted, changed) ==
        [adjustment |-> adjustment, at |-> watermark,
         accepted |-> accepted, changed |-> changed]
      rejected == result(current, at, FALSE, FALSE)
      next     == NextAdjustment(current, incoming)
  IN IF incoming = NoAdjustment THEN rejected
     ELSE IF at # Unset /\ incomingAt < at
       THEN IF incoming = "revoke" /\ current # "revoke"
              THEN result("revoke", at, TRUE, TRUE) ELSE rejected
     ELSE IF at # Unset /\ incomingAt = at
       THEN IF incoming = current THEN result(current, at, TRUE, FALSE)
            ELSE IF Priority[next] > Priority[current]
              THEN result(next, at, TRUE, TRUE) ELSE rejected
     ELSE result(next, incomingAt, TRUE, next # current \/ incomingAt # at)

-----------------------------------------------------------------------------
(***************************************************************************)
(* A message tx is a verified AppleTransaction and a row what is stored.   *)
(***************************************************************************)

\* apply_incoming_revocation: the payload decides the revocation columns.
AppliesRevocation(row, tx, reduction) ==
  /\ reduction.accepted
  /\ \/ tx.adjustment = "refund" /\ reduction.adjustment = "refund"
     \/ tx.adjustment = "revoke" /\ reduction.adjustment = "revoke"
     \/ /\ tx.adjustment = "refund_reversed"
        /\ row.adjustment = "refund"
        /\ reduction.adjustment = "refund_reversed"

\* Mutated: only incoming adjustments preserve a stored revocation.
PreservesFromAdjustments(row, tx, reduction) ==
  ~AppliesRevocation(row, tx, reduction) /\ tx.adjustment # NoAdjustment

\* preserve_persisted_revocation: the stored revocation columns stay.
PreservesRevocation(row, tx, reduction) ==
  /\ ~AppliesRevocation(row, tx, reduction)
  /\ \/ tx.adjustment # NoAdjustment
     \/ row.adjustment \in {"refund", "revoke", "revocation_unknown"}

\* Mutated: a context signed before the stored one is accepted too.
AcceptsAnyContext(row, tx, reduction) ==
  tx.adjustment = NoAdjustment \/ reduction.accepted

AcceptsContext(row, tx, reduction) ==
  /\ tx.adjustment = NoAdjustment \/ reduction.accepted
  /\ tx.signed # Unset
  /\ row.signed = Unset \/ tx.signed > row.signed

Coalesce(new, old) == IF new # Unset THEN new ELSE old

\* The general UPDATE of an existing row.
UpdateContext(row, tx, reduction) ==
  IF ~AcceptsContext(row, tx, reduction) THEN row
  ELSE [row EXCEPT
          !.signed  = tx.signed,
          !.expires = Coalesce(tx.expires, @),
          !.grace   = tx.grace,
          !.revoked = IF PreservesRevocation(row, tx, reduction)
                        THEN @ ELSE tx.revoked]

\* Mutated: the newest price wins.
UpdateToNewestEvidence(row, tx) ==
  IF tx.price # NoPrice /\ tx.pricedAt > row.pricedAt
    THEN [row EXCEPT !.price = tx.price, !.pricedAt = tx.pricedAt]
    ELSE row

\* Price evidence: the first pair wins, the same pair only moves its date.
UpdateEvidence(row, tx) ==
  IF tx.price = NoPrice THEN row
  ELSE IF row.price = NoPrice
    THEN [row EXCEPT !.price = tx.price, !.pricedAt = tx.pricedAt]
  ELSE IF row.price = tx.price /\ tx.pricedAt > row.pricedAt
    THEN [row EXCEPT !.pricedAt = tx.pricedAt]
  ELSE row

UpdateAdjustment(row, applies, tx, reduction) ==
  IF ~reduction.changed THEN row
  ELSE [row EXCEPT !.adjustment = reduction.adjustment,
                   !.adjustedAt = reduction.at,
                   !.revoked    = IF applies THEN tx.revoked ELSE @]

\* _save_apple_transaction on an existing row: the three updates in order,
\* all decided by the reduction computed from the row as it was read.
SaveExisting(row, tx) ==
  LET reduction == Reduce(row.adjustment, row.adjustedAt,
                          tx.adjustment, tx.adjustedAt)
      applies   == AppliesRevocation(row, tx, reduction)
  IN UpdateAdjustment(UpdateEvidence(UpdateContext(row, tx, reduction), tx),
                      applies, tx, reduction)

\* _save_apple_transaction on a new row: the INSERT.
SaveNew(tx) ==
  LET reduction == Reduce(NoAdjustment, Unset, tx.adjustment, tx.adjustedAt)
  IN [signed |-> tx.signed, expires |-> tx.expires, grace |-> tx.grace,
      revoked |-> tx.revoked, price |-> tx.price, pricedAt |-> tx.pricedAt,
      adjustment |-> reduction.adjustment, adjustedAt |-> reduction.at]

\* derive_apple_creator_economic_state: "refunded" also stands for revoked,
\* "unknown" for what has no economic value, and a price for evidence of a
\* purchase that was paid.
EconomicStatus(row) ==
  IF row.adjustment \in {"refund", "revoke"} THEN "refunded"
  ELSE IF row.price = NoPrice \/ row.adjustment = "revocation_unknown"
    THEN "unknown"
  ELSE "confirmed"

\* The WHERE clause of get_active_subscription_for_user.
Entitled(row, now) ==
  /\ ~row.revoked
  /\ row.expires = Unset \/ row.expires > now
                         \/ (row.grace # Unset /\ row.grace > now)
=============================================================================
