-------------------------- MODULE AppleLedgerProofs --------------------------
(***************************************************************************)
(* Proofs about AppleLedger, for any bounds on time and payloads and any   *)
(* prices: types, the reduction of adjustments, that a processed revoke    *)
(* decides the row, that a refund holds until a newer reversal, and that   *)
(* the watermarks of a row only grow.                                      *)
(***************************************************************************)
EXTENDS AppleLedger, TLAPS

Incoming == {"refund", "revoke", "refund_reversed"}
Recorded == Adjustments \cup {NoAdjustment}

\* What Apple's payloads always satisfy.
PayloadsConsistent ==
  \A m \in sent : /\ m.adjustment \in Adverse => m.revoked
                  /\ m.adjustment # NoAdjustment => m.adjustedAt = m.signed

\* Only a row stored from a payload exists.
RowFromPayload == (row = NoRow) <=> (delivered = {})

\* A row adjusted to a refund or a revocation is revoked.
AdverseRevoked == row # NoRow /\ row.adjustment \in Adverse => row.revoked

\* The watermark of a row is the newest adjustment processed; if one of the
\* adjustments signed then is adverse, the row is refunded or revoked.
WatermarkIsNewest ==
  /\ \A m \in delivered :
       m.adjustment # NoAdjustment =>
         /\ m.adjustedAt <= row.adjustedAt
         /\ m.adjustment \in Adverse /\ m.adjustedAt = row.adjustedAt
              => row.adjustment \in Adverse
  /\ row # NoRow /\ row.adjustment # NoAdjustment =>
       \E m \in delivered : /\ m.adjustment # NoAdjustment
                            /\ m.adjustedAt = row.adjustedAt
  /\ row # NoRow /\ row.adjustment = NoAdjustment => row.adjustedAt = Unset

IInv ==
  /\ TypeOK /\ PayloadsConsistent /\ RowFromPayload
  /\ AdverseRevoked /\ RevokeDecides /\ WatermarkIsNewest
-----------------------------------------------------------------------------
(***************************************************************************)
(* The reduction of adjustments, by cases as the code has them.            *)
(***************************************************************************)

\* The adjustment that follows is a recorded one, and revoke absorbs all.
LEMMA NextAdjustmentFacts ==
  ASSUME NEW current \in Recorded, NEW incoming \in Incoming
  PROVE  /\ NextAdjustment(current, incoming) \in Adjustments
         /\ "revoke" \in {current, incoming} =>
              NextAdjustment(current, incoming) = "revoke"
         /\ incoming = "refund" /\ current # "revoke" =>
              NextAdjustment(current, incoming) = "refund"
         /\ incoming = "refund_reversed" /\ current # "revoke" =>
              NextAdjustment(current, incoming)
                \in {"refund_reversed", "revocation_unknown"}
         /\ current \in Adverse =>
              NextAdjustment(current, incoming)
                \in Adverse \cup {"refund_reversed"}
  BY DEF NextAdjustment, Recorded, Incoming, Adjustments, NoAdjustment, Adverse

\* The priorities of the adjustments that can be recorded.
LEMMA PriorityFacts ==
  /\ \A a \in Recorded : Priority[a] \in 0 .. 4
  /\ \A a \in Recorded : Priority[a] >= 3 <=> a \in Adverse
  /\ \A a \in Recorded : Priority[a] = 4 <=> a = "revoke"
  <1>1. /\ Priority["none"] = 0 /\ Priority["refund_reversed"] = 1
        /\ Priority["revocation_unknown"] = 2 /\ Priority["refund"] = 3
        /\ Priority["revoke"] = 4
    BY DEF Priority
  <1>2. QED
    BY <1>1 DEF Recorded, Adjustments, NoAdjustment, Adverse

\* What reduce_apple_economic_adjustment returns.
LEMMA ReduceFacts ==
  ASSUME NEW current \in Recorded, NEW at \in Nat,
         NEW incoming \in Incoming \cup {NoAdjustment}, NEW incomingAt \in Nat,
         incoming # NoAdjustment => incomingAt # Unset,
         current = NoAdjustment => at = Unset,
         NEW r, r = Reduce(current, at, incoming, incomingAt)
  PROVE  /\ r.adjustment \in Recorded
         /\ r.at \in {at, incomingAt} /\ r.at >= at
         /\ ~r.changed => r.adjustment = current /\ r.at = at
         /\ current = "revoke" => r.adjustment = "revoke"
         /\ incoming = "revoke" =>
              r.adjustment = "revoke" /\ (r.accepted \/ current = "revoke")
         /\ incoming = NoAdjustment =>
              r.adjustment = current /\ r.at = at /\ ~r.accepted
         /\ incoming # NoAdjustment => r.at >= incomingAt
         /\ incoming \in Adverse /\ r.at = incomingAt =>
              r.adjustment \in Adverse
         /\ r.at = at /\ current \in Adverse => r.adjustment \in Adverse
         /\ r.adjustment \in Adverse /\ r.adjustment # current =>
              r.accepted /\ r.changed /\ incoming = r.adjustment
         /\ r.adjustment = NoAdjustment => incoming = NoAdjustment
         /\ current \in Adverse =>
              r.adjustment \in Adverse \cup {"refund_reversed"}
  <1> USE DEF Unset
  <1> DEFINE next == NextAdjustment(current, incoming)
  <1>1. CASE incoming = NoAdjustment
    BY <1>1 DEF Reduce, Incoming, Adverse, NoAdjustment
  <1>2. CASE incoming # NoAdjustment
    <2>1. incoming \in Incoming /\ incoming \in Recorded
      BY <1>2 DEF Incoming, Recorded, Adjustments
    <2>2. /\ next \in Adjustments /\ next \in Recorded /\ next # NoAdjustment
          /\ "revoke" \in {current, incoming} => next = "revoke"
          /\ incoming = "refund" /\ current # "revoke" => next = "refund"
          /\ incoming = "refund_reversed" /\ current # "revoke" =>
               next \in {"refund_reversed", "revocation_unknown"}
          /\ current \in Adverse => next \in Adverse \cup {"refund_reversed"}
      BY <2>1, NextAdjustmentFacts DEF Recorded, Adjustments, NoAdjustment
    <2> HIDE DEF next
    <2>3. CASE at # Unset /\ incomingAt < at
      <3>1. current # NoAdjustment
        BY <2>3
      <3>2. CASE incoming = "revoke" /\ current # "revoke"
        <4>1. r = [adjustment |-> "revoke", at |-> at,
                   accepted |-> TRUE, changed |-> TRUE]
          BY <1>2, <2>3, <3>2 DEF Reduce
        <4>2. QED
          BY <4>1, <2>3, <3>2 DEF Recorded, Adjustments, Adverse, NoAdjustment
      <3>3. CASE ~(incoming = "revoke" /\ current # "revoke")
        <4>1. r = [adjustment |-> current, at |-> at,
                   accepted |-> FALSE, changed |-> FALSE]
          BY <1>2, <2>3, <3>3 DEF Reduce
        <4>2. CASE incoming = "revoke"
          BY <4>1, <4>2, <3>3, <2>3, <3>1
             DEF Incoming, Recorded, Adjustments, Adverse, NoAdjustment, Reduce
        <4>3. CASE incoming # "revoke"
          BY <4>1, <4>3, <2>1, <2>3, <3>1 DEF Adverse, NoAdjustment
        <4>4. QED
          BY <4>2, <4>3
      <3>4. QED
        BY <3>2, <3>3
    <2>4. CASE at # Unset /\ incomingAt = at
      BY <1>2, <2>1, <2>2, <2>4, PriorityFacts
         DEF Reduce, next, Incoming, Recorded, Adjustments, Adverse, NoAdjustment
    <2>5. CASE at = Unset \/ incomingAt > at
      <3>1. incomingAt > at
        BY <1>2, <2>5
      <3>2. r = [adjustment |-> next, at |-> incomingAt, accepted |-> TRUE,
                 changed |-> next # current \/ incomingAt # at]
        BY <1>2, <2>5 DEF Reduce, next
      <3>3. (next # current \/ incomingAt # at) = TRUE
        BY <3>1
      <3>4. r = [adjustment |-> next, at |-> incomingAt, accepted |-> TRUE,
                 changed |-> TRUE]
        BY <3>2, <3>3, Zenon
      <3>5. /\ r.adjustment = next /\ r.at = incomingAt /\ r.accepted
            /\ r.changed
        BY <3>4
      <3>6. next \in Adverse /\ next # current => incoming = next
        BY <2>1, <2>2 DEF Incoming, Adverse
      <3>7. incoming \in Adverse => next \in Adverse
        BY <2>2 DEF Adverse
      <3>8. QED
        BY <3>1, <3>5, <3>6, <3>7, <1>2, <2>1, <2>2 DEF Recorded
    <2>6. QED
      BY <2>3, <2>4, <2>5
  <1>3. QED
    BY <1>1, <1>2
-----------------------------------------------------------------------------
(***************************************************************************)
(* What a save does to the row.                                            *)
(***************************************************************************)

\* A payload and a row that satisfy the invariants above, one by one.
Consistent(r, tx) ==
  /\ r \in Row /\ tx \in Payload
  /\ tx.adjustment \in Adverse => tx.revoked
  /\ tx.adjustment # NoAdjustment => tx.adjustedAt = tx.signed
  /\ r.adjustment \in Adverse => r.revoked
  /\ r.adjustment = NoAdjustment => r.adjustedAt = Unset

\* The general UPDATE touches no adjustment and keeps the newest context.
LEMMA UpdateContextFacts ==
  ASSUME NEW r \in Row, NEW tx \in Payload, NEW reduction
  PROVE  LET s == UpdateContext(r, tx, reduction)
         IN /\ s \in Row
            /\ s.adjustment = r.adjustment /\ s.adjustedAt = r.adjustedAt
            /\ s.signed >= r.signed
            /\ \/ s.revoked = r.revoked
               \/ /\ AcceptsContext(r, tx, reduction)
                  /\ ~PreservesRevocation(r, tx, reduction)
                  /\ s.revoked = tx.revoked
  <1> DEFINE s == UpdateContext(r, tx, reduction)
  <1>1. CASE ~AcceptsContext(r, tx, reduction)
    BY <1>1 DEF UpdateContext, Row
  <1>2. CASE AcceptsContext(r, tx, reduction)
    <2>1. /\ tx.signed > r.signed
          /\ Coalesce(tx.expires, r.expires) = Expiry
      BY <1>2 DEF AcceptsContext, Row, Payload, Unset, Coalesce
    <2>2. CASE PreservesRevocation(r, tx, reduction)
      <3>1. s = [r EXCEPT !.signed = tx.signed,
                          !.expires = Expiry,
                          !.grace = tx.grace]
        BY <1>2, <2>1, <2>2 DEF UpdateContext, Row
      <3>2. s \in Row
        BY <3>1 DEF Row, Payload
      <3>3. /\ s.adjustment = r.adjustment /\ s.adjustedAt = r.adjustedAt
            /\ s.signed = tx.signed /\ s.revoked = r.revoked
        BY <3>1 DEF Row
      <3>4. QED
        BY <3>2, <3>3, <2>1 DEF Row, Payload
    <2>3. CASE ~PreservesRevocation(r, tx, reduction)
      <3>1. s = [r EXCEPT !.signed = tx.signed,
                          !.expires = Expiry,
                          !.grace = tx.grace, !.revoked = tx.revoked]
        BY <1>2, <2>1, <2>3 DEF UpdateContext, Row
      <3>2. s \in Row
        BY <3>1 DEF Row, Payload
      <3>3. /\ s.adjustment = r.adjustment /\ s.adjustedAt = r.adjustedAt
            /\ s.signed = tx.signed /\ s.revoked = tx.revoked
        BY <3>1 DEF Row
      <3>4. QED
        BY <3>2, <3>3, <1>2, <2>1, <2>3 DEF Row, Payload
    <2>4. QED
      BY <2>2, <2>3
  <1>3. QED
    BY <1>1, <1>2

\* The evidence update touches only the price and its date.
LEMMA UpdateEvidenceFacts ==
  ASSUME NEW r \in Row, NEW tx \in Payload
  PROVE  LET s == UpdateEvidence(r, tx)
         IN /\ s \in Row
            /\ s.adjustment = r.adjustment /\ s.adjustedAt = r.adjustedAt
            /\ s.signed = r.signed /\ s.revoked = r.revoked
  BY DEF UpdateEvidence, Row, Payload

\* The adjustment update writes what the reduction returned.
LEMMA UpdateAdjustmentFacts ==
  ASSUME NEW r \in Row, NEW tx \in Payload, NEW applies, NEW reduction,
         reduction.adjustment \in Recorded, reduction.at \in 0 .. MaxTime
  PROVE  LET s == UpdateAdjustment(r, applies, tx, reduction)
         IN /\ s \in Row
            /\ s.signed = r.signed
            /\ ~reduction.changed => s = r
            /\ reduction.changed => /\ s.adjustment = reduction.adjustment
                                    /\ s.adjustedAt = reduction.at
            /\ reduction.changed /\ applies => s.revoked = tx.revoked
            /\ ~applies => s.revoked = r.revoked
  <1> DEFINE s == UpdateAdjustment(r, applies, tx, reduction)
  <1>1. CASE ~reduction.changed
    BY <1>1 DEF UpdateAdjustment
  <1>2. CASE reduction.changed /\ applies
    <2>1. s = [r EXCEPT !.adjustment = reduction.adjustment,
                        !.adjustedAt = reduction.at, !.revoked = tx.revoked]
      BY <1>2 DEF UpdateAdjustment
    <2>2. QED
      BY <1>2, <2>1 DEF Row, Payload, Recorded
  <1>3. CASE reduction.changed /\ ~applies
    <2>1. s = [r EXCEPT !.adjustment = reduction.adjustment,
                        !.adjustedAt = reduction.at]
      BY <1>3 DEF UpdateAdjustment, Row
    <2>2. QED
      BY <1>3, <2>1 DEF Row, Recorded
  <1>4. QED
    BY <1>1, <1>2, <1>3
\* When the reduction ends in a refund or a revocation, the payload that
\* decides the revocation columns is one Apple signed while it stood.
LEMMA AppliesOnlyRevoked ==
  ASSUME NEW r, NEW tx, NEW reduction, Consistent(r, tx),
         reduction.adjustment \in Adverse,
         AppliesRevocation(r, tx, reduction)
  PROVE  tx.revoked = TRUE
  BY DEF AppliesRevocation, Consistent, Adverse, Payload

\* _save_apple_transaction on an existing row stores the reduction, keeps
\* the newest signed date, and leaves a refunded or revoked row revoked.
LEMMA SaveExistingFacts ==
  ASSUME NEW r, NEW tx, Consistent(r, tx), NEW reduction,
         reduction = Reduce(r.adjustment, r.adjustedAt,
                            tx.adjustment, tx.adjustedAt)
  PROVE  LET s == SaveExisting(r, tx)
         IN /\ s \in Row
            /\ s.adjustment = reduction.adjustment
            /\ s.adjustedAt = reduction.at
            /\ s.signed >= r.signed
            /\ s.adjustment \in Adverse => s.revoked
  <1> DEFINE applies == AppliesRevocation(r, tx, reduction)
             c == UpdateContext(r, tx, reduction)
             e == UpdateEvidence(c, tx)
             s == UpdateAdjustment(e, applies, tx, reduction)
  <1>1. s = SaveExisting(r, tx)
    BY DEF SaveExisting
  <1>2. /\ r \in Row /\ tx \in Payload
        /\ r.adjustment \in Recorded /\ r.adjustedAt \in 0 .. MaxTime
        /\ tx.adjustment \in Incoming \cup {NoAdjustment}
        /\ tx.adjustedAt \in 0 .. MaxTime
        /\ tx.adjustment # NoAdjustment => tx.adjustedAt # Unset
        /\ r.revoked \in BOOLEAN
    BY DEF Consistent, Row, Payload, Recorded, Incoming, Unset
  <1>3. /\ reduction.adjustment \in Recorded
        /\ reduction.at \in 0 .. MaxTime
        /\ ~reduction.changed => /\ reduction.adjustment = r.adjustment
                                 /\ reduction.at = r.adjustedAt
        /\ reduction.adjustment \in Adverse
             /\ reduction.adjustment # r.adjustment
             => reduction.accepted /\ reduction.changed
                  /\ tx.adjustment = reduction.adjustment
    BY <1>2, ReduceFacts DEF Consistent
  <1>4. /\ c \in Row
        /\ c.adjustment = r.adjustment /\ c.adjustedAt = r.adjustedAt
        /\ c.signed >= r.signed
        /\ \/ c.revoked = r.revoked
           \/ ~PreservesRevocation(r, tx, reduction) /\ c.revoked = tx.revoked
    BY <1>2, UpdateContextFacts
  <1>5. /\ e \in Row
        /\ e.adjustment = r.adjustment /\ e.adjustedAt = r.adjustedAt
        /\ e.signed >= r.signed /\ e.revoked = c.revoked
    BY <1>2, <1>4, UpdateEvidenceFacts
  <1> HIDE DEF c, e
  <1>6. /\ s \in Row /\ s.signed = e.signed
        /\ ~reduction.changed => s = e
        /\ reduction.changed => /\ s.adjustment = reduction.adjustment
                                /\ s.adjustedAt = reduction.at
        /\ reduction.changed /\ applies => s.revoked = tx.revoked
        /\ ~applies => s.revoked = e.revoked
    BY <1>2, <1>3, <1>5, UpdateAdjustmentFacts
  <1>7. s.adjustment = reduction.adjustment /\ s.adjustedAt = reduction.at
    BY <1>3, <1>5, <1>6
  <1> HIDE DEF s
  <1>8. ASSUME reduction.adjustment \in Adverse
        PROVE  s.revoked = TRUE
    <2>1. applies => tx.revoked = TRUE
      BY <1>8, AppliesOnlyRevoked
    <2>2. CASE reduction.adjustment # r.adjustment
      <3>1. applies
        BY <1>3, <1>8, <2>2 DEF AppliesRevocation, Adverse
      <3>2. QED
        BY <1>3, <1>6, <1>8, <2>1, <2>2, <3>1
    <2>3. CASE reduction.adjustment = r.adjustment
      <3>1. r.revoked = TRUE
        BY <1>2, <1>8, <2>3 DEF Consistent
      <3>2. ~PreservesRevocation(r, tx, reduction) => applies
        BY <1>8, <2>3 DEF PreservesRevocation, Adverse
      <3>3. c.revoked = TRUE
        BY <1>4, <2>1, <3>1, <3>2
      <3>4. QED
        BY <1>5, <1>6, <2>1, <3>3
    <2>4. QED
      BY <2>2, <2>3
  <1>9. QED
    BY <1>1, <1>5, <1>6, <1>7, <1>8

\* _save_apple_transaction on a new row stores the payload's adjustment.
LEMMA SaveNewFacts ==
  ASSUME NEW tx \in Payload, NEW reduction,
         tx.adjustment \in Adverse => tx.revoked,
         tx.adjustment # NoAdjustment => tx.adjustedAt = tx.signed,
         reduction = Reduce(NoAdjustment, Unset, tx.adjustment, tx.adjustedAt)
  PROVE  LET s == SaveNew(tx)
         IN /\ s \in Row
            /\ s.adjustment = reduction.adjustment
            /\ s.adjustedAt = reduction.at
            /\ s.adjustment \in Adverse => s.revoked
  <1> DEFINE s == SaveNew(tx)
  <1>1. /\ tx.adjustment \in Incoming \cup {NoAdjustment}
        /\ tx.adjustedAt \in 0 .. MaxTime /\ MaxTime \in Nat
        /\ tx.adjustment # NoAdjustment => tx.adjustedAt # Unset
    BY LedgerAssumption DEF Payload, Incoming, Unset
  <1>2. /\ reduction.adjustment \in Recorded /\ reduction.at \in 0 .. MaxTime
        /\ reduction.adjustment \in Adverse =>
             tx.adjustment = reduction.adjustment
    <2>1. /\ NoAdjustment \in Recorded /\ NoAdjustment \notin Adverse
          /\ Unset \in Nat /\ Unset \in 0 .. MaxTime /\ tx.adjustedAt \in Nat
      BY <1>1 DEF Recorded, Unset, NoAdjustment, Adverse
    <2>2. /\ reduction.adjustment \in Recorded
          /\ reduction.at \in {Unset, tx.adjustedAt}
          /\ reduction.adjustment \in Adverse
               /\ reduction.adjustment # NoAdjustment
               => tx.adjustment = reduction.adjustment
      BY <1>1, <2>1, ReduceFacts
    <2>3. QED
      BY <1>1, <2>1, <2>2
  <1>3. s = [signed |-> tx.signed, expires |-> tx.expires, grace |-> tx.grace,
             revoked |-> tx.revoked, price |-> tx.price,
             pricedAt |-> tx.pricedAt, adjustment |-> reduction.adjustment,
             adjustedAt |-> reduction.at]
    BY DEF SaveNew
  <1>4. s \in Row
    BY <1>2, <1>3 DEF Row, Payload, Recorded
  <1>5. /\ s.adjustment = reduction.adjustment /\ s.adjustedAt = reduction.at
        /\ s.revoked = tx.revoked
    BY <1>3
  <1>6. QED
    BY <1>2, <1>4, <1>5 DEF Payload
-----------------------------------------------------------------------------
(***************************************************************************)
(* The steps.                                                              *)
(***************************************************************************)

\* A stored row is not the missing one.
LEMMA RowIsStored == NoRow \notin Row
  BY DEF NoRow, Row

\* What the row says before a save: nothing when there is none.
Current   == IF row = NoRow THEN NoAdjustment ELSE row.adjustment
Watermark == IF row = NoRow THEN Unset ELSE row.adjustedAt

\* A save in any state stores the reduction of the payload and keeps the
\* newest signed date; refunded and revoked rows are revoked.
LEMMA SaveFacts ==
  ASSUME IInv, NEW tx \in sent, Save(tx), NEW reduction,
         reduction = Reduce(Current, Watermark, tx.adjustment, tx.adjustedAt)
  PROVE  /\ row' \in Row
         /\ row'.adjustment = reduction.adjustment
         /\ row'.adjustedAt = reduction.at
         /\ row'.adjustment \in Adverse => row'.revoked
         /\ row # NoRow => row'.signed >= row.signed
  <1>1. /\ tx \in Payload
        /\ tx.adjustment \in Adverse => tx.revoked
        /\ tx.adjustment # NoAdjustment => tx.adjustedAt = tx.signed
    BY DEF IInv, TypeOK, PayloadsConsistent
  <1>2. CASE row = NoRow
    <2>1. row' = SaveNew(tx)
      BY <1>2 DEF Save
    <2>2. reduction = Reduce(NoAdjustment, Unset, tx.adjustment, tx.adjustedAt)
      BY <1>2 DEF Current, Watermark
    <2>3. QED
      BY <1>1, <1>2, <2>1, <2>2, SaveNewFacts
  <1>3. CASE row # NoRow
    <2>1. row' = SaveExisting(row, tx)
      BY <1>3 DEF Save
    <2>2. Consistent(row, tx)
      BY <1>1, <1>3
         DEF Consistent, IInv, TypeOK, AdverseRevoked, WatermarkIsNewest
    <2>3. reduction = Reduce(row.adjustment, row.adjustedAt,
                             tx.adjustment, tx.adjustedAt)
      BY <1>3 DEF Current, Watermark
    <2>4. QED
      BY <2>1, <2>2, <2>3, SaveExistingFacts
  <1>4. QED
    BY <1>2, <1>3

\* A save keeps the invariant.
LEMMA SaveKeepsInvariant ==
  ASSUME IInv, NEW tx \in sent, Save(tx)
  PROVE  IInv'
  <1> DEFINE reduction == Reduce(Current, Watermark,
                                 tx.adjustment, tx.adjustedAt)
  <1>1. /\ row' \in Row
        /\ row'.adjustment = reduction.adjustment
        /\ row'.adjustedAt = reduction.at
        /\ row'.adjustment \in Adverse => row'.revoked
    BY SaveFacts
  <1>2. delivered' = delivered \cup {tx} /\ sent' = sent
        /\ UNCHANGED <<clock, standing, graceUntil>>
    BY DEF Save
  <1>3. /\ tx \in Payload
        /\ tx.adjustment # NoAdjustment => tx.adjustedAt = tx.signed
        /\ \A m \in delivered : m \in Payload /\ m.adjustedAt \in Nat
    BY DEF IInv, TypeOK, PayloadsConsistent, Payload
  <1>4. /\ Current \in Recorded /\ Watermark \in Nat
        /\ tx.adjustment \in Incoming \cup {NoAdjustment}
        /\ tx.adjustedAt \in Nat
        /\ tx.adjustment # NoAdjustment => tx.adjustedAt # Unset
        /\ Current = NoAdjustment => Watermark = Unset
    BY <1>3 DEF IInv, TypeOK, WatermarkIsNewest, Current, Watermark,
                Row, Payload, Recorded, Incoming, Unset
  <1>5. /\ reduction.adjustment \in Recorded
        /\ reduction.at \in {Watermark, tx.adjustedAt}
        /\ reduction.at >= Watermark
        /\ Current = "revoke" => reduction.adjustment = "revoke"
        /\ tx.adjustment = "revoke" => reduction.adjustment = "revoke"
        /\ tx.adjustment = NoAdjustment =>
             reduction.adjustment = Current /\ reduction.at = Watermark
        /\ tx.adjustment # NoAdjustment => reduction.at >= tx.adjustedAt
        /\ tx.adjustment \in Adverse /\ reduction.at = tx.adjustedAt
             => reduction.adjustment \in Adverse
        /\ reduction.at = Watermark /\ Current \in Adverse
             => reduction.adjustment \in Adverse
        /\ reduction.adjustment = NoAdjustment => tx.adjustment = NoAdjustment
    BY <1>4, ReduceFacts
  <1> HIDE DEF reduction
  <1>6. \A m \in delivered :
          /\ m.adjustment # NoAdjustment => m.adjustedAt <= Watermark
          /\ m.adjustment \in Adverse /\ m.adjustedAt = Watermark
               => Current \in Adverse
          /\ m.adjustment = "revoke" => Current = "revoke"
    BY DEF IInv, RowFromPayload, WatermarkIsNewest, RevokeDecides,
           Current, Watermark, NoAdjustment, Adverse
  <1>7. Current # NoAdjustment =>
          \E m \in delivered : /\ m.adjustment # NoAdjustment
                               /\ m.adjustedAt = Watermark
    BY DEF IInv, WatermarkIsNewest, Current, Watermark
  <1>8. TypeOK' /\ PayloadsConsistent'
    BY <1>1, <1>2 DEF IInv, TypeOK, PayloadsConsistent
  <1>9. RowFromPayload' /\ AdverseRevoked'
    BY <1>1, <1>2, RowIsStored DEF RowFromPayload, AdverseRevoked
  <1>10. RevokeDecides'
    BY <1>1, <1>2, <1>5, <1>6 DEF RevokeDecides, Adverse
  <1>11. WatermarkIsNewest'
    <2>1. ASSUME NEW m \in delivered', m.adjustment # NoAdjustment
          PROVE  /\ m.adjustedAt <= row'.adjustedAt
                 /\ m.adjustment \in Adverse /\ m.adjustedAt = row'.adjustedAt
                      => row'.adjustment \in Adverse
      <3>1. CASE m = tx
        BY <1>1, <1>4, <1>5, <2>1, <3>1
      <3>2. CASE m \in delivered
        BY <1>1, <1>3, <1>4, <1>5, <1>6, <2>1, <3>2
      <3>3. QED
        BY <1>2, <2>1, <3>1, <3>2
    <2>2. ASSUME row'.adjustment # NoAdjustment
          PROVE  \E m \in delivered' : /\ m.adjustment # NoAdjustment
                                       /\ m.adjustedAt = row'.adjustedAt
      <3>1. CASE tx.adjustment # NoAdjustment /\ reduction.at = tx.adjustedAt
        BY <1>1, <1>2, <3>1
      <3>2. CASE reduction.at = Watermark /\ Current # NoAdjustment
        BY <1>1, <1>2, <1>7, <3>2
      <3>3. QED
        BY <1>1, <1>4, <1>5, <2>2, <3>1, <3>2 DEF Unset
    <2>3. row'.adjustment = NoAdjustment => row'.adjustedAt = Unset
      BY <1>1, <1>4, <1>5
    <2>4. QED
      BY <2>1, <2>2, <2>3 DEF WatermarkIsNewest
  <1>12. QED
    BY <1>8, <1>9, <1>10, <1>11 DEF IInv
\* Apple signs a payload; neither the row nor what was delivered changes.
Signs ==
  \E t \in 1 .. MaxTime, revoked \in BOOLEAN, grace \in Instants,
     adjustment \in Incoming \cup {NoAdjustment} :
    /\ adjustment \in Adverse => revoked
    /\ Sign(t, revoked, adjustment, grace)

\* Every step of Apple or a device keeps time and standing typed and signs
\* one consistent payload.
LEMMA AppleStep ==
  ASSUME TypeOK,
         Refund \/ ReverseRefund \/ Revoke \/ OpenGrace \/ Inform \/ DeviceFetch
  PROVE  /\ Signs /\ UNCHANGED <<delivered, row>>
         /\ clock' \in 1 .. MaxTime /\ standing' \in Standings
         /\ graceUntil' \in Instants
  <1>1. /\ clock \in 1 .. MaxTime /\ standing \in Standings
        /\ graceUntil \in Instants /\ Unset \in Instants
        /\ MaxTime \in Nat /\ GraceLength \in Nat
    BY LedgerAssumption DEF TypeOK, Instants, Unset
  <1>2. \A t \in Instants : Tick(t) => t \in 1 .. MaxTime /\ clock' = t
    BY <1>1 DEF Tick, Instants
  <1>3. CASE Refund
    BY <1>1, <1>2, <1>3 DEF Refund, Signs, Incoming, Adverse, Standings
  <1>4. CASE ReverseRefund
    BY <1>1, <1>2, <1>4 DEF ReverseRefund, Signs, Incoming, Adverse, Standings
  <1>5. CASE Revoke
    BY <1>1, <1>2, <1>5 DEF Revoke, Signs, Incoming, Adverse, Standings
  <1>6. CASE OpenGrace
    <2>1. PICK t \in Instants :
            /\ Tick(t) /\ graceUntil' = t + GraceLength
            /\ Sign(t, FALSE, NoAdjustment, t + GraceLength)
      BY <1>6 DEF OpenGrace
    <2>2. t \in 1 .. MaxTime /\ t + GraceLength \in Instants
      BY <1>1, <1>2, <2>1 DEF Instants
    <2>3. NoAdjustment \notin Adverse
      BY DEF NoAdjustment, Adverse
    <2>4. QED
      BY <1>1, <1>2, <1>6, <2>1, <2>2, <2>3 DEF OpenGrace, Signs
  <1>7. CASE Inform
    <2>1. NoAdjustment \notin Adverse
      BY DEF NoAdjustment, Adverse
    <2>2. QED
      BY <1>1, <1>2, <1>7, <2>1 DEF Inform, Signs
  <1>8. CASE DeviceFetch
    <2>1. NoAdjustment \notin Adverse
      BY DEF NoAdjustment, Adverse
    <2>2. QED
      BY <1>1, <1>2, <1>8, <2>1 DEF DeviceFetch, Signs
  <1>9. QED
    BY <1>3, <1>4, <1>5, <1>6, <1>7, <1>8

\* A signed payload is typed and consistent.
LEMMA SignsConsistent ==
  ASSUME TypeOK, PayloadsConsistent, Signs
  PROVE  /\ sent \subseteq sent' /\ sent' \subseteq Payload
         /\ PayloadsConsistent'
  <1>1. PICK t \in 1 .. MaxTime, revoked \in BOOLEAN, grace \in Instants,
             adjustment \in Incoming \cup {NoAdjustment},
             p \in Prices \cup {NoPrice} :
          /\ adjustment \in Adverse => revoked
          /\ sent' = sent \cup
               {[signed |-> t, expires |-> Expiry, grace |-> grace,
                 revoked |-> revoked, price |-> p,
                 pricedAt |-> IF p = NoPrice THEN Unset ELSE t,
                 adjustment |-> adjustment,
                 adjustedAt |-> IF adjustment = NoAdjustment
                                  THEN Unset ELSE t]}
    BY DEF Signs, Sign
  <1> DEFINE m == [signed |-> t, expires |-> Expiry, grace |-> grace,
                   revoked |-> revoked, price |-> p,
                   pricedAt |-> IF p = NoPrice THEN Unset ELSE t,
                   adjustment |-> adjustment,
                   adjustedAt |-> IF adjustment = NoAdjustment
                                    THEN Unset ELSE t]
  <1>2. m \in Payload
    BY LedgerAssumption DEF Payload, Incoming, Unset
  <1>3. /\ m.adjustment \in Adverse => m.revoked
        /\ m.adjustment # NoAdjustment => m.adjustedAt = m.signed
    BY <1>1
  <1>4. QED
    BY <1>1, <1>2, <1>3 DEF TypeOK, PayloadsConsistent

\* Every step keeps the invariant.
LEMMA InvariantStep == IInv /\ [Next]_vars => IInv'
  <1> SUFFICES ASSUME IInv, [Next]_vars PROVE IInv'
    OBVIOUS
  <1>1. CASE Refund \/ ReverseRefund \/ Revoke \/ OpenGrace \/ Inform
             \/ DeviceFetch
    <2>1. /\ Signs /\ UNCHANGED <<delivered, row>>
          /\ clock' \in 1 .. MaxTime /\ standing' \in Standings
          /\ graceUntil' \in Instants
      BY <1>1, AppleStep DEF IInv
    <2>2. /\ sent \subseteq sent' /\ sent' \subseteq Payload
          /\ PayloadsConsistent'
      BY <2>1, SignsConsistent DEF IInv
    <2>3. TypeOK'
      BY <2>1, <2>2 DEF IInv, TypeOK
    <2>4. QED
      BY <2>1, <2>2, <2>3 DEF IInv, RowFromPayload, AdverseRevoked,
                              RevokeDecides, WatermarkIsNewest
  <1>2. ASSUME NEW tx \in sent, Save(tx)
        PROVE  IInv'
    BY <1>2, SaveKeepsInvariant
  <1>3. CASE UNCHANGED vars
    BY <1>3 DEF vars, IInv, TypeOK, PayloadsConsistent, RowFromPayload,
                AdverseRevoked, RevokeDecides, WatermarkIsNewest
  <1>4. QED
    BY <1>1, <1>2, <1>3 DEF Next

\* Nothing is signed or stored at the start.
LEMMA InvariantInit == Init => IInv
  <1> SUFFICES ASSUME Init PROVE IInv
    OBVIOUS
  <1>1. 1 \in 1 .. MaxTime /\ Unset \in Instants
    BY LedgerAssumption DEF Instants, Unset
  <1>2. QED
    BY <1>1 DEF Init, IInv, TypeOK, PayloadsConsistent, RowFromPayload,
                AdverseRevoked, RevokeDecides, WatermarkIsNewest, Standings

\* The inductive invariant holds in every reachable state.
THEOREM Invariant == Spec => []IInv
  BY InvariantInit, InvariantStep, PTL DEF Spec

\* A processed revoke decides the row for ever.
THEOREM RevokesDecide == Spec => []RevokeDecides
  <1>1. IInv => RevokeDecides
    BY DEF IInv
  <1>2. QED
    BY <1>1, Invariant, PTL

\* A refund or revoke without a newer processed reversal leaves the row
\* revoked: the newest adjustment processed is then adverse.
LEMMA RefundHoldsInInvariant == IInv => RefundHolds
  <1> SUFFICES ASSUME IInv, NEW m \in delivered, m.adjustment \in Adverse,
                      \A n \in delivered : n.adjustment = "refund_reversed" =>
                        n.signed <= m.signed
               PROVE  row.revoked
    BY DEF RefundHolds
  <1>1. row # NoRow /\ row \in Row
    BY DEF IInv, RowFromPayload, TypeOK
  <1>2. \A n \in delivered : /\ n \in sent /\ n \in Payload
                             /\ n.signed \in Nat /\ n.adjustedAt \in Nat
    BY DEF IInv, TypeOK, Payload
  <1>3. /\ m.adjustment # NoAdjustment /\ m.adjustedAt = m.signed
        /\ m.adjustedAt <= row.adjustedAt /\ m.adjustedAt # Unset
    BY <1>2 DEF IInv, TypeOK, PayloadsConsistent, WatermarkIsNewest, Adverse,
                NoAdjustment, Payload, Unset
  <1>4. row.adjustment # NoAdjustment
    BY <1>1, <1>2, <1>3 DEF IInv, WatermarkIsNewest, Unset
  <1>5. PICK n \in delivered : /\ n.adjustment # NoAdjustment
                              /\ n.adjustedAt = row.adjustedAt
    BY <1>1, <1>4 DEF IInv, WatermarkIsNewest
  <1>6. n.adjustedAt = n.signed /\ n.adjustment \in Adverse \cup {"refund_reversed"}
    BY <1>2, <1>5 DEF IInv, PayloadsConsistent, Payload, Adverse
  <1>7. \E k \in delivered : k.adjustment \in Adverse
                             /\ k.adjustedAt = row.adjustedAt
    <2>1. CASE n.adjustment \in Adverse
      BY <1>5, <2>1
    <2>2. CASE n.adjustment = "refund_reversed"
      BY <1>1, <1>2, <1>3, <1>5, <1>6, <2>2 DEF Row
    <2>3. QED
      BY <1>6, <2>1, <2>2
  <1>8. row.adjustment \in Adverse
    BY <1>7 DEF IInv, WatermarkIsNewest, Adverse, NoAdjustment
  <1>9. QED
    BY <1>1, <1>8 DEF IInv, AdverseRevoked

\* A processed refund holds until a newer reversal is processed.
THEOREM RefundsHold == Spec => []RefundHolds
  BY RefundHoldsInInvariant, Invariant, PTL

\* A save that is given a stored row, in the terms of the reduction.
LEMMA SaveOfStoredRow ==
  ASSUME IInv, NEW tx \in sent, Save(tx), row # NoRow, NEW reduction,
         reduction = Reduce(Current, Watermark, tx.adjustment, tx.adjustedAt)
  PROVE  /\ Current = row.adjustment /\ Watermark = row.adjustedAt
         /\ reduction.at >= Watermark
         /\ Current \in Adverse =>
              reduction.adjustment \in Adverse \cup {"refund_reversed"}
  <1>1. /\ tx \in Payload /\ row \in Row
        /\ Current = row.adjustment /\ Watermark = row.adjustedAt
        /\ tx.adjustment # NoAdjustment => tx.adjustedAt = tx.signed
        /\ Current = NoAdjustment => Watermark = Unset
    BY DEF IInv, TypeOK, PayloadsConsistent, WatermarkIsNewest,
           Current, Watermark
  <1>2. /\ Current \in Recorded /\ Watermark \in Nat
        /\ tx.adjustment \in Incoming \cup {NoAdjustment}
        /\ tx.adjustedAt \in Nat
        /\ tx.adjustment # NoAdjustment => tx.adjustedAt # Unset
    BY <1>1 DEF Row, Payload, Recorded, Incoming, Unset
  <1>3. reduction.at >= Watermark
    BY <1>2, <1>1, ReduceFacts
  <1>4. Current \in Adverse =>
          reduction.adjustment \in Adverse \cup {"refund_reversed"}
    BY <1>2, <1>1, ReduceFacts
  <1>5. QED
    BY <1>1, <1>3, <1>4

\* Only a save changes the row.
LEMMA RowChangesBySave ==
  ASSUME [Next]_vars
  PROVE  row' = row \/ \E tx \in sent : Save(tx)
  BY DEF Next, vars, Refund, ReverseRefund, Revoke, OpenGrace, Inform,
         DeviceFetch

\* No save moves a watermark of a row back, and a refunded or revoked row
\* only loses its revocation in a reversal.
LEMMA StoredRowStep ==
  ASSUME IInv, [Next]_vars, row # NoRow
  PROVE  /\ row'.signed >= row.signed /\ row'.adjustedAt >= row.adjustedAt
         /\ row.adjustment \in Adverse /\ row.revoked
              => row'.revoked \/ row'.adjustment = "refund_reversed"
  <1>1. CASE row' = row
    BY <1>1 DEF IInv, TypeOK, Row
  <1>2. ASSUME NEW tx \in sent, Save(tx)
        PROVE  /\ row'.signed >= row.signed
               /\ row'.adjustedAt >= row.adjustedAt
               /\ row.adjustment \in Adverse /\ row.revoked
                    => row'.revoked \/ row'.adjustment = "refund_reversed"
    <2> DEFINE reduction == Reduce(Current, Watermark,
                                   tx.adjustment, tx.adjustedAt)
    <2>1. /\ Current = row.adjustment /\ Watermark = row.adjustedAt
          /\ reduction.at >= Watermark
          /\ Current \in Adverse =>
               reduction.adjustment \in Adverse \cup {"refund_reversed"}
      BY <1>2, SaveOfStoredRow
    <2>2. /\ row'.adjustment = reduction.adjustment
          /\ row'.adjustedAt = reduction.at
          /\ row'.adjustment \in Adverse => row'.revoked
          /\ row'.signed >= row.signed
      BY <1>2, SaveFacts
    <2> HIDE DEF reduction
    <2>3. QED
      BY <2>1, <2>2
  <1>3. QED
    BY <1>1, <1>2, RowChangesBySave

\* The watermarks of a row only grow.
THEOREM WatermarksOnlyGrow == Spec => WatermarksGrow
  <1>1. IInv /\ [Next]_vars =>
          [row # NoRow => /\ row'.signed >= row.signed
                          /\ row'.adjustedAt >= row.adjustedAt]_vars
    BY StoredRowStep
  <1>2. QED
    BY <1>1, Invariant, PTL DEF Spec, WatermarksGrow

\* Only a reversal gives the entitlement back.
THEOREM OnlyReversalsClear == Spec => RevocationClearedByReversalOnly
  <1>1. IInv /\ [Next]_vars =>
          [(row # NoRow /\ row.adjustment \in Adverse /\ row.revoked)
             => (row'.revoked \/ row'.adjustment = "refund_reversed")]_vars
    BY StoredRowStep
  <1>2. QED
    BY <1>1, Invariant, PTL DEF Spec, RevocationClearedByReversalOnly
-----------------------------------------------------------------------------
(***************************************************************************)
(* The context and the price evidence of a row.                            *)
(***************************************************************************)

\* The general UPDATE takes the signed date and the grace period of a newer
\* context together, and leaves the evidence alone.
LEMMA ContextColumns ==
  ASSUME NEW r \in Row, NEW tx \in Payload, NEW reduction
  PROVE  LET s == UpdateContext(r, tx, reduction)
         IN /\ s.price = r.price /\ s.pricedAt = r.pricedAt
            /\ AcceptsContext(r, tx, reduction) =>
                 s.signed = tx.signed /\ s.grace = tx.grace
            /\ ~AcceptsContext(r, tx, reduction) => s = r
  BY DEF UpdateContext, Row, Payload

\* UpdateEvidence writes a price once and only moves its date forward.
LEMMA EvidenceColumns ==
  ASSUME NEW r \in Row, NEW tx \in Payload
  PROVE  LET s == UpdateEvidence(r, tx)
         IN /\ s.grace = r.grace /\ s.signed = r.signed
            /\ r.price # NoPrice =>
                 s.price = r.price /\ s.pricedAt >= r.pricedAt
  BY DEF UpdateEvidence, Row, Payload

\* UpdateAdjustment touches neither of them.
LEMMA AdjustmentColumns ==
  ASSUME NEW r \in Row, NEW tx \in Payload, NEW applies, NEW reduction
  PROVE  LET s == UpdateAdjustment(r, applies, tx, reduction)
         IN /\ s.grace = r.grace /\ s.signed = r.signed
            /\ s.price = r.price /\ s.pricedAt = r.pricedAt
  BY DEF UpdateAdjustment, Row, Payload

\* A save of an existing row: a newer context is taken whole or not at all.
LEMMA ExistingColumns ==
  ASSUME NEW r \in Row, NEW tx \in Payload, NEW reduction,
         reduction = Reduce(r.adjustment, r.adjustedAt,
                            tx.adjustment, tx.adjustedAt)
  PROVE  LET s == SaveExisting(r, tx)
         IN /\ AcceptsContext(r, tx, reduction) =>
                 s.signed = tx.signed /\ s.grace = tx.grace
            /\ ~AcceptsContext(r, tx, reduction) =>
                 s.signed = r.signed /\ s.grace = r.grace
            /\ r.price # NoPrice =>
                 s.price = r.price /\ s.pricedAt >= r.pricedAt
  <1> DEFINE applies == AppliesRevocation(r, tx, reduction)
             c == UpdateContext(r, tx, reduction)
             e == UpdateEvidence(c, tx)
             s == UpdateAdjustment(e, applies, tx, reduction)
  <1>1. s = SaveExisting(r, tx)
    BY DEF SaveExisting
  <1>2. /\ c \in Row /\ c.price = r.price /\ c.pricedAt = r.pricedAt
        /\ AcceptsContext(r, tx, reduction) =>
             c.signed = tx.signed /\ c.grace = tx.grace
        /\ ~AcceptsContext(r, tx, reduction) => c = r
    BY ContextColumns, UpdateContextFacts
  <1> HIDE DEF c
  <1>3. /\ e \in Row /\ e.grace = c.grace /\ e.signed = c.signed
        /\ c.price # NoPrice => e.price = c.price /\ e.pricedAt >= c.pricedAt
    BY <1>2, EvidenceColumns, UpdateEvidenceFacts
  <1> HIDE DEF e
  <1>4. /\ s.grace = e.grace /\ s.signed = e.signed
        /\ s.price = e.price /\ s.pricedAt = e.pricedAt
    BY <1>3, AdjustmentColumns
  <1> HIDE DEF s
  <1>5. QED
    BY <1>1, <1>2, <1>3, <1>4

\* The signed date and the grace period of a row are those of one payload,
\* and no context processed is newer.
ContextInv ==
  row # NoRow =>
    /\ \E n \in delivered : n.signed = row.signed /\ n.grace = row.grace
    /\ \A m \in delivered : m.adjustment = NoAdjustment => m.signed <= row.signed

LEMMA SaveKeepsContext ==
  ASSUME IInv, ContextInv, NEW tx \in sent, Save(tx)
  PROVE  ContextInv'
  <1>1. /\ tx \in Payload /\ delivered' = delivered \cup {tx}
        /\ \A m \in delivered : m \in Payload /\ m.signed \in Nat
    BY DEF IInv, TypeOK, Save, Payload
  <1>2. CASE row = NoRow
    <2>1. row' = SaveNew(tx)
      BY <1>2 DEF Save
    <2>2. row'.signed = tx.signed /\ row'.grace = tx.grace
      BY <2>1 DEF SaveNew
    <2>3. delivered = {}
      BY <1>2 DEF IInv, RowFromPayload
    <2>4. tx.signed <= tx.signed
      BY <1>1 DEF Payload
    <2> QED
      BY <1>1, <2>2, <2>3, <2>4 DEF ContextInv
  <1>3. CASE row # NoRow
    <2> DEFINE reduction == Reduce(row.adjustment, row.adjustedAt,
                                   tx.adjustment, tx.adjustedAt)
    <2>1. row' = SaveExisting(row, tx) /\ row \in Row
      BY <1>3 DEF Save, IInv, TypeOK
    <2>2. /\ AcceptsContext(row, tx, reduction) =>
               row'.signed = tx.signed /\ row'.grace = tx.grace
          /\ ~AcceptsContext(row, tx, reduction) =>
               row'.signed = row.signed /\ row'.grace = row.grace
      BY <1>1, <2>1, ExistingColumns
    <2>3. row.signed \in Nat /\ tx.signed \in Nat /\ tx.signed # Unset
      BY <1>1, <2>1 DEF Row, Payload, Unset
    <2>4. /\ AcceptsContext(row, tx, reduction) => tx.signed > row.signed
          /\ ~AcceptsContext(row, tx, reduction) /\ tx.adjustment = NoAdjustment
               => tx.signed <= row.signed
      BY <2>3 DEF AcceptsContext, Unset
    <2> HIDE DEF reduction
    <2>5. CASE AcceptsContext(row, tx, reduction)
      BY <1>1, <1>3, <2>2, <2>3, <2>4, <2>5 DEF ContextInv
    <2>6. CASE ~AcceptsContext(row, tx, reduction)
      BY <1>1, <1>3, <2>2, <2>3, <2>4, <2>6 DEF ContextInv
    <2> QED
      BY <2>5, <2>6
  <1> QED
    BY <1>2, <1>3

\* NewestContextWins: a late context changes neither the signed date nor the
\* grace period that a newer one brought.
THEOREM ContextsNewest == Spec => []NewestContextWins
  <1>1. Init => ContextInv
    BY DEF Init, ContextInv
  <1>2. IInv /\ ContextInv /\ [Next]_vars => ContextInv'
    <2> SUFFICES ASSUME IInv, ContextInv, [Next]_vars PROVE ContextInv'
      OBVIOUS
    <2>1. CASE \E tx \in sent : Save(tx)
      BY <2>1, SaveKeepsContext
    <2>2. CASE ~\E tx \in sent : Save(tx)
      <3>1. UNCHANGED <<delivered, row>>
        BY <2>2 DEF Next, vars, Refund, ReverseRefund, Revoke, OpenGrace,
                    Inform, DeviceFetch
      <3> QED
        BY <3>1 DEF ContextInv
    <2> QED
      BY <2>1, <2>2
  <1>3. IInv /\ ContextInv => NewestContextWins
    <2> SUFFICES ASSUME IInv, ContextInv, NEW m \in delivered,
                        m.adjustment = NoAdjustment
                 PROVE  /\ row.signed >= m.signed
                        /\ \E n \in delivered : /\ n.signed >= m.signed
                                                /\ n.grace = row.grace
      BY DEF NewestContextWins
    <2>1. row # NoRow /\ row \in Row /\ m \in Payload
      BY DEF IInv, RowFromPayload, TypeOK
    <2>2. row.signed \in Nat /\ m.signed \in Nat /\ m.signed <= row.signed
      BY <2>1 DEF ContextInv, Row, Payload
    <2>3. PICK n \in delivered : n.signed = row.signed /\ n.grace = row.grace
      BY <2>1 DEF ContextInv
    <2> QED
      BY <2>2, <2>3
  <1>4. QED
    BY <1>1, <1>2, <1>3, Invariant, PTL DEF Spec

\* EvidenceWrittenOnce: the price of a row never changes, its date only grows.
THEOREM EvidenceStays == Spec => EvidenceWrittenOnce
  <1> DEFINE Kept == (row # NoRow /\ row.price # NoPrice)
                       => row'.price = row.price /\ row'.pricedAt >= row.pricedAt
  <1>1. ASSUME IInv, NEW tx \in sent, Save(tx), row # NoRow, row.price # NoPrice
        PROVE  row'.price = row.price /\ row'.pricedAt >= row.pricedAt
    <2>1. row \in Row /\ tx \in Payload /\ row' = SaveExisting(row, tx)
      BY <1>1 DEF IInv, TypeOK, Save
    <2> QED
      BY <1>1, <2>1, ExistingColumns
  <1>2. ASSUME IInv, row # NoRow, row' = row
        PROVE  row'.price = row.price /\ row'.pricedAt >= row.pricedAt
    BY <1>2 DEF IInv, TypeOK, Row
  <1>3. IInv /\ [Next]_vars => [Kept]_vars
    BY <1>1, <1>2, RowChangesBySave
  <1>4. QED
    BY <1>3, Invariant, PTL DEF Spec, EvidenceWrittenOnce
-----------------------------------------------------------------------------
(***************************************************************************)
(* What a reversal leaves behind.                                          *)
(***************************************************************************)

\* Apple revoked the purchase, or refunded it at t or later.
TakenSince(signatures, t) ==
  \E a \in signatures :
    \/ a.adjustment = "revoke"
    \/ a.adjustment = "refund" /\ a.signed >= t

\* Payloads that show a revocation although a reversal was signed before or
\* shows it itself: Apple took the purchase away for another reason.
SentInv ==
  /\ \A m \in sent : m.signed <= clock
  /\ "revoked" \in standing => \E a \in sent : a.adjustment = "revoke"
  /\ "refunded" \in standing =>
       \A r \in sent :
         r.adjustment = "refund_reversed" => TakenSince(sent, r.signed)
  /\ \A r, m \in sent :
       (/\ r.adjustment = "refund_reversed" /\ m.revoked
        /\ (m = r \/ m.signed > r.signed)) => TakenSince(sent, r.signed)

\* A row that is recorded as reversed knows a context as new as the reversal,
\* and is revoked only if Apple took the purchase away again.
ReversedRow ==
  row # NoRow /\ row.adjustment = "refund_reversed" =>
    /\ row.signed >= row.adjustedAt
    /\ row.revoked => TakenSince(sent, row.adjustedAt)

\* A reversal is recorded for a refunded row only, and stays by doing nothing.
LEMMA ReducedToReversal ==
  ASSUME NEW current \in Recorded, NEW at \in Nat,
         NEW incoming \in Incoming \cup {NoAdjustment}, NEW incomingAt \in Nat,
         NEW r, r = Reduce(current, at, incoming, incomingAt),
         r.adjustment = "refund_reversed"
  PROVE  \/ /\ current = "refund" /\ incoming = "refund_reversed"
            /\ r.at = incomingAt /\ r.accepted /\ r.changed
         \/ current = "refund_reversed" /\ r.at = at /\ ~r.changed
  <1> DEFINE next == NextAdjustment(current, incoming)
  <1>1. CASE incoming = NoAdjustment
    BY <1>1 DEF Reduce
  <1>2. CASE incoming # NoAdjustment
    <2>1. incoming \in Incoming /\ incoming \in Recorded
      BY <1>2 DEF Incoming, Recorded, Adjustments
    <2>2. next = "refund_reversed" =>
            current = "refund" /\ incoming = "refund_reversed"
      BY <2>1 DEF NextAdjustment, Incoming
    <2>3. Priority["refund_reversed"] = 1 /\ Priority["refund"] = 3
      BY DEF Priority
    <2> HIDE DEF next
    <2>4. CASE at # Unset /\ incomingAt < at
      BY <1>2, <2>4 DEF Reduce
    <2>5. CASE at # Unset /\ incomingAt = at
      BY <1>2, <2>2, <2>3, <2>5 DEF Reduce, next
    <2>6. CASE at = Unset \/ incomingAt > at
      <3>1. r = [adjustment |-> next, at |-> incomingAt, accepted |-> TRUE,
                 changed |-> next # current \/ incomingAt # at]
        BY <1>2, <2>6 DEF Reduce, next, Unset
      <3>2. next = "refund_reversed"
        BY <3>1
      <3>3. next # current
        BY <2>2, <3>2
      <3>4. (next # current \/ incomingAt # at) = TRUE
        BY <3>3
      <3>5. r = [adjustment |-> next, at |-> incomingAt, accepted |-> TRUE,
                 changed |-> TRUE]
        BY <3>1, <3>4, Zenon
      <3> QED
        BY <2>2, <3>2, <3>5
    <2> QED
      BY <2>4, <2>5, <2>6
  <1> QED
    BY <1>1, <1>2

\* A save that leaves a row recorded as reversed has applied the reversal, or
\* found it there and perhaps taken a newer context.
LEMMA SaveToReversal ==
  ASSUME NEW r, NEW tx, Consistent(r, tx), NEW reduction,
         reduction = Reduce(r.adjustment, r.adjustedAt,
                            tx.adjustment, tx.adjustedAt),
         SaveExisting(r, tx).adjustment = "refund_reversed"
  PROVE  LET s == SaveExisting(r, tx)
         IN \/ /\ tx.adjustment = "refund_reversed" /\ s.adjustedAt = tx.signed
               /\ s.signed >= tx.signed /\ s.revoked = tx.revoked
            \/ /\ r.adjustment = "refund_reversed" /\ s.adjustedAt = r.adjustedAt
               /\ s.signed >= r.signed
               /\ \/ s.revoked = r.revoked
                  \/ tx.signed > r.signed /\ s.revoked = tx.revoked
  <1> DEFINE applies == AppliesRevocation(r, tx, reduction)
             c == UpdateContext(r, tx, reduction)
             e == UpdateEvidence(c, tx)
             s == UpdateAdjustment(e, applies, tx, reduction)
  <1>1. s = SaveExisting(r, tx)
    BY DEF SaveExisting
  <1>2. /\ r \in Row /\ tx \in Payload
        /\ r.adjustment \in Recorded /\ r.adjustedAt \in 0 .. MaxTime
        /\ tx.adjustment \in Incoming \cup {NoAdjustment}
        /\ tx.adjustedAt \in 0 .. MaxTime
        /\ tx.adjustment # NoAdjustment => tx.adjustedAt = tx.signed
        /\ tx.adjustment # NoAdjustment => tx.adjustedAt # Unset
        /\ r.adjustment = NoAdjustment => r.adjustedAt = Unset
        /\ r.signed \in Nat /\ tx.signed \in Nat /\ r.signed # Unset
        /\ tx.signed # Unset /\ r.adjustedAt \in Nat /\ tx.adjustedAt \in Nat
    BY DEF Consistent, Row, Payload, Recorded, Incoming, Unset
  <1>3. s.adjustment = reduction.adjustment /\ s.adjustedAt = reduction.at
        /\ s.signed >= r.signed
    BY <1>1, SaveExistingFacts
  <1>4. /\ reduction.adjustment \in Recorded /\ reduction.at \in 0 .. MaxTime
    <2>1. /\ r.adjustment \in Recorded /\ r.adjustedAt \in Nat
          /\ tx.adjustment \in Incoming \cup {NoAdjustment}
          /\ tx.adjustedAt \in Nat
          /\ tx.adjustment # NoAdjustment => tx.adjustedAt # Unset
          /\ r.adjustment = NoAdjustment => r.adjustedAt = Unset
      BY <1>2
    <2>2. /\ reduction.adjustment \in Recorded
          /\ reduction.at \in {r.adjustedAt, tx.adjustedAt}
      BY <2>1, ReduceFacts
    <2> QED
      BY <1>2, <2>2
  <1>5. \/ /\ r.adjustment = "refund" /\ tx.adjustment = "refund_reversed"
           /\ reduction.at = tx.adjustedAt /\ reduction.accepted
           /\ reduction.changed
        \/ /\ r.adjustment = "refund_reversed"
           /\ reduction.at = r.adjustedAt /\ ~reduction.changed
    <2>1. /\ r.adjustment \in Recorded /\ r.adjustedAt \in Nat
          /\ tx.adjustment \in Incoming \cup {NoAdjustment}
          /\ tx.adjustedAt \in Nat
          /\ reduction.adjustment = "refund_reversed"
      BY <1>1, <1>2, <1>3
    <2> QED
      BY <2>1, ReducedToReversal
  <1>6. /\ AcceptsContext(r, tx, reduction) => s.signed = tx.signed
        /\ ~AcceptsContext(r, tx, reduction) => s.signed = r.signed
    BY <1>1, <1>2, ExistingColumns
  <1>7. c \in Row /\ (\/ c.revoked = r.revoked
                      \/ /\ AcceptsContext(r, tx, reduction)
                         /\ c.revoked = tx.revoked)
    BY <1>2, UpdateContextFacts
  <1>8. e \in Row /\ e.revoked = c.revoked
    BY <1>2, <1>7, UpdateEvidenceFacts
  <1>9. /\ ~reduction.changed => s = e
        /\ reduction.changed /\ applies => s.revoked = tx.revoked
    BY <1>2, <1>4, <1>8, UpdateAdjustmentFacts
  <1>10. reduction.adjustment = "refund_reversed"
    BY <1>1, <1>3
  <1> HIDE DEF c, e, s
  <1>11. CASE r.adjustment = "refund" /\ reduction.changed
    <2>1. applies
      BY <1>5, <1>10, <1>11 DEF AppliesRevocation
    <2>2. s.signed >= tx.signed
      BY <1>2, <1>5, <1>6, <1>11 DEF AcceptsContext
    <2>3. tx.adjustment = "refund_reversed" /\ s.adjustedAt = tx.signed
      BY <1>2, <1>3, <1>5, <1>11 DEF NoAdjustment
    <2> QED
      BY <1>1, <1>9, <1>11, <2>1, <2>2, <2>3
  <1>12. CASE r.adjustment = "refund_reversed" /\ ~reduction.changed
    <2>1. s.revoked = c.revoked
      BY <1>8, <1>9, <1>12
    <2>2. AcceptsContext(r, tx, reduction) => tx.signed > r.signed
      BY <1>2 DEF AcceptsContext
    <2> QED
      BY <1>1, <1>3, <1>5, <1>7, <1>12, <2>1, <2>2
  <1> QED
    BY <1>5, <1>11, <1>12

\* A payload that is signed keeps what SentInv says of the others.
LEMMA TakenStays ==
  ASSUME sent \subseteq sent'
  PROVE  \A t : TakenSince(sent, t) => TakenSince(sent', t)
  BY DEF TakenSince

\* A signature in the terms of the payload that is new.
LEMMA SignedPayload ==
  ASSUME NEW t \in 1 .. MaxTime, NEW revoked \in BOOLEAN,
         NEW adjustment \in Incoming \cup {NoAdjustment},
         NEW grace \in Instants, Sign(t, revoked, adjustment, grace),
         revoked => standing' # {}
  PROVE  \E n \in Payload :
           /\ sent' = sent \cup {n} /\ n.signed = t
           /\ n.revoked => standing' # {}
           /\ n.adjustment = adjustment
  <1>1. PICK p \in Prices \cup {NoPrice} :
          sent' = sent \cup
            {[signed |-> t, expires |-> Expiry, grace |-> grace,
              revoked |-> revoked, price |-> p,
              pricedAt |-> IF p = NoPrice THEN Unset ELSE t,
              adjustment |-> adjustment,
              adjustedAt |-> IF adjustment = NoAdjustment THEN Unset ELSE t]}
    BY DEF Sign
  <1> DEFINE n == [signed |-> t, expires |-> Expiry, grace |-> grace,
                   revoked |-> revoked, price |-> p,
                   pricedAt |-> IF p = NoPrice THEN Unset ELSE t,
                   adjustment |-> adjustment,
                   adjustedAt |-> IF adjustment = NoAdjustment THEN Unset ELSE t]
  <1>2. n \in Payload
    BY LedgerAssumption DEF Payload, Incoming, Unset
  <1>3. n.signed = t /\ n.revoked = revoked /\ n.adjustment = adjustment
    OBVIOUS
  <1> QED
    BY <1>1, <1>2, <1>3

\* Apple's steps: a new payload is as late as the clock, and shows a
\* revocation only while Apple has taken the purchase away.
LEMMA SentStep ==
  ASSUME TypeOK, SentInv,
         Refund \/ ReverseRefund \/ Revoke \/ OpenGrace \/ Inform \/ DeviceFetch
  PROVE  \E n \in Payload :
           /\ sent' = sent \cup {n}
           /\ clock' = n.signed /\ n.signed >= clock
           /\ n.revoked => standing' # {}
           /\ \/ standing' \subseteq standing
              \/ /\ standing' = standing \cup {"refunded"}
                 /\ n.adjustment = "refund"
              \/ /\ standing' = standing \cup {"revoked"}
                 /\ n.adjustment = "revoke"
           /\ n.adjustment = "refund_reversed" => "refunded" \notin standing'
  <1>2. /\ clock \in 1 .. MaxTime /\ standing \in Standings
        /\ graceUntil \in Instants /\ Unset \in Instants
        /\ MaxTime \in Nat /\ GraceLength \in Nat
    BY LedgerAssumption DEF TypeOK, Instants, Unset
  <1>3. \A t \in Instants :
          Tick(t) => t \in 1 .. MaxTime /\ clock' = t /\ t >= clock
    BY <1>2 DEF Tick, Instants
  <1>4. \A a \in {"refund", "revoke", "refund_reversed", NoAdjustment} :
          a \in Incoming \cup {NoAdjustment}
    BY DEF Incoming
  <1>5. CASE Refund
    <2>1. PICK t \in Instants, revoked \in BOOLEAN :
            Tick(t) /\ Sign(t, revoked, "refund", Unset)
      BY <1>5 DEF Refund
    <2>2. standing' = standing \cup {"refunded"} /\ standing' # {}
      BY <1>5 DEF Refund
    <2>3. PICK n \in Payload :
            /\ sent' = sent \cup {n} /\ n.signed = t
            /\ n.adjustment = "refund"
      BY <1>2, <1>3, <1>4, <2>1, <2>2, SignedPayload
    <2> QED
      BY <1>3, <2>1, <2>2, <2>3
  <1>6. CASE ReverseRefund
    <2>1. PICK t \in Instants, revoked \in BOOLEAN :
            /\ Tick(t) /\ Sign(t, revoked, "refund_reversed", Unset)
            /\ revoked => standing' # {}
      <3>1. (standing' # {}) \in BOOLEAN
        OBVIOUS
      <3> QED
        BY <1>6, <3>1 DEF ReverseRefund
    <2>2. standing' \subseteq standing /\ "refunded" \notin standing'
      BY <1>6 DEF ReverseRefund
    <2>3. PICK n \in Payload :
            /\ sent' = sent \cup {n} /\ n.signed = t
            /\ n.revoked => standing' # {}
            /\ n.adjustment = "refund_reversed"
      BY <1>2, <1>3, <1>4, <2>1, SignedPayload
    <2> QED
      BY <1>3, <2>1, <2>2, <2>3
  <1>7. CASE Revoke
    <2>1. PICK t \in Instants, revoked \in BOOLEAN :
            Tick(t) /\ Sign(t, revoked, "revoke", Unset)
      BY <1>7 DEF Revoke
    <2>2. standing' = standing \cup {"revoked"} /\ standing' # {}
      BY <1>7 DEF Revoke
    <2>3. PICK n \in Payload :
            /\ sent' = sent \cup {n} /\ n.signed = t
            /\ n.adjustment = "revoke"
      BY <1>2, <1>3, <1>4, <2>1, <2>2, SignedPayload
    <2> QED
      BY <1>3, <2>1, <2>2, <2>3
  <1>8. CASE OpenGrace \/ Inform \/ DeviceFetch
    <2>1. PICK t \in Instants, revoked \in BOOLEAN, grace \in Instants :
            /\ Tick(t) /\ Sign(t, revoked, NoAdjustment, grace)
            /\ revoked => standing # {}
      <3>1. \A t \in Instants : Tick(t) => t + GraceLength \in Instants
        BY <1>2, <1>3 DEF Instants
      <3>2. CASE OpenGrace
        BY <3>1, <3>2 DEF OpenGrace
      <3>3. CASE Inform
        BY <1>2, <3>3 DEF Inform
      <3>4. CASE DeviceFetch
        BY <1>2, <3>4 DEF DeviceFetch
      <3> QED
        BY <1>8, <3>2, <3>3, <3>4
    <2>2. standing' = standing
      BY <1>8 DEF OpenGrace, Inform, DeviceFetch
    <2>3. PICK n \in Payload :
            /\ sent' = sent \cup {n} /\ n.signed = t
            /\ n.revoked => standing' # {}
            /\ n.adjustment = NoAdjustment
      BY <1>2, <1>3, <1>4, <2>1, <2>2, SignedPayload
    <2> QED
      BY <1>3, <2>1, <2>2, <2>3 DEF NoAdjustment
  <1> QED
    BY <1>5, <1>6, <1>7, <1>8

\* Apple's steps keep SentInv.
LEMMA SentKept ==
  ASSUME TypeOK, SentInv,
         Refund \/ ReverseRefund \/ Revoke \/ OpenGrace \/ Inform \/ DeviceFetch
  PROVE  SentInv' /\ sent \subseteq sent'
  <1>1. PICK n \in Payload :
          /\ sent' = sent \cup {n}
          /\ clock' = n.signed /\ n.signed >= clock
          /\ n.revoked => standing' # {}
          /\ \/ standing' \subseteq standing
             \/ /\ standing' = standing \cup {"refunded"}
                /\ n.adjustment = "refund"
             \/ /\ standing' = standing \cup {"revoked"}
                /\ n.adjustment = "revoke"
          /\ n.adjustment = "refund_reversed" => "refunded" \notin standing'
    BY SentStep
  <1>2. /\ \A m \in sent : m \in Payload /\ m.signed \in Nat /\ m.signed <= clock
        /\ clock \in Nat /\ n.signed \in Nat
    BY DEF TypeOK, SentInv, Payload
  <1>3. \A t : TakenSince(sent, t) => TakenSince(sent', t)
    BY <1>1, TakenStays
  <1>4. \A m \in sent' : m.signed <= clock'
    BY <1>1, <1>2
  <1>5. "revoked" \in standing' => \E a \in sent' : a.adjustment = "revoke"
    BY <1>1 DEF SentInv
  <1>6. \A r \in sent' :
          "refunded" \in standing' /\ r.adjustment = "refund_reversed"
            => TakenSince(sent', r.signed)
    <2> SUFFICES ASSUME NEW r \in sent', "refunded" \in standing',
                        r.adjustment = "refund_reversed"
                 PROVE  TakenSince(sent', r.signed)
      OBVIOUS
    <2>1. r \in sent
      BY <1>1
    <2>2. CASE "refunded" \in standing
      BY <1>3, <2>1, <2>2 DEF SentInv
    <2>3. CASE n.adjustment = "refund"
      BY <1>1, <1>2, <2>1, <2>3 DEF TakenSince
    <2> QED
      BY <1>1, <2>2, <2>3
  <1>7. ASSUME NEW r \in sent', NEW m \in sent',
               r.adjustment = "refund_reversed", m.revoked,
               m = r \/ m.signed > r.signed
        PROVE  TakenSince(sent', r.signed)
    <2>1. CASE m \in sent /\ r \in sent
      BY <1>3, <1>7, <2>1 DEF SentInv
    <2>2. CASE m = n
      <3>1. standing' # {} /\ standing' \subseteq {"refunded", "revoked"}
        BY <1>1, <1>7, <2>2 DEF TypeOK, Standings
      <3>2. CASE "revoked" \in standing'
        BY <1>5, <3>2 DEF TakenSince
      <3>3. CASE "refunded" \in standing'
        BY <1>6, <1>7, <3>3
      <3> QED
        BY <3>1, <3>2, <3>3
    <2>3. CASE m # n /\ r = n
      BY <1>1, <1>2, <1>7, <2>3
    <2> QED
      BY <1>1, <2>1, <2>2, <2>3
  <1> QED
    BY <1>1, <1>4, <1>5, <1>6, <1>7 DEF SentInv

\* A save keeps a reversed row free of revocations that were reversed.
LEMMA SaveKeepsReversed ==
  ASSUME IInv, SentInv, ReversedRow, NEW tx \in sent, Save(tx)
  PROVE  ReversedRow'
  <1>1. /\ tx \in Payload /\ sent' = sent
        /\ tx.adjustment \in Adverse => tx.revoked
        /\ tx.adjustment # NoAdjustment => tx.adjustedAt = tx.signed
    BY DEF IInv, TypeOK, PayloadsConsistent, Save
  <1>2. \A t : TakenSince(sent, t) => TakenSince(sent', t)
    BY <1>1, TakenStays
  <1> SUFFICES ASSUME row' # NoRow, row'.adjustment = "refund_reversed"
               PROVE  /\ row'.signed >= row'.adjustedAt
                      /\ row'.revoked => TakenSince(sent', row'.adjustedAt)
    BY DEF ReversedRow
  <1>3. CASE row = NoRow
    <2> DEFINE reduction == Reduce(NoAdjustment, Unset,
                                   tx.adjustment, tx.adjustedAt)
    <2>1. row'.adjustment = reduction.adjustment
      BY <1>3 DEF Save, SaveNew
    <2>2. /\ NoAdjustment \in Recorded /\ Unset \in Nat
          /\ tx.adjustment \in Incoming \cup {NoAdjustment}
          /\ tx.adjustedAt \in Nat
      BY <1>1 DEF Payload, Recorded, Incoming, Unset
    <2>3. NoAdjustment \in {"refund", "refund_reversed"}
      BY <2>1, <2>2, ReducedToReversal
    <2> QED
      BY <2>3 DEF NoAdjustment
  <1>4. CASE row # NoRow
    <2>1. row' = SaveExisting(row, tx) /\ Consistent(row, tx)
      BY <1>1, <1>4
         DEF Save, Consistent, IInv, TypeOK, AdverseRevoked, WatermarkIsNewest
    <2>2. CASE /\ tx.adjustment = "refund_reversed"
               /\ row'.adjustedAt = tx.signed
               /\ row'.signed >= tx.signed /\ row'.revoked = tx.revoked
      BY <1>2, <2>2 DEF SentInv
    <2>3. CASE /\ row.adjustment = "refund_reversed"
               /\ row'.adjustedAt = row.adjustedAt /\ row'.signed >= row.signed
               /\ \/ row'.revoked = row.revoked
                  \/ tx.signed > row.signed /\ row'.revoked = tx.revoked
      <3>1. /\ row.signed >= row.adjustedAt
            /\ row.revoked => TakenSince(sent, row.adjustedAt)
        BY <1>4, <2>3 DEF ReversedRow
      <3>2. /\ row \in Row /\ row.signed \in Nat /\ row.adjustedAt \in Nat
            /\ tx.signed \in Nat /\ row' \in Row /\ row'.signed \in Nat
        BY <1>1, <2>1, SaveExistingFacts DEF Consistent, Row, Payload
      <3>3. row'.signed >= row'.adjustedAt
        BY <2>3, <3>1, <3>2
      <3>4. ASSUME tx.signed > row.signed, tx.revoked
            PROVE  TakenSince(sent, row.adjustedAt)
        <4>1. PICK n \in delivered : /\ n.adjustment # NoAdjustment
                                     /\ n.adjustedAt = row.adjustedAt
          BY <1>4, <2>3 DEF IInv, WatermarkIsNewest, NoAdjustment
        <4>2. n \in sent /\ n.adjustedAt = n.signed /\ n \in Payload
          BY <4>1 DEF IInv, TypeOK, PayloadsConsistent
        <4>3. n.adjustment = "refund_reversed"
          BY <2>3, <4>1, <4>2
             DEF IInv, WatermarkIsNewest, Payload, NoAdjustment, Adverse
        <4>4. tx.signed > n.signed
          BY <3>1, <3>2, <3>4, <4>1, <4>2
        <4> QED
          BY <3>4, <4>1, <4>2, <4>3, <4>4 DEF SentInv
      <3> QED
        BY <1>2, <2>3, <3>1, <3>3, <3>4
    <2> QED
      BY <2>1, <2>2, <2>3, SaveToReversal
  <1> QED
    BY <1>3, <1>4

\* ReversalRestores: a recorded reversal leaves no revocation behind unless
\* Apple took the purchase away again, in whatever order payloads arrive.
THEOREM ReversalsRestore == Spec => []ReversalRestores
  <1> DEFINE Inv == SentInv /\ ReversedRow
  <1>1. Init => Inv
    BY DEF Init, SentInv, ReversedRow
  <1>2. IInv /\ Inv /\ [Next]_vars => Inv'
    <2> SUFFICES ASSUME IInv, SentInv, ReversedRow, [Next]_vars
                 PROVE  SentInv' /\ ReversedRow'
      OBVIOUS
    <2>1. CASE Refund \/ ReverseRefund \/ Revoke \/ OpenGrace \/ Inform
               \/ DeviceFetch
      <3>1. SentInv' /\ sent \subseteq sent' /\ row' = row
        BY <2>1, SentKept, AppleStep DEF IInv
      <3>2. \A t : TakenSince(sent, t) => TakenSince(sent', t)
        BY <3>1, TakenStays
      <3> QED
        BY <3>1, <3>2 DEF ReversedRow
    <2>2. ASSUME NEW tx \in sent, Save(tx) PROVE SentInv' /\ ReversedRow'
      <3>1. UNCHANGED <<clock, standing, sent>>
        BY <2>2 DEF Save
      <3> QED
        BY <2>2, <3>1, SaveKeepsReversed DEF SentInv, TakenSince
    <2>3. CASE UNCHANGED vars
      BY <2>3 DEF vars, SentInv, ReversedRow, TakenSince
    <2> QED
      BY <2>1, <2>2, <2>3 DEF Next
  <1>3. IInv /\ Inv => ReversalRestores
    <2> SUFFICES ASSUME IInv, ReversedRow, row # NoRow, row.revoked,
                        row.adjustment = "refund_reversed",
                        \A m \in sent : m.adjustment \in Adverse =>
                          m.adjustment = "refund" /\ m.signed < row.adjustedAt
                 PROVE  FALSE
      BY DEF ReversalRestores
    <2>1. PICK a \in sent : \/ a.adjustment = "revoke"
                            \/ /\ a.adjustment = "refund"
                               /\ a.signed >= row.adjustedAt
      BY DEF ReversedRow, TakenSince
    <2>2. row.adjustedAt \in Nat /\ a.signed \in Nat
      BY DEF IInv, TypeOK, Row, Payload
    <2> QED
      BY <2>1, <2>2 DEF Adverse
  <1> HIDE DEF Inv
  <1>4. QED
    BY <1>1, <1>2, <1>3, Invariant, PTL DEF Spec
=============================================================================
