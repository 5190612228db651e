----------------------------- MODULE AppleLedger -----------------------------
(***************************************************************************)
(* The life of ONE Apple transaction and of its row in apple_transactions. *)
(*                                                                         *)
(* Apple (external) purchases, refunds, reverses refunds, revokes, opens a *)
(* billing grace period and signs payloads; a device asks StoreKit for a   *)
(* signed transaction.  Every signed payload stays in `sent`, so Save may  *)
(* take it late, again, in another order, or never: notifications and      *)
(* client verifications reach the server over HTTP with no order between   *)
(* them.  Save is _save_apple_transaction (atomic: it runs under the       *)
(* advisory lock of the original transaction).                             *)
(***************************************************************************)
EXTENDS AppleEconomics, FiniteSets

CONSTANTS MaxTime,    \* bound: the last instant of Apple's clock
          MaxSent,    \* bound: signed payloads in a behaviour
          Expiry,     \* when the purchased period ends
          GraceLength,\* how long the grace period lasts
          Prices      \* prices a payload may show

ASSUME LedgerAssumption ==
  /\ MaxTime \in Nat \ {0} /\ MaxSent \in Nat
  /\ Expiry \in Nat \ {0} /\ GraceLength \in Nat \ {0}
  /\ NoPrice \notin Prices

VARIABLES clock,      \* Apple's clock, the source of every signed date
          standing,   \* Apple's own view: {}, or what holds of the purchase
          graceUntil, \* Apple's own view: end of the grace period, or Unset
          sent,       \* payloads signed by Apple
          delivered,  \* payloads the server has processed at least once
          row         \* the row of the transaction, or NoRow

vars == <<clock, standing, graceUntil, sent, delivered, row>>

NoRow == [missing |-> TRUE]

Standings == SUBSET {"refunded", "revoked"}
Instants  == 0 .. MaxTime + GraceLength
Payload ==
  [signed: 1 .. MaxTime, expires: {Expiry}, grace: Instants,
   revoked: BOOLEAN, price: Prices \cup {NoPrice}, pricedAt: 0 .. MaxTime,
   adjustment: {NoAdjustment, "refund", "revoke", "refund_reversed"},
   adjustedAt: 0 .. MaxTime]
Row ==
  [signed: 1 .. MaxTime, expires: {Expiry}, grace: Instants,
   revoked: BOOLEAN, price: Prices \cup {NoPrice}, pricedAt: 0 .. MaxTime,
   adjustment: Adjustments \cup {NoAdjustment}, adjustedAt: 0 .. MaxTime]

TypeOK ==
  /\ clock \in 1 .. MaxTime
  /\ standing \in Standings
  /\ graceUntil \in Instants
  /\ sent \subseteq Payload
  /\ delivered \subseteq sent
  /\ row \in Row \cup {NoRow}

Init ==
  /\ clock = 1
  /\ standing = {}
  /\ graceUntil = Unset
  /\ sent = {} /\ delivered = {}
  /\ row = NoRow

-----------------------------------------------------------------------------
(***************************************************************************)
(* Apple and the device.                                                   *)
(***************************************************************************)

\* Apple signs a payload at instant t; only notifications carry an
\* adjustment, and only those with renewal information a grace period.
Sign(t, revoked, adjustment, grace) ==
  \E p \in Prices \cup {NoPrice} :
    /\ Cardinality(sent) < MaxSent
    /\ sent' = sent \cup
         {[signed |-> t, expires |-> Expiry, grace |-> grace,
           revoked |-> revoked, price |-> p,
           pricedAt |-> IF p = NoPrice THEN Unset ELSE t,
           adjustment |-> adjustment,
           adjustedAt |-> IF adjustment = NoAdjustment THEN Unset ELSE t]}

\* Two events may carry the same instant.
Tick(t) == t \in {clock, clock + 1} /\ t <= MaxTime /\ clock' = t

Refund ==
  /\ "refunded" \notin standing
  /\ standing' = standing \cup {"refunded"}
  /\ \E t \in Instants : Tick(t) /\ Sign(t, TRUE, "refund", Unset)
  /\ UNCHANGED <<graceUntil, delivered, row>>

\* The payload still shows a revocation if Apple revoked the purchase too.
ReverseRefund ==
  /\ "refunded" \in standing
  /\ standing' = standing \ {"refunded"}
  /\ \E t \in Instants :
       Tick(t) /\ Sign(t, standing' # {}, "refund_reversed", Unset)
  /\ UNCHANGED <<graceUntil, delivered, row>>

Revoke ==
  /\ "revoked" \notin standing
  /\ standing' = standing \cup {"revoked"}
  /\ \E t \in Instants : Tick(t) /\ Sign(t, TRUE, "revoke", Unset)
  /\ UNCHANGED <<graceUntil, delivered, row>>

\* DID_FAIL_TO_RENEW with a grace period, after the paid period.
OpenGrace ==
  /\ standing = {} /\ graceUntil = Unset
  /\ \E t \in Instants :
       /\ Tick(t) /\ t >= Expiry
       /\ graceUntil' = t + GraceLength
       /\ Sign(t, FALSE, NoAdjustment, t + GraceLength)
  /\ UNCHANGED <<standing, delivered, row>>

\* Any other processable notification (SUBSCRIBED, DID_RENEW, EXPIRED...),
\* whose renewal information repeats the grace period Apple knows of.
Inform ==
  /\ \E t \in Instants :
       Tick(t) /\ Sign(t, standing # {}, NoAdjustment, graceUntil)
  /\ UNCHANGED <<standing, graceUntil, delivered, row>>

\* The device obtains a signed transaction for the verify endpoint; StoreKit
\* may serve one that does not show a revocation yet.
DeviceFetch ==
  /\ \E t \in Instants, revoked \in {FALSE, standing # {}} :
       Tick(t) /\ Sign(t, revoked, NoAdjustment, Unset)
  /\ UNCHANGED <<standing, graceUntil, delivered, row>>

(***************************************************************************)
(* The server.                                                             *)
(***************************************************************************)
Save(tx) ==
  /\ row' = IF row = NoRow THEN SaveNew(tx) ELSE SaveExisting(row, tx)
  /\ delivered' = delivered \cup {tx}
  /\ UNCHANGED <<clock, standing, graceUntil, sent>>

Next ==
  \/ Refund \/ ReverseRefund \/ Revoke
  \/ OpenGrace \/ Inform \/ DeviceFetch
  \/ \E tx \in sent : Save(tx)

Spec == Init /\ [][Next]_vars

-----------------------------------------------------------------------------
(***************************************************************************)
(* Properties.                                                             *)
(***************************************************************************)
Adverse == {"refund", "revoke"}

\* A REVOKE that was processed decides the row for good, whatever was
\* processed before it and in whatever order the payloads arrived: the row
\* says revoke and gives no entitlement.
RevokeDecides ==
  \A m \in delivered :
    m.adjustment = "revoke" => row.adjustment = "revoke" /\ row.revoked

\* A processed REFUND takes the entitlement away unless a reversal signed
\* later was processed too: no duplicate, stale reversal, client restore or
\* late notification hands it back.
RefundHolds ==
  \A m \in delivered :
    (/\ m.adjustment \in Adverse
     /\ \A n \in delivered :
          n.adjustment = "refund_reversed" => n.signed <= m.signed)
      => row.revoked

\* A refund that the ledger records as reversed leaves no revocation behind
\* unless Apple revoked the purchase or refunded it again: a payload signed while
\* the refund stood cannot bring the revocation back when it arrives late.
ReversalRestores ==
  (/\ row # NoRow
   /\ row.adjustment = "refund_reversed"
   /\ \A m \in sent :
        m.adjustment \in Adverse =>
          m.adjustment = "refund" /\ m.signed < row.adjustedAt)
    => ~row.revoked

\* Among the payloads without an adjustment the newest signed one decides
\* the grace period: an older one that arrives late changes nothing.
NewestContextWins ==
  \A m \in delivered :
    m.adjustment = NoAdjustment =>
      /\ row.signed >= m.signed
      /\ row.grace # m.grace =>
           \E n \in delivered : /\ n.signed >= m.signed
                                /\ n.grace = row.grace

\* A step that gives the entitlement back to a refunded row records a
\* reversal.
RevocationClearedByReversalOnly ==
  [][(row # NoRow /\ row.adjustment \in Adverse /\ row.revoked)
       => (row'.revoked \/ row'.adjustment = "refund_reversed")]_vars

\* No save, however late its payload, moves a watermark of the row back.
WatermarksGrow ==
  [][row # NoRow => /\ row'.signed >= row.signed
                    /\ row'.adjustedAt >= row.adjustedAt]_vars

\* The price evidence of a row is written once; its date only moves forward.
EvidenceWrittenOnce ==
  [][(row # NoRow /\ row.price # NoPrice)
       => row'.price = row.price /\ row'.pricedAt >= row.pricedAt]_vars

\* The tests of the reconciler and of the guest status say that an expired
\* transaction stays active during its grace period.  Here: while the grace
\* period Apple opened runs and Apple refunded nothing, processing one more
\* payload does not end the entitlement.
GraceKept ==
  [][(/\ row # NoRow
      /\ graceUntil > clock
      /\ \A m \in sent : m.adjustment = NoAdjustment
      /\ Entitled(row, clock))
       => Entitled(row', clock)]_<<row>>
=============================================================================
