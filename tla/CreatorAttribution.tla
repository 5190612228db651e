-------------------------- MODULE CreatorAttribution --------------------------
(***************************************************************************)
(* creator_attribution.py: the attribution of one user to a creator's      *)
(* campaign and its conversion events.  A ledger holds both, and every     *)
(* operator here is what one call does to it; RewardedAccount calls them.  *)
(*                                                                         *)
(* Events are told apart by (provider, external_event_key), so there is    *)
(* one for the promotion, one per referral reward and one per Apple        *)
(* transaction.  Economic statuses: "unknown" also stands for the ones     *)
(* without economic value, "refunded" also for revoked.                    *)
(***************************************************************************)
EXTENDS Naturals, FiniteSets

CONSTANTS Purchases, Renewals,  \* Apple transactions of one subscription
          Referrals             \* referral rewards

Tx       == Purchases \cup Renewals
Promo    == "promo"
EventIds == Tx \cup Referrals \cup {Promo}

\* The keys of the events differ by their provider; tables are finite.
ASSUME TransactionsAssumption ==
  /\ Purchases \cap Renewals = {} /\ Tx \cap Referrals = {}
  /\ Promo \notin Tx \cup Referrals
  /\ IsFiniteSet(Tx) /\ IsFiniteSet(Referrals)

Economic == {"unknown", "confirmed", "refunded"}
NoTime   == 0
NoEvent  == [at |-> NoTime, status |-> "none"]

\* No attribution, and a new one.  The milestones of verification and
\* qualification are left out: nothing depends on them.
Unattributed ==
  [status |-> "none", at |-> NoTime, plus |-> NoTime, paid |-> NoTime]

Attributed(now) == [Unattributed EXCEPT !.status = "active", !.at = now]

Earliest(a, b) == IF a = NoTime \/ b < a THEN b ELSE a
IfUnset(a, b)  == IF a = NoTime THEN b ELSE a

\* INSERT ... ON CONFLICT DO NOTHING
Insert(events, id, at, status) ==
  IF events[id] = NoEvent
    THEN [events EXCEPT ![id] = [at |-> at, status |-> status]] ELSE events

\* acquire_creator_promo_reward_event
PromoEvent(ledger, now) ==
  LET events == Insert(ledger.events, Promo, now, "unknown")
  IN [ledger EXCEPT
        !.events = events,
        !.attribution.plus = Earliest(@, events[Promo].at)]

\* Mutated: rewards granted before the attribution count too.
ReferralConversionAlways(ledger, reward, granted) ==
  IF ledger.attribution.status # "active" THEN ledger
  ELSE [ledger EXCEPT
          !.events = Insert(@, reward, granted, "unknown"),
          !.attribution.plus = IfUnset(@, granted)]

\* record_creator_referral_conversion
ReferralConversion(ledger, reward, granted) ==
  IF ledger.attribution.status # "active" \/ granted < ledger.attribution.at
    THEN ledger
  ELSE [ledger EXCEPT
          !.events = Insert(@, reward, granted, "unknown"),
          !.attribution.plus = IfUnset(@, granted)]

\* A renewal counts if the subscription was bought after the attribution,
\* and never before, as far as apple_transactions shows.
BoughtSince(rows, since) ==
  LET bought == {rows[t].purchase : t \in Purchases} \ {NoTime}
  IN bought # {} /\ \A at \in bought : at >= since

\* _set_plus_conversion_milestone
PlusMilestone(attribution, t, at, status) ==
  IF t \in Purchases /\ status # "refunded"
    THEN [attribution EXCEPT !.plus = IfUnset(@, at)] ELSE attribution

\* Mutated: the first event that is confirmed decides.
FirstPaidMilestone(attribution, at, status) ==
  IF status = "confirmed"
    THEN [attribution EXCEPT !.paid = IfUnset(@, at)] ELSE attribution

\* _update_paid_plus_conversion_milestone
PaidMilestone(attribution, at, status) ==
  IF status = "confirmed"
    THEN [attribution EXCEPT !.paid = Earliest(@, at)] ELSE attribution

\* record_creator_apple_conversion, of the row of t and its economic status.
AppleConversion(ledger, rows, t, status) ==
  LET row == rows[t]
      known == ledger.events[t] # NoEvent
      at == IF known THEN ledger.events[t].at ELSE row.purchase
      counts ==
        /\ row.revoked = NoTime \/ status = "refunded"
        /\ ledger.attribution.status = "active"
        /\ row.purchase >= ledger.attribution.at
        /\ known \/ t \in Purchases
             \/ BoughtSince(rows, ledger.attribution.at)
  IN IF ~counts THEN ledger
     ELSE [events |-> [ledger.events EXCEPT
                         ![t] = [at |-> at, status |-> status]],
           attribution |->
             PaidMilestone(PlusMilestone(ledger.attribution, t, at, status),
                           at, status)]

\* delete_current_account
Anonymized(ledger) ==
  [ledger EXCEPT !.attribution.status = IF @ = "none" THEN @ ELSE "anonymized"]
=============================================================================
