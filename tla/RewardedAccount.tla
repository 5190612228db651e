--------------------------- MODULE RewardedAccount ---------------------------
(***************************************************************************)
(* One account with everything that gives it Plus: an Apple subscription,  *)
(* bought by the account or by its guest before the claim, referral        *)
(* rewards, and a creator's code with its promotion.  Apple's payloads     *)
(* arrive late and out of order, a referral reward carries the time at     *)
(* which its batch began, and time passes without anybody reconciling.     *)
(*                                                                         *)
(* Every action is one transaction that holds the row of the user;         *)
(* OwnershipLocking and Referrals show what that needs.  The names that    *)
(* Referrals has too begin with Account, so that RewardsProofs can extend  *)
(* both.                                                                   *)
(***************************************************************************)
EXTENDS PlusEntitlement, CreatorAttribution

Economics == INSTANCE AppleEconomics

CONSTANTS MaxTime,     \* bound: the clock stops there
          Period,      \* bound: days a transaction covers, with its grace
          CodeWindow,  \* days after the registration in which codes apply
          Adjusting,   \* bound: adjustments that notifications carry
          Taken,       \* bound: transactions that Apple may take back
          Silent       \* bound: may it do so without a notification?

ASSUME AccountAssumption ==
  /\ {MaxTime, Period, CodeWindow} \subseteq Nat \ {0}
  /\ Adjusting \subseteq {"refund", "revoke", "refund_reversed"}
  /\ Taken \subseteq Tx /\ Silent \in BOOLEAN

VARIABLES clock,
          account,  \* "exists" or "deleted"
          holder,   \* owner of the subscription: the account or its guest
          rows,     \* apple_transactions of the subscription
          granted,  \* granted[r]: when reward r was granted
          stored,   \* the active row of user_subscriptions
          ledger,   \* the attribution and its events
          paid      \* events confirmed so far (for the properties)

accountVars == <<clock, account, holder, rows, granted, stored, ledger, paid>>

Times   == 0 .. MaxTime
Rewards == Referrals \cup {Promo}
NoRow   == [purchase |-> NoTime, until |-> NoTime, revoked |-> NoTime,
            adjustment |-> "none", price |-> Economics!NoPrice]

Row == [purchase: Times, until: 0 .. MaxTime + Period, revoked: Times,
        adjustment: {"none"} \cup Economics!Adjustments,
        price: {Economics!NoPrice, "paid"}]

AccountTypeOK ==
  /\ clock \in 1 .. MaxTime
  /\ account \in {"exists", "deleted"}
  /\ holder \in {"guest", "account"}
  /\ rows \in [Tx -> Row]
  /\ granted \in [Rewards -> Times]
  /\ DOMAIN stored = DOMAIN NoEntitlement
  /\ \A id \in EventIds : ledger.events[id] = NoEvent
       \/ ledger.events[id] \in [at: 1 .. MaxTime, status: Economic]
  /\ paid \subseteq Tx

AccountExists == account # "deleted"

\* The transactions of the account, and its rewards.
Owned(saved, owner) ==
  IF owner = "account"
    THEN {saved[t] : t \in {u \in Tx : saved[u].purchase # NoTime}}
    ELSE {}

GrantTimes(rewards) ==
  [r \in {q \in Rewards : rewards[q] # NoTime} |-> rewards[r]]

\* reconcile_user_plus_entitlement at the end of a transaction.
Reconciled(saved, owner, rewards) ==
  LET entitlement == Entitlement(Owned(saved, owner), GrantTimes(rewards),
                                 clock)
  IN IF entitlement.expires = Null THEN NoEntitlement ELSE entitlement

\* An attribution may be older than the promotions.
AccountInit ==
  /\ clock = 1
  /\ account = "exists"
  /\ holder \in {"guest", "account"}
  /\ rows = [t \in Tx |-> NoRow]
  /\ granted = [r \in Rewards |-> NoTime]
  /\ stored = NoEntitlement
  /\ ledger \in [attribution: {Unattributed, Attributed(1)},
                 events: {[id \in EventIds |-> NoEvent]}]
  /\ paid = {}

-----------------------------------------------------------------------------
(***************************************************************************)
(* Apple.                                                                  *)
(***************************************************************************)

\* The dates of a row are kept as far as they decide: 2 is the watermark of
\* its adjustment and 3 its signed_date, which is never the older one, and a
\* message is signed at 1 .. 4.
Dated(row) ==
  [signed |-> 3, expires |-> row.until, grace |-> Economics!Unset,
   revoked |-> row.revoked, price |-> row.price, pricedAt |-> 1,
   adjustment |-> row.adjustment,
   adjustedAt |-> IF row.adjustment = "none" THEN Economics!Unset ELSE 2]

\* What Apple may sign of a transaction.  Its purchase date is fixed; what it
\* covers, with its grace, differs between messages.  A refund or a revocation
\* has its date; of the other messages some still show one.
Signed(t) ==
  {[purchase |-> p, signed |-> s, expires |-> p + days,
    grace |-> Economics!Unset, revoked |-> r, price |-> price,
    pricedAt |-> 1, adjustment |-> a,
    adjustedAt |-> IF a = "none" THEN Economics!Unset ELSE s] :
      p \in IF rows[t] = NoRow THEN 1 .. clock ELSE {rows[t].purchase},
      s \in 1 .. 4, days \in 1 .. Period, r \in {NoTime, clock},
      price \in {Economics!NoPrice, "paid"},
      a \in {"none"} \cup Adjusting}

Messages(t) ==
  {tx \in Signed(t) :
     LET notified == tx.adjustment \in {"refund", "revoke"}
     IN /\ notified => tx.revoked # NoTime
        /\ tx.revoked # NoTime => notified \/ Silent
        /\ t \in Taken \/ (tx.adjustment = "none" /\ tx.revoked = NoTime)}

\* _save_apple_transaction
Saved(t, tx) ==
  LET new == IF rows[t] = NoRow THEN Economics!SaveNew(tx)
             ELSE Economics!SaveExisting(Dated(rows[t]), tx)
  IN [purchase |-> tx.purchase, until |-> new.expires,
      revoked |-> new.revoked, adjustment |-> new.adjustment,
      price |-> new.price]

\* should_record_creator
Recorded(t, tx) ==
  LET row == Dated(rows[t])
  IN \/ tx.adjustment = "none"
     \/ Economics!Reduce(row.adjustment, row.adjustedAt, tx.adjustment,
                         tx.adjustedAt).accepted

Conversion(l, saved, t) ==
  AppleConversion(l, saved, t, Economics!EconomicStatus(saved[t]))

\* Events confirmed so far.
Confirmed(l) == paid \cup {t \in Tx : l.events[t].status = "confirmed"}

SaveAs(t, new, recorded) ==
  LET saved == [rows EXCEPT ![t] = new]
  IN /\ rows' = saved
     /\ ledger' = IF holder = "account" /\ recorded
                    THEN Conversion(ledger, saved, t) ELSE ledger
     /\ stored' = IF holder = "account"
                    THEN Reconciled(saved, holder, granted) ELSE stored
     /\ paid' = Confirmed(ledger')
     /\ UNCHANGED <<clock, account, holder, granted>>

\* The different things a message does to the row of t.
Saves(t) == {<<Saved(t, tx), Recorded(t, tx)>> : tx \in Messages(t)}

\* Mutated: only saves that add a transaction are reconciled.
SaveWithoutReconciling(t) ==
  /\ AccountExists
  /\ \E save \in Saves(t) :
       IF rows[t] = NoRow THEN SaveAs(t, save[1], save[2])
       ELSE /\ rows' = [rows EXCEPT ![t] = save[1]]
            /\ UNCHANGED <<clock, account, holder, granted, ledger, stored,
                           paid>>

\* process_apple_transaction
Save(t) ==
  /\ AccountExists
  /\ \E save \in Saves(t) : SaveAs(t, save[1], save[2])

Known == {t \in Tx : rows[t].purchase # NoTime}

\* Mutated: the subscription moves and its conversions are forgotten.
ClaimWithoutConversions ==
  /\ AccountExists /\ holder = "guest" /\ Known # {}
  /\ holder' = "account"
  /\ stored' = Reconciled(rows, "account", granted)
  /\ UNCHANGED <<clock, account, rows, granted, ledger, paid>>

\* The conversions of what a claim moves, in the order of their purchases.
LatestBought(S) ==
  CHOOSE t \in S : \A u \in S : rows[u].purchase <= rows[t].purchase

Moved(S) ==
  MapThenFoldSet(LAMBDA t, l : Conversion(l, rows, t), ledger,
                 LAMBDA t : t, LatestBought, S)

\* claim_guest_subscription
Claim ==
  /\ AccountExists /\ holder = "guest" /\ Known # {}
  /\ holder' = "account"
  /\ ledger' = Moved(Known)
  /\ stored' = Reconciled(rows, "account", granted)
  /\ paid' = Confirmed(ledger')
  /\ UNCHANGED <<clock, account, rows, granted>>

-----------------------------------------------------------------------------
(***************************************************************************)
(* Rewards.                                                                *)
(***************************************************************************)
Grant(r, at) ==
  /\ granted[r] = NoTime
  /\ granted' = [granted EXCEPT ![r] = at]
  /\ stored' = Reconciled(rows, holder, granted')

\* grant_plus_days_reward, in a batch that may have begun yesterday.
ReferralReward(r) ==
  /\ AccountExists
  /\ \E at \in {clock, clock - 1} \ {NoTime} :
       /\ Grant(r, at)
       /\ ledger' = ReferralConversion(ledger, r, at)
  /\ UNCHANGED <<clock, account, holder, rows, paid>>

\* apply_registration_creator_attribution: a new attribution within the
\* window, if the campaign is open, or the same code once more; and the
\* promotion, once.
ApplyCode ==
  LET first == ledger.attribution.status = "none"
      applied == IF first
        THEN [ledger EXCEPT !.attribution = Attributed(clock)] ELSE ledger
  IN /\ AccountExists
     /\ first => clock <= CodeWindow
     /\ ledger' = PromoEvent(applied, clock)
     /\ IF ledger.events[Promo] = NoEvent
          THEN Grant(Promo, clock)
          ELSE UNCHANGED <<granted, stored>>
     /\ UNCHANGED <<clock, account, holder, rows, paid>>

-----------------------------------------------------------------------------
\* delete_current_account; what belongs to the account goes with it.
Delete ==
  /\ AccountExists
  /\ account' = "deleted"
  /\ ledger' = Anonymized(ledger)
  /\ rows' = IF holder = "account" THEN [t \in Tx |-> NoRow] ELSE rows
  /\ granted' = [r \in Rewards |-> NoTime]
  /\ stored' = NoEntitlement
  /\ UNCHANGED <<clock, holder, paid>>

\* ensure_auth_schema marks what has expired when a server starts.
Cleanup ==
  /\ stored # NoEntitlement /\ stored.expires <= clock
  /\ stored' = NoEntitlement
  /\ UNCHANGED <<clock, account, holder, rows, granted, ledger, paid>>

Tick ==
  /\ AccountExists /\ clock < MaxTime
  /\ clock' = clock + 1
  /\ UNCHANGED <<account, holder, rows, granted, stored, ledger, paid>>

AccountNext ==
  \/ \E t \in Tx : Save(t)
  \/ Claim
  \/ \E r \in Referrals : ReferralReward(r)
  \/ ApplyCode \/ Delete \/ Cleanup \/ Tick

AccountSpec == AccountInit /\ [][AccountNext]_accountVars

-----------------------------------------------------------------------------
(***************************************************************************)
(* Properties.                                                             *)
(***************************************************************************)
Mine    == Owned(rows, holder)
Horizon == MaxTime + 2 * Period + RewardDays * Cardinality(Rewards)

\* The expiry that is computed from merged intervals and balances is the one
\* a day-by-day account of the rewards gives, whatever periods overlap, are
\* refunded or arrive late (test_original_bug_refund_leaves_only_seven...).
ExpiryIsDayByDay ==
  ReferralExpiry(GrantTimes(granted), AppleIntervals(Mine), clock)
    = ReferenceExpiry(Mine, GrantTimes(granted), clock, Horizon)

\* The stored entitlement stays right while time passes and nobody
\* reconciles: get_active_plus_status answers as a reconciliation would.
StoredStaysRight ==
  (IF stored.expires > clock THEN stored.expires ELSE Null)
    = Entitlement(Mine, GrantTimes(granted), clock).expires

\* Nothing that happened before the attribution counts for the creator, and
\* a renewal only if a purchase after it is known (test_57).
EventsFollowAttribution ==
  \A id \in EventIds :
    LET event == ledger.events[id]
    IN event # NoEvent =>
         /\ ledger.attribution.status # "none"
         /\ event.at >= ledger.attribution.at
         /\ id \in Renewals /\ AccountExists =>
              \E t \in Purchases : rows[t].purchase >= ledger.attribution.at

\* The paid milestone is the earliest event that was ever confirmed, in
\* whatever order purchases and renewals arrive and are confirmed.
PaidIsEarliest ==
  ledger.attribution.paid =
    IF paid = {} THEN NoTime ELSE Min({ledger.events[t].at : t \in paid})

\* A purchase after the attribution counts, and counts as refunded as long as
\* its row is, whoever was first of the save, the code and the claim
\* (test_guest_subscriptions.py:860-886).
PurchasesCounted ==
  holder = "account" /\ ledger.attribution.status = "active" =>
    \A t \in Purchases :
      LET refunded == Economics!EconomicStatus(rows[t]) = "refunded"
          event == ledger.events[t]
      IN /\ rows[t].purchase > ledger.attribution.at
         /\ rows[t].revoked = NoTime \/ refunded
         => /\ event.at = rows[t].purchase
            /\ event.status = "refunded" <=> refunded
=============================================================================
