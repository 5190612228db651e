--------------------------- MODULE PlusEntitlement ---------------------------
(***************************************************************************)
(* plus_entitlements.py: how the Apple transactions and the rewards of an  *)
(* account become one entitlement.  Rewards are days of Plus that are used *)
(* up outside Apple's coverage only: the balance left is projected around  *)
(* the paid periods ahead.                                                 *)
(*                                                                         *)
(* Instants are numbers, 0 is NULL and the unit stands for a day.  A row   *)
(* is [purchase, until, revoked], `until` the later of expires_date and    *)
(* grace_period_expires_date; rewards are a function that gives each the   *)
(* instant of its grant.  What the code sorts is a set here, and its loops *)
(* are folds that take the elements in the order it sorts by.              *)
(***************************************************************************)
EXTENDS Integers, FiniteSetsExt

CONSTANT RewardDays  \* REFERRAL_REWARD_DAYS, also of a creator's promotion

ASSUME RewardAssumption == RewardDays \in Nat \ {0}

Null == 0
Later(a, b)   == IF a >= b THEN a ELSE b
Earlier(a, b) == IF a <= b THEN a ELSE b

\* _load_active_apple_subscription, and effective_subscription_expiration.
AppleExpiry(rows, now) ==
  LET live == {r \in rows : r.revoked = Null /\ r.until > now}
  IN IF live = {} THEN Null ELSE Max({r.until : r \in live})

\* What a revoked transaction covered ends with its revocation.
Interval(r) ==
  <<r.purchase,
    IF r.revoked # Null THEN Earlier(r.until, r.revoked) ELSE r.until>>

Before(a, b) == a[1] < b[1] \/ (a[1] = b[1] /\ a[2] <= b[2])

Latest(S) == CHOOSE i \in S : \A j \in S : Before(j, i)

\* What a loop over intervals in their order computes.
InOrder(Step(_, _), start, S) ==
  MapThenFoldSet(Step, start, LAMBDA i : i, Latest, S)

\* Mutated: overlapping periods are not merged.
JoinNever(i, merged) == merged \cup {i}

Join(i, merged) ==
  LET last == Latest(merged)
  IN IF merged = {} \/ i[1] > last[2] THEN merged \cup {i}
     ELSE (merged \ {last}) \cup {<<last[1], Later(last[2], i[2])>>}

\* _load_apple_intervals: the periods paid for, sorted and merged.
AppleIntervals(rows) ==
  InOrder(Join, {}, {i \in {Interval(r) : r \in rows} : i[2] > i[1]})

\* _covered_seconds
Covered(start, end, intervals) ==
  LET Overlap(i, total) ==
        total + Later(0, Earlier(end, i[2]) - Later(start, i[1]))
  IN IF end <= start THEN 0 ELSE InOrder(Overlap, 0, intervals)

\* _project_referral_expiry: p.end is the answer once it is known.
Pass(i, p) ==
  LET gap == i[1] - p.cursor
  IN IF p.end # Null \/ i[2] <= p.cursor THEN p
     ELSE IF gap > 0 /\ p.left <= gap
       THEN [p EXCEPT !.end = p.cursor + p.left]
     ELSE [cursor |-> i[2], left |-> p.left - Later(0, gap), end |-> Null]

Project(now, balance, intervals) ==
  LET start  == [cursor |-> now, left |-> balance, end |-> Null]
      result == InOrder(Pass, start, intervals)
  IN IF balance <= 0 THEN Null
     ELSE IF result.end # Null THEN result.end
     ELSE result.cursor + result.left

\* What is left of a balance after some time outside Apple's coverage.
Spend(balance, start, end, intervals) ==
  Later(0, balance - Later(0, end - start - Covered(start, end, intervals)))

Newest(grants, S) == CHOOSE r \in S : \A q \in S : grants[q] <= grants[r]

\* The balance after one more grant; it is kept with the instant it is of.
Granted(at, b, intervals) ==
  [left |-> RewardDays +
     (IF b.at = Null THEN 0 ELSE Spend(b.left, b.at, at, intervals)),
   at |-> at]

\* _calculate_referral_expiry, of the grants in their order.
ReferralExpiry(grants, intervals, now) ==
  LET bank == MapThenFoldSet(
        LAMBDA at, b : Granted(at, b, intervals), [left |-> 0, at |-> Null],
        LAMBDA r : grants[r], LAMBDA S : Newest(grants, S),
        {r \in DOMAIN grants : grants[r] <= now})
  IN IF bank.at = Null THEN Null
     ELSE Project(now, Spend(bank.left, bank.at, now, intervals), intervals)

\* reconcile_user_plus_entitlement: the components of the stored row.
NoEntitlement == [apple |-> Null, referral |-> Null, expires |-> Null]

Entitlement(rows, grants, now) ==
  LET apple    == AppleExpiry(rows, now)
      referral == ReferralExpiry(grants, AppleIntervals(rows), now)
  IN [apple |-> apple, referral |-> referral,
      expires |-> Later(apple, referral)]

-----------------------------------------------------------------------------
(***************************************************************************)
(* The same day by day: on every day that Apple does not cover, one day of *)
(* the balance is used up.                                                 *)
(***************************************************************************)
DayCovered(rows, day) ==
  \E r \in rows : Interval(r)[1] <= day /\ day < Interval(r)[2]

GrantedOn(grants, day) ==
  RewardDays * Cardinality({r \in DOMAIN grants : grants[r] = day})

\* What is left at `now`, with the grants made by then.
BalanceByDay(rows, grants, now) ==
  LET left[day \in 0 .. now] ==
        IF day = 0 THEN 0
        ELSE GrantedOn(grants, day) +
             (IF DayCovered(rows, day - 1) \/ left[day - 1] = 0
                THEN left[day - 1] ELSE left[day - 1] - 1)
  IN left[now]

\* The first instant before which the balance is used up.
ReferenceExpiry(rows, grants, now, horizon) ==
  LET balance == BalanceByDay(rows, grants, now)
      Uncovered(end) == {day \in now .. end - 1 : ~DayCovered(rows, day)}
  IN IF balance = 0 THEN Null
     ELSE Min({end \in now .. horizon : Cardinality(Uncovered(end)) = balance})
=============================================================================
