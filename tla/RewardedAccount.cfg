\* The clock stops, and a deleted account does nothing.
CHECK_DEADLOCK FALSE
SPECIFICATION AccountSpec
CONSTANTS
  RewardDays = 2
  Purchases = {"bought"}
  Renewals = {"renewed"}
  Referrals = {"referral"}
  MaxTime = 3
  Period = 2
  CodeWindow = 2
  Adjusting = {"refund", "refund_reversed"}
  Taken = {"bought"}
  Silent = FALSE
INVARIANTS ExpiryIsDayByDay StoredStaysRight EventsFollowAttribution
           PaidIsEarliest PurchasesCounted
