\* When everybody is settled or gone nothing is left to do.
CHECK_DEADLOCK FALSE
SPECIFICATION FairSpec
CONSTANTS
  Users = {1, 2, 3, 4}
  Invites <- Pairs
  Leavers = {1}
  Newcomers = {3}
  Workers = {w1, w2}
  Limit = 1
INVARIANTS MonthlyLimit ValidIsRewarded BatchesNeverDeadlock
PROPERTIES EligibleSettles
