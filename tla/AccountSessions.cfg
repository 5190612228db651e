\* The bounds on accounts and sessions can leave nothing to do.
CHECK_DEADLOCK FALSE
SPECIFICATION FairSpec
CONSTANTS
  MaxApple = 2
  Processors = {p1, p2}
  MaxAccounts = 1
  MaxSessions = 2
  MaxRefresh = 2
  Workers = {w1, w2}
INVARIANTS ExchangedOnce NoOrphanSessions TokensAccountedFor
           QueueSparesAccounts
PROPERTIES LogoutIsFinal QueueSettles

