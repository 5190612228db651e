\* An inactive account and the bounds leave nothing to do: no deadlock check.
CHECK_DEADLOCK FALSE
SPECIFICATION Spec
CONSTANTS
  MaxAttempts = 2
  Resenders = {w1, w2}
  MaxTokens = 4
  MaxAccounts = 2
INVARIANTS ResendInvalidates GuessesBounded NoOrphanCodes
SYMMETRY Symmetry
