\* Expected to fail: a client verification ends the grace period.
SPECIFICATION Spec
CONSTANTS
  MaxTime = 4
  MaxSent = 3
  Expiry = 2
  GraceLength = 2
  Prices = {}
PROPERTIES GraceKept
