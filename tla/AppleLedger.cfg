SPECIFICATION Spec
CONSTANTS
  MaxTime = 4
  MaxSent = 4
  Expiry = 2
  GraceLength = 2
  Prices = {"4990 EUR", "5990 EUR"}
INVARIANTS RevokeDecides RefundHolds ReversalRestores NewestContextWins
PROPERTIES EvidenceWrittenOnce
