SPECIFICATION Spec
CONSTANTS
  Workers = {w1, w2}
  Devices = {d1}
  Prices = {1, 3}
  Threshold = 2
  MaxAttempts = 2
  MaxRuns = 2
SYMMETRY Symmetry
INVARIANTS PushesBounded AcceptedOnce AlertsImprove
PROPERTIES SentUnlessRecovered
