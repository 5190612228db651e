\* Expected to fail: a worker that comes back late makes a sent record fail.
SPECIFICATION Spec
CONSTANTS
  Workers = {w1, w2}
  Devices = {d1}
  Prices = {1, 3}
  Threshold = 2
  MaxAttempts = 2
  MaxRuns = 1
SYMMETRY Symmetry
PROPERTIES SentStaysSent
