\* Bounded runs: at the end nothing is left to do.
CHECK_DEADLOCK FALSE
SPECIFICATION FairSpec
CONSTANTS
  Servers = {s1, s2}
  Nobody = Nobody
  Checker = Checker
  Keys = {"self", "served"}
  Files <- Published
  MinRows = 2
  MaxRuns = 3
  Dates = {1, 2}
INVARIANTS DatasetWhole LatestAverages
PROPERTIES RunsDecidedOnce RunsEnd
