SPECIFICATION FairSpec
CONSTANTS
  Urls = {u1, u2}
  Seed = u1
  MaxFaults = 2
INVARIANTS
  CleanRunIsFresh
  QuitIsLast
PROPERTIES
  RunsEnd
