SPECIFICATION Spec
CONSTANTS
  Urls = {u1, u2, u3}
  Seed = u1
  Root = u2
  None = None
  Batches = {b1}
  BatchCount = 2
  PendingLimit = 1
  MaxFaults = 0
  MaxCrashes = 0
  MaxMetrics = 1
SYMMETRY Perms
INVARIANTS
  DoneArticleIs3
