SPECIFICATION Spec
CONSTANTS
  Urls = {u1, u2, u3}
  Seed = u1
  Root = u2
  None = None
  Batches = {b1, b2}
  BatchCount = 2
  PendingLimit = 0
  MaxFaults = 2
  MaxCrashes = 0
  MaxMetrics = 0
SYMMETRY Perms
INVARIANTS
  OneBatchChain
  PageIsHead
  PendingBounded
PROPERTIES
  NeverFreshAgain
