SPECIFICATION MSpec
CONSTANTS
  Urls = {u1, u2}
  Seed = u1
  Root = u2
  None = None
  Batches = {b1, b2}
  BatchCount = 2
  PendingLimit = 0
  MaxFaults = 1
  MaxCrashes = 1
  MaxMetrics = 1
SYMMETRY Perms
INVARIANTS
  MInv
  StoredBeforeDone
  ForeignTextOnlyAfterCrash
  CountsAgree
  NeverUndercounts
