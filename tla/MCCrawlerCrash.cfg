SPECIFICATION Spec
CONSTANTS
  Urls = {u1, u2, u3, u4}
  Seed = u1
  Root = u2
  None = None
  Batches = {b1}
  BatchCount = 2
  PendingLimit = 1
  MaxFaults = 0
  MaxCrashes = 1
  MaxMetrics = 0
SYMMETRY Perms
INVARIANTS
  FailedNotStored
  OneHolder
  MarkedIffPending
  FilesOwned
PROPERTIES
  FinalStays
  ImplementsPageLife
