SPECIFICATION FairSpec
CONSTANTS
  Urls = {u1, u2}
  Seed = u1
  Root = u2
  None = None
  Batches = {b1, b2}
  BatchCount = 2
  PendingLimit = 1
  MaxFaults = 1
  MaxCrashes = 0
  MaxMetrics = 1
PROPERTIES
  PendingDrains
  KeepsListing
  EveryRowSettles
