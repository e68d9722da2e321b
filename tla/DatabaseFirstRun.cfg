SPECIFICATION Spec
CONSTANTS
  Urls = {u1, u2}
  Seed = u1
  MaxFaults = 0
INVARIANTS
  SetupCompletes
