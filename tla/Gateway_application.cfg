CONSTANTS
  b1 = b1
  k1 = k1
  k2 = k2
  x1 = x1
  Backups = {b1}
  Versions = {k1, k2}
  SeedVersion = k1
  NoVersion = NoVersion
  MaxFaults = 0
  Shreds = {x1}
  Wirings = {"application"}
  Restores = {}
  MaxRestarts = 0
SPECIFICATION Spec
INVARIANT ShredTakesEffect
CHECK_DEADLOCK FALSE
