CONSTANTS
  b1 = b1
  k1 = k1
  k2 = k2
  r1 = r1
  x1 = x1
  Backups = {b1}
  Versions = {k1, k2}
  SeedVersion = k1
  NoVersion = NoVersion
  MaxFaults = 0
  Shreds = {x1}
  Wirings = {"atomic"}
  Restores = {r1}
  MaxRestarts = 0
SPECIFICATION Spec
PROPERTY DestroyedIsNeverRestored
CHECK_DEADLOCK FALSE
