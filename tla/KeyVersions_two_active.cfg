CONSTANTS
  k1 = k1
  k2 = k2
  k3 = k3
  r1 = r1
  r2 = r2
  b1 = b1
  b2 = b2
  x1 = x1
  Versions = {k1, k2, k3}
  SeedVersion = k1
  KeyFiles = {k1, k2, k3}
  Rotations = {r1, r2}
  Backups = {}
  Shreds = {}
  Registered = {k1, k2}
  NoVersion = NoVersion
  Dropped = 0
SPECIFICATION Spec
INVARIANT AtMostOneActive
CHECK_DEADLOCK FALSE
