CONSTANTS
  k1 = k1
  k2 = k2
  k3 = k3
  r1 = r1
  r2 = r2
  b1 = b1
  b2 = b2
  x1 = x1
  Versions = {k1, k2}
  SeedVersion = k1
  KeyFiles = {k1, k2}
  Rotations = {r1, r2}
  Backups = {b1}
  Shreds = {x1}
  Registered = {}
  NoVersion = NoVersion
  Dropped = 1
SPECIFICATION Spec
INVARIANT TypeOK
PROPERTY DestroyedIsForever
PROPERTY MaterialNeverDestroyed
PROPERTY UncontestedRotationWins
CHECK_DEADLOCK FALSE
