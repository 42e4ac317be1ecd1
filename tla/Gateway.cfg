CONSTANTS
  b1 = b1
  k1 = k1
  k2 = k2
  r1 = r1
  x1 = x1
  Backups = {b1}
  Versions = {k1, k2}
  SeedVersion = k1
  NoVersion = NoVersion
  MaxFaults = 1
  Shreds = {x1}
  Wirings = {"stepwise", "atomic", "application"}
  Restores = {r1}
  MaxRestarts = 1
SPECIFICATION Spec
INVARIANT TypeOK
INVARIANT RecordedKeyOpensObject
INVARIANT OnlyActiveIsRestored
INVARIANT EvidenceComesFirst
INVARIANT OnlyFaultsLeaveProcessing
INVARIANT ConflictsCostTheAnswer
INVARIANT RestrictedIsNeverRestored
INVARIANT CompletedShredClosesBackups
INVARIANT DestroyedWithItsBackups
PROPERTY ImplementsBackupLife
CHECK_DEADLOCK FALSE
