CONSTANTS
  c1 = c1
  c2 = c2
  c3 = c3
  Calls = {c1, c2, c3}
  FailSecureCalls = {c1, c2}
  MaxAttempts = 2
  NoHash = NoHash
SPECIFICATION Spec
INVARIANT TypeOK
INVARIANT ChainContinuity
INVARIANT RecordedAtMostOnce
INVARIANT ReturnedIsRecorded
INVARIANT ConflictsMeanProgress
PROPERTY AppendOnly
PROPERTY EveryCallEnds
PROPERTY ImplementsAuditLog
CHECK_DEADLOCK FALSE
