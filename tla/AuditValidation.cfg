CONSTANTS
  c1 = c1
  c2 = c2
  c3 = c3
  Calls = {c1, c2, c3}
  FailSecureCalls = {c1, c2, c3}
  MaxAttempts = 1
  NoHash = NoHash
  PageSize = 2
  MaxDamages = 2
  Garbage = Garbage
SPECIFICATION ValidationSpec
INVARIANT NoFalseAlarm
INVARIANT DamageIsFound
INVARIANT ValidCoversBaseline
PROPERTY ValidationEnds
CHECK_DEADLOCK FALSE
