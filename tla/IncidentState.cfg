CONSTANTS
  p1 = p1
  p2 = p2
  s1 = s1
  Changes = {p1, p2}
  Escalations = {s1}
  DefaultLevel = "NORMAL"
  Dropped = 1
SPECIFICATION Spec
INVARIANT TypeOK
PROPERTY UncontestedChangeTakesEffect
PROPERTY ShredLocksDownUnlessOvertaken
CHECK_DEADLOCK FALSE
