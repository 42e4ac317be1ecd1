CONSTANTS
  p1 = p1
  p2 = p2
  s1 = s1
  Changes = {p1, p2}
  Escalations = {}
  DefaultLevel = "QUARANTINE"
  Dropped = 0
SPECIFICATION Spec
PROPERTY TransitionsFollowRules
CHECK_DEADLOCK FALSE
