CONSTANTS
  e1 = e1
  e2 = e2
  e3 = e3
  a1 = a1
  a2 = a2
  v1 = v1
  Events = {e1, e2, e3}
  Actors = {a1, a2}
  Reviews = {v1}
  Sources = {"restore_failed", "restore_restricted_pending_manual_review"}
  Rules = {"restore_failed"}
  Threshold = 2
  Window = 2
  Hour = 4
  MaxTime = 3
  Dropped = 1
SPECIFICATION Spec
INVARIANT NoFalseAlert
INVARIANT NoMissedBurst
INVARIANT AlertsAreApart
INVARIANT UnauditedMeansFailed
PROPERTY ReviewsSurviveEvents
CHECK_DEADLOCK FALSE
SYMMETRY Permutable
