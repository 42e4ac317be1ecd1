--------------------------- MODULE IncidentLevels ---------------------------
(* The incident levels and the changes between them that are allowed.  A   *)
(* definition under "Mistake:", here and in the other modules, is used by  *)
(* nothing: it is the next one with a plausible error, which some property *)
(* must notice when it takes its place.                                    *)

Levels == {"NORMAL", "QUARANTINE", "LOCKDOWN"}

\* Mistake: no way from QUARANTINE to LOCKDOWN.
AllowedWithoutEscalation(level) ==
  CASE level = "NORMAL"     -> {"QUARANTINE", "LOCKDOWN"}
    [] level = "QUARANTINE" -> {"NORMAL"}
    [] level = "LOCKDOWN"   -> {"QUARANTINE"}

\* _allowed_transitions.
Allowed(level) ==
  CASE level = "NORMAL"     -> {"QUARANTINE", "LOCKDOWN"}
    [] level = "QUARANTINE" -> {"NORMAL", "LOCKDOWN"}
    [] level = "LOCKDOWN"   -> {"QUARANTINE"}
=============================================================================
