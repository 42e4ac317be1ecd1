---------------------------- MODULE AccessPolicy ----------------------------
(***************************************************************************)
(* PolicyService: who may do what, by role.  The tables are fixed; nothing *)
(* consults the policy records that /admin/policies keeps.                 *)
(***************************************************************************)

Classifications == {"PUBLIC", "INTERNAL", "CONFIDENTIAL", "SECRET"}

Privileged == {"admin", "super_admin"}

\* Mistake: operators may restore what they have backed up.
PermissionsWithRestores(role) ==
  CASE role = "operator"   -> {"backups", "restores"}
    [] role \in Privileged -> {"backups", "restores", "audit", "admin"}
    [] OTHER               -> {}

\* _role_permissions; a role nobody has heard of may do nothing.
Permissions(role) ==
  CASE role = "operator"   -> {"backups"}
    [] role \in Privileged -> {"backups", "restores", "audit", "admin"}
    [] OTHER               -> {}

\* _backup_classification_roles.
BackupRoles(classification) ==
  IF classification \in Classifications THEN {"operator"} \cup Privileged ELSE {}

\* authorize, of a principal with that role.
Authorized(role, permission) == permission \in Permissions(role)

EvaluateBackup(role, classification) == role \in BackupRoles(classification)

\* evaluate_restore looks at the role alone.
EvaluateRestore(role, classification) == role \in Privileged
=============================================================================
