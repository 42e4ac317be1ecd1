----------------------------- MODULE RestoreFlow -----------------------------
(***************************************************************************)
(* POST /restores: RestoreService.load_restore_metadata, one step for each *)
(* await, with the adapters that api/dependencies.py provides.  The row of *)
(* the backup is loaded once and the level is read once; everything after  *)
(* goes by what was read then.                                             *)
(***************************************************************************)
EXTENDS GatewayState

CONSTANT Restores   \* calls of load_restore_metadata

VARIABLES restore,   \* where each restore is
          wanted,    \* the backup each restore asks for
          loaded     \* the row each restore loaded

restoreVars == <<restore, wanted, loaded>>

RestoreRunning ==
  {"mfa", "load", "block_irreversible", "authorize", "incident", "review",
   "block_restricted", "fetch", "fail_unavailable", "fail_integrity", "complete"}
RestoreEnded ==
  {"mfa_denied", "not_found", "irreversible", "policy_denied", "pending_manual_review",
   "restricted", "unavailable", "integrity_failed", "completed", "server_error"}

RestoreInit ==
  /\ restore = [r \in Restores |-> "mfa"]
  /\ wanted \in [Restores -> Backups]
  /\ loaded = [r \in Restores |-> NoBackup]

RestoreTypeOK ==
  /\ restore \in [Restores -> RestoreRunning \cup RestoreEnded]
  /\ wanted \in [Restores -> Backups]
  /\ loaded \in [Restores -> BackupRows]

\* r goes from one place to one of the next.
Continue(r, here, next) ==
  /\ restore[r] = here
  /\ restore' \in {[restore EXCEPT ![r] = n] : n \in next}

-----------------------------------------------------------------------------
\* validate_mfa_token.  Its audit calls are best-effort.
ValidateMfa(r) ==
  /\ Continue(r, "mfa", {"load", "mfa_denied"})
  /\ UNCHANGED <<shared, wanted, loaded>>

\* IRREVERSIBLE is the one status that stops a restore.
AfterLoad(row) ==
  CASE row.status = "absent"       -> "not_found"
    [] row.status = "IRREVERSIBLE" -> "block_irreversible"
    [] OTHER                       -> "authorize"

LoadMetadata(r) ==
  /\ Continue(r, "load", {AfterLoad(backups[wanted[r]])})
  /\ loaded' = [loaded EXCEPT ![r] = backups[wanted[r]]]
  /\ UNCHANGED <<shared, wanted>>

\* evaluate_restore and the audit of its decision; the row is read next only
\* when the restore is allowed.
AuthorizeRestore(r) ==
  /\ Continue(r, "authorize", AfterAudit("incident") \cup {"policy_denied"})
  /\ Record("restore_decision", wanted[r])
  /\ UNCHANGED <<backups, objects, keys, level, faults, wanted, loaded>>

\* Mistake: only LOCKDOWN stops a restore.
AtLevelLenient(now) == IF now = "LOCKDOWN" THEN "block_restricted" ELSE "fetch"

AtLevel(now) ==
  CASE now = "NORMAL"     -> "fetch"
    [] now = "QUARANTINE" -> "review"
    [] now = "LOCKDOWN"   -> "block_restricted"

\* A level that cannot be read blocks the restore as well.
CheckIncidentLevel(r) ==
  /\ Continue(r, "incident", {AtLevel(level), "block_restricted"})
  /\ UNCHANGED <<shared, wanted, loaded>>

\* The audit of a restriction, after which monitoring reads the row.
Restrict(r, here, action, answer) ==
  /\ Continue(r, here, AfterAudit(answer))
  /\ Record(action, wanted[r])
  /\ UNCHANGED <<backups, objects, keys, level, faults, wanted, loaded>>

RestrictRestore(r) ==
  \/ Restrict(r, "block_irreversible", "restore_restricted_blocked", "irreversible")
  \/ Restrict(r, "block_restricted", "restore_restricted_blocked", "restricted")
  \/ Restrict(r, "review", "restore_restricted_pending_manual_review", "pending_manual_review")

\* _restore_and_verify: a row without its fields cannot be restored; a blob
\* that is missing fails as a blob that does not decrypt does.
Verified(row, blob) ==
  IF ~row.stored \/ row.key_version = NoVersion THEN "fail_unavailable"
  ELSE IF blob # row.key_version THEN "fail_integrity"
  ELSE "complete"

\* get_object, and the checks and the decryption that follow in one go; the
\* key store is asked for the file, and never for the state of the version.
RestoreAndVerify(r) ==
  /\ Continue(r, "fetch", {Verified(loaded[r], objects[wanted[r]])})
  /\ UNCHANGED <<shared, wanted, loaded>>

\* Mistake: a failed restore marks the backup.
RestoreUnavailableMarked(r) ==
  /\ Continue(r, "fetch", {"fail_unavailable"})
  /\ backups' = [backups EXCEPT ![wanted[r]].status = "FAILED"]
  /\ UNCHANGED <<objects, keys, level, trail, faults, wanted, loaded>>

\* The storage or the key file cannot be read.
RestoreUnavailable(r) ==
  /\ Continue(r, "fetch", {"fail_unavailable"})
  /\ UNCHANGED <<shared, wanted, loaded>>

\* _record_restore_failure.  The first is instead of AuthorizeRestore: the
\* column holds none of the four classifications, as no submission leaves it.
FailRestore(r) ==
  \/ Restrict(r, "authorize", "restore_failed", "unavailable")
  \/ Restrict(r, "fail_unavailable", "restore_failed", "unavailable")
  \/ Restrict(r, "fail_integrity", "restore_failed", "integrity_failed")

\* The audit of the completion, and the access token, issued for the row.
CompleteRestore(r) ==
  /\ Continue(r, "complete", AfterAudit("completed"))
  /\ Record("restore_completed", wanted[r])
  /\ UNCHANGED <<backups, objects, keys, level, faults, wanted, loaded>>

RestoreStep(r) ==
  \/ ValidateMfa(r) \/ LoadMetadata(r) \/ AuthorizeRestore(r) \/ CheckIncidentLevel(r)
  \/ RestrictRestore(r) \/ RestoreAndVerify(r) \/ RestoreUnavailable(r) \/ FailRestore(r)
  \/ CompleteRestore(r)

\* As for a submission.
RestoreDies(r) ==
  /\ restore[r] \in RestoreRunning
  /\ faults < MaxFaults
  /\ faults' = faults + 1
  /\ restore' = [restore EXCEPT ![r] = "server_error"]
  /\ UNCHANGED <<backups, objects, keys, level, trail, wanted, loaded>>
=============================================================================
