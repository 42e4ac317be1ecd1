-------------------------- MODULE BackupSubmission --------------------------
(***************************************************************************)
(* POST /backups: BackupService.submit_backup, one step for each await.    *)
(* Between two steps anything else may run: rotations, crypto-shreds,      *)
(* level changes, restores of this very backup.                            *)
(***************************************************************************)
EXTENDS GatewayState

VARIABLES submission,   \* where each submission is
          fetched       \* the key version each submission was handed

submissionVars == <<submission, fetched>>

SubmissionRunning ==
  {"authorize", "deny", "create", "announce", "get_key", "tag", "store", "activate",
   "finish", "mark_failed", "report"}
SubmissionEnded == {"rejected", "denied", "accepted", "failed", "server_error"}

SubmissionInit ==
  /\ submission = [b \in Backups |-> "authorize"]
  /\ fetched = [b \in Backups |-> NoVersion]

SubmissionTypeOK ==
  /\ submission \in [Backups -> SubmissionRunning \cup SubmissionEnded]
  /\ fetched \in [Backups -> Versions \cup {NoVersion}]

\* b goes from one place to one of the next.
Advance(b, here, next) ==
  /\ submission[b] = here
  /\ submission' \in {[submission EXCEPT ![b] = n] : n \in next}

-----------------------------------------------------------------------------
\* A classification that is missing or misconfigured is a 422, unaudited.
RejectBackup(b) ==
  /\ Advance(b, "authorize", {"rejected"})
  /\ UNCHANGED <<shared, fetched>>

\* evaluate_backup and the audit of its decision, either way.
AuthorizeBackup(b) ==
  /\ Advance(b, "authorize", {"create", "deny"})
  /\ Record("policy_decision", b)
  /\ UNCHANGED <<backups, objects, keys, level, faults, fetched>>

DenyBackup(b) ==
  /\ Advance(b, "deny", {"denied"})
  /\ Record("backup_processing_denied", b)
  /\ UNCHANGED <<backups, objects, keys, level, faults, fetched>>

CreateMetadata(b) ==
  /\ Advance(b, "create", {"announce"})
  /\ backups' = [backups EXCEPT ![b] = [NoBackup EXCEPT !.status = "PROCESSING"]]
  /\ UNCHANGED <<objects, keys, level, trail, faults, fetched>>

\* Mistake: the row is read again after the audit call.
AnnounceBackupRead(b) ==
  /\ Advance(b, "announce", AfterAudit("get_key"))
  /\ Record("backup_processing_started", b)
  /\ UNCHANGED <<backups, objects, keys, level, faults, fetched>>

AnnounceBackup(b) ==
  /\ Advance(b, "announce", {"get_key"})
  /\ Record("backup_processing_started", b)
  /\ UNCHANGED <<backups, objects, keys, level, faults, fetched>>

\* _ensure_active_seed: with no active version, the seed version becomes
\* active, destroyed or not.
KeysSeeded ==
  IF \E v \in Versions : keys[v].active THEN keys
  ELSE [keys EXCEPT ![SeedVersion].active = TRUE]

\* get_active_key_material: the active version unless it is destroyed.
UsableVersions == { v \in Versions : KeysSeeded[v].active /\ ~keys[v].destroyed }

GetKey(b) ==
  /\ submission[b] = "get_key"
  /\ keys' = KeysSeeded
  /\ \E v \in UsableVersions :
       /\ fetched' = [fetched EXCEPT ![b] = v]
       /\ submission' = [submission EXCEPT ![b] = "tag"]
  /\ UNCHANGED <<backups, objects, level, trail, faults>>

\* The active version is destroyed, or its key file cannot be read.
KeyUnavailable(b) ==
  /\ Advance(b, "get_key", {"mark_failed"})
  /\ keys' = KeysSeeded
  /\ UNCHANGED <<backups, objects, level, trail, faults, fetched>>

\* Mistake: the storage path is filled in together with the key version.
TagWithKeyAndPath(b) ==
  /\ Advance(b, "tag", {"store"})
  /\ backups' = [backups EXCEPT ![b].key_version = fetched[b], ![b].stored = TRUE]
  /\ UNCHANGED <<objects, keys, level, trail, faults, fetched>>

TagWithKey(b) ==
  /\ Advance(b, "tag", {"store"})
  /\ backups' = [backups EXCEPT ![b].key_version = fetched[b]]
  /\ UNCHANGED <<objects, keys, level, trail, faults, fetched>>

\* encrypt under the key that was fetched, then put_object.
StoreObject(b) ==
  /\ Advance(b, "store", {"activate"})
  /\ objects' = [objects EXCEPT ![b] = fetched[b]]
  /\ UNCHANGED <<backups, keys, level, trail, faults, fetched>>

\* Mistake: the failure is reported and the row forgotten.
StoreFailsUnmarked(b) ==
  /\ Advance(b, "store", {"report"})
  /\ UNCHANGED <<shared, fetched>>

\* encrypt or put_object raises.
StoreFails(b) ==
  /\ Advance(b, "store", {"mark_failed"})
  /\ UNCHANGED <<shared, fetched>>

\* Mistake: the version that is active by now is recorded.
ActivatedUnderActiveKey(b) ==
  LET now == {v \in Versions : keys[v].active}
  IN  [status      |-> "ACTIVE",
       key_version |-> IF now = {} THEN fetched[b] ELSE CHOOSE v \in now : TRUE,
       stored      |-> TRUE]

\* The columns of the last update, whatever the row says by now.
Activated(b) == [status |-> "ACTIVE", key_version |-> fetched[b], stored |-> TRUE]

ActivateBackup(b) ==
  /\ Advance(b, "activate", {"finish"})
  /\ backups' = [backups EXCEPT ![b] = Activated(b)]
  /\ UNCHANGED <<objects, keys, level, trail, faults, fetched>>

\* The response reads the row object after the audit call.
FinishBackup(b) ==
  /\ Advance(b, "finish", AfterAudit("accepted"))
  /\ Record("backup_processing_succeeded", b)
  /\ UNCHANGED <<backups, objects, keys, level, faults, fetched>>

\* Mistake: a status of its own for each reason.
MarkFailedByReason(b) ==
  /\ Advance(b, "mark_failed", {"report"})
  /\ backups' = [backups EXCEPT ![b].status = "storage_failed"]
  /\ UNCHANGED <<objects, keys, level, trail, faults, fetched>>

MarkFailed(b) ==
  /\ Advance(b, "mark_failed", {"report"})
  /\ backups' = [backups EXCEPT ![b].status = "FAILED"]
  /\ UNCHANGED <<objects, keys, level, trail, faults, fetched>>

ReportFailure(b) ==
  /\ Advance(b, "report", {"failed"})
  /\ Record("backup_processing_failed", b)
  /\ UNCHANGED <<backups, objects, keys, level, faults, fetched>>

SubmissionStep(b) ==
  \/ RejectBackup(b) \/ AuthorizeBackup(b) \/ DenyBackup(b) \/ CreateMetadata(b)
  \/ AnnounceBackup(b) \/ GetKey(b) \/ KeyUnavailable(b) \/ TagWithKey(b)
  \/ StoreObject(b) \/ StoreFails(b) \/ ActivateBackup(b) \/ FinishBackup(b)
  \/ MarkFailed(b) \/ ReportFailure(b)

\* A database or audit error, or a cancelled task, before or after any of the
\* commits above.  Nobody comes back to the row the submission leaves behind:
\* a failed flush also defeats the attempt to mark the backup FAILED.
SubmissionDies(b) ==
  /\ submission[b] \in SubmissionRunning
  /\ faults < MaxFaults
  /\ faults' = faults + 1
  /\ submission' = [submission EXCEPT ![b] = "server_error"]
  /\ UNCHANGED <<backups, objects, keys, level, trail, fetched>>
=============================================================================
