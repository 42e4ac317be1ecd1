------------------------------- MODULE Gateway -------------------------------
(***************************************************************************)
(* The gateway: submissions, crypto-shreds and restores running together   *)
(* on the shared state, with rotations, changes of the incident level and  *)
(* restarts of the process around them.                                    *)
(***************************************************************************)
EXTENDS BackupSubmission, CryptoShred, RestoreFlow

CONSTANT MaxRestarts   \* bound

ASSUME MaxRestartsAssumption == MaxRestarts \in Nat

VARIABLES restarts,   \* how often the process has restarted
          settled,    \* history: submissions over when each shred looked its version up
          calm        \* history: restores past their MFA check that were under way at NORMAL

history == <<settled, calm>>
requestVars == <<submissionVars, shredVars, restoreVars>>
vars == <<shared, requestVars, restarts, history>>

Settled == {b \in Backups : submission[b] \in SubmissionEnded}

Init ==
  /\ SharedInit
  /\ SubmissionInit
  /\ ShredInit
  /\ RestoreInit
  /\ restarts = 0
  /\ settled = [x \in Shreds |-> {}]
  /\ calm = {}

\* Which restores have been under way at NORMAL after a step.
NoteCalm ==
  calm' = calm \cup (IF level' = "NORMAL" THEN {r \in Restores : restore'[r] # "mfa"} ELSE {})

Submit(b) ==
  /\ SubmissionStep(b)
  /\ UNCHANGED <<shredVars, restoreVars, restarts, settled>>

Shred(x) ==
  /\ ShredStep(x)
  /\ settled' = [settled EXCEPT ![x] =
       IF shred[x] = "lookup" /\ ~keys[victim[x]].destroyed THEN Settled ELSE @]
  /\ UNCHANGED <<submissionVars, restoreVars, restarts>>

Restore(r) ==
  /\ RestoreStep(r)
  /\ UNCHANGED <<submissionVars, shredVars, restarts, settled>>

RequestDies ==
  /\ \/ \E b \in Backups : SubmissionDies(b) /\ UNCHANGED <<shredVars, restoreVars>>
     \/ \E x \in Shreds : ShredDies(x) /\ UNCHANGED <<submissionVars, restoreVars>>
     \/ \E r \in Restores : RestoreDies(r) /\ UNCHANGED <<submissionVars, shredVars>>
  /\ UNCHANGED <<restarts, settled>>

\* rotate_active_version, to a version that is not destroyed.
RotateKey(v) ==
  /\ ~keys[v].active
  /\ ~keys[v].destroyed
  /\ keys' = [w \in Versions |-> [keys[w] EXCEPT !.active = w = v]]
  /\ UNCHANGED <<backups, objects, level, trail, faults, requestVars, restarts, settled>>

\* PUT /admin/incident.
ChangeLevel ==
  /\ level' \in Allowed(level)
  /\ UNCHANGED <<backups, objects, keys, trail, faults, requestVars, restarts, settled>>

\* Every request dies with the process, and so does the object storage, a
\* dictionary in its memory.
Restart ==
  /\ restarts < MaxRestarts
  /\ restarts' = restarts + 1
  /\ submission' = [b \in Backups |->
       IF submission[b] \in SubmissionRunning THEN "server_error" ELSE submission[b]]
  /\ shred' = [x \in Shreds |-> IF shred[x] \in ShredRunning THEN "server_error" ELSE shred[x]]
  /\ restore' = [r \in Restores |->
       IF restore[r] \in RestoreRunning THEN "server_error" ELSE restore[r]]
  /\ objects' = [b \in Backups |-> NoVersion]
  /\ UNCHANGED <<backups, keys, level, trail, faults, fetched, wiring, victim, linked, wanted, loaded,
                 settled>>

Next ==
  /\ \/ \E b \in Backups : Submit(b)
     \/ \E x \in Shreds : Shred(x)
     \/ \E r \in Restores : Restore(r)
     \/ RequestDies
     \/ \E v \in Versions : RotateKey(v)
     \/ ChangeLevel
     \/ Restart
  /\ NoteCalm

Spec == Init /\ [][Next]_vars

-----------------------------------------------------------------------------
(* Safety.                                                                 *)

\* The state has its type.
TypeOK ==
  /\ SharedTypeOK
  /\ SubmissionTypeOK
  /\ ShredTypeOK
  /\ RestoreTypeOK
  /\ restarts \in 0..MaxRestarts
  /\ settled \in [Shreds -> SUBSET Backups]
  /\ calm \subseteq Restores

\* The version in the row of a stored backup is the one its blob is encrypted
\* under, whatever is rotated or destroyed between the two writes: a restore
\* never decrypts with the wrong key, short of a restart that loses the blob.
RecordedKeyOpensObject ==
  restarts = 0 =>
    /\ \A b \in Backups : backups[b].stored => objects[b] = backups[b].key_version
    /\ \A r \in Restores : restore[r] \notin {"fail_integrity", "integrity_failed"}

\* Only a backup that was ACTIVE when it was loaded is ever restored, though
\* the code turns away no status but IRREVERSIBLE.
OnlyActiveIsRestored ==
  \A r \in Restores : restore[r] \in {"complete", "completed"} => loaded[r].status = "ACTIVE"

\* What cannot be undone is on record before it is done, wherever a request
\* dies: no blob, no destroyed key and no plaintext without its audit entry.
EvidenceComesFirst ==
  /\ \A b \in Backups :
       objects[b] # NoVersion =>
         OnRecord("policy_decision", b) /\ OnRecord("backup_processing_started", b)
  /\ \A v \in Versions : keys[v].destroyed => OnRecord("crypto_shred_started", v)
  /\ \A r \in Restores :
       restore[r] = "completed" =>
         OnRecord("restore_decision", wanted[r]) /\ OnRecord("restore_completed", wanted[r])

\* Without faults and restarts every submission brings its backup to an end:
\* none is left in PROCESSING, also when the key or the storage fails.
OnlyFaultsLeaveProcessing ==
  faults = 0 /\ restarts = 0 =>
    \A b \in Settled : backups[b].status # "PROCESSING"

\* A conflict in the audit log, which expires the rows a request has loaded,
\* can cost a submission its answer and nothing else: its backup is stored and
\* its success on record.  A restore it ends has at least its decision, its
\* restriction or its failure on record.
ConflictsCostTheAnswer ==
  faults = 0 /\ restarts = 0 =>
    /\ \A b \in Backups : submission[b] = "server_error" =>
         /\ OnRecord("backup_processing_succeeded", b)
         /\ backups[b].stored /\ backups[b].status \in {"ACTIVE", "IRREVERSIBLE"}
    /\ \A r \in Restores : restore[r] = "server_error" =>
         \E action \in {"restore_decision", "restore_restricted_blocked", "restore_failed"} :
           OnRecord(action, wanted[r])

\* The one look at the incident level is enough to stop a restore that is
\* restricted from its first read to its last: none decrypts unless the level
\* was NORMAL while it was under way (load_restore_metadata).
RestrictedIsNeverRestored ==
  \A r \in Restores : restore[r] \in {"fetch", "complete", "completed"} => r \in calm

\* A completed shred has closed every backup of its version whose submission
\* was over when it began, and they stay closed.
CompletedShredClosesBackups ==
  \A x \in Shreds :
    shred[x] = "completed" =>
      /\ keys[victim[x]].destroyed
      /\ \A b \in settled[x] :
           backups[b].key_version = victim[x] => backups[b].status = "IRREVERSIBLE"

\* No other shred is after the same version.
Alone(x) == \A y \in Shreds \ {x} : victim[y] # victim[x]

\* In one transaction there is no moment, and no crash, between the key and
\* the backups of its settled submissions; unless two shreds of one version
\* overlap: the first to commit has not seen what settled for the second.
DestroyedWithItsBackups ==
  wiring = "atomic" => \A x \in Shreds : Alone(x) => \A b \in settled[x] :
    /\ keys[victim[x]].destroyed
    /\ backups[b].key_version = victim[x]
    => backups[b].status = "IRREVERSIBLE"

-----------------------------------------------------------------------------
(* Refinement.                                                             *)

RowStatus == [b \in Backups |-> backups[b].status]
RowKey == [b \in Backups |-> backups[b].key_version]
Stored == {b \in Backups : backups[b].stored}
Unsettled == Backups \ Settled
DestroyedVersions == {v \in Versions : keys[v].destroyed}

\* A restore is let in by the row it loaded.
StageAt(place, row) ==
  CASE place = "completed"                    -> "restored"
    [] place \in RestoreEnded \ {"completed"} -> "refused"
    [] place \in RestoreRunning              ->
         IF row.status = "ACTIVE" THEN "admitted" ELSE "asked"

Stage == [r \in Restores |-> StageAt(restore[r], loaded[r])]

Life == INSTANCE BackupLife WITH
          status <- RowStatus, key <- RowKey, sealed <- Stored, open <- Unsettled,
          destroyed <- DestroyedVersions, stage <- Stage

\* Submissions, shreds and restores together treat a backup as BackupLife says:
\* while its submission is open only that and shreds of its version write the
\* status, later only the latter; nothing is closed whose version is not
\* destroyed; the version is recorded once; and plaintext goes to a restore
\* that found the backup ACTIVE and stored.
ImplementsBackupLife == Life!Spec

-----------------------------------------------------------------------------
(* What the documents say, and the code does not keep.                     *)

Completes(r) == restore[r] # "completed" /\ restore'[r] = "completed"

\* No backup of a version that a crypto-shred destroyed is restored afterwards.
DestroyedIsNeverRestored ==
  [][\A r \in Restores, x \in Shreds :
       Completes(r) /\ shred[x] = "completed" => loaded[r].key_version # victim[x]]_vars

\* No backup of a version that a crypto-shred destroyed looks restorable once
\* both have run to their end.
ShredLeavesNoActive ==
  \A x \in Shreds : \A b \in Settled :
    shred[x] = "completed" /\ backups[b].key_version = victim[x]
    => backups[b].status # "ACTIVE"

\* Without faults every crypto-shred is carried out or denied.
ShredTakesEffect ==
  faults = 0 /\ restarts = 0 => \A x \in Shreds : shred[x] # "server_error"
=============================================================================
