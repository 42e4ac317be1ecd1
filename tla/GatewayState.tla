---------------------------- MODULE GatewayState ----------------------------
(***************************************************************************)
(* What the requests of the gateway share: the tables of backups and keys, *)
(* the stored objects, the incident level and the audit log.  Every commit *)
(* of a request is one step on this state; the components that EXTEND this *)
(* module have the steps.                                                  *)
(*                                                                         *)
(* Three things are coarser here than in the modules that detail them: an  *)
(* audit call is one step (AuditChain), the active key is one read and at  *)
(* most one version is active (KeyVersions), and the level changes at once *)
(* (IncidentState).                                                        *)
(***************************************************************************)
EXTENDS Naturals, FiniteSets, IncidentLevels

CONSTANTS Backups,       \* backup ids, one for each submission
          Versions,      \* key versions
          SeedVersion,   \* the version the key store names active (P-001)
          NoVersion,
          MaxFaults      \* bound: how many requests fail or die half-way

ASSUME VersionsAssumption == SeedVersion \in Versions /\ NoVersion \notin Versions
ASSUME MaxFaultsAssumption == MaxFaults \in Nat

VARIABLES backups,   \* the table backup_metadata
          objects,   \* the object storage: the version each blob is encrypted under
          keys,      \* the table key_versions
          level,     \* the incident level
          trail,     \* the audit log, as the set of what it has on record
          faults     \* how many requests have failed or died

shared == <<backups, objects, keys, level, trail, faults>>

Statuses == {"absent", "PROCESSING", "ACTIVE", "FAILED", "IRREVERSIBLE"}

\* stored: storage_path, nonce, sizes and checksum_ciphertext are set.
BackupRows == [status : Statuses, key_version : Versions \cup {NoVersion}, stored : BOOLEAN]

NoBackup == [status |-> "absent", key_version |-> NoVersion, stored |-> FALSE]

SharedInit ==
  /\ backups = [b \in Backups |-> NoBackup]
  /\ objects = [b \in Backups |-> NoVersion]
  /\ keys = [v \in Versions |-> [active |-> v = SeedVersion, destroyed |-> FALSE]]
  /\ level = "NORMAL"
  /\ trail = {}
  /\ faults = 0

SharedTypeOK ==
  /\ backups \in [Backups -> BackupRows]
  /\ objects \in [Backups -> Versions \cup {NoVersion}]
  /\ keys \in [Versions -> [active : BOOLEAN, destroyed : BOOLEAN]]
  /\ level \in Levels
  /\ faults \in 0..MaxFaults

-----------------------------------------------------------------------------
(* Audit calls.  Every call below is fail-secure: it returns with its      *)
(* entry on record or the request ends with a 500 (a fault).  A call that  *)
(* met a conflict on chain_index has rolled its session back, and with it  *)
(* expired every row object the request still holds: reading an attribute  *)
(* of one afterwards raises (MissingGreenlet), a 500 with no handler.      *)

\* Mistake: fail_secure=False, so a failed write goes unnoticed.
RecordBestEffort(action, subject) == trail' \in {trail, trail \cup {<<action, subject>>}}

Record(action, subject) == trail' = trail \cup {<<action, subject>>}

OnRecord(action, subject) == <<action, subject>> \in trail

\* Where a request goes on after an audit call, when it reads a row object next.
AfterAudit(next) == {next, "server_error"}
=============================================================================
