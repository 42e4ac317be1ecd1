---------------------------- MODULE Gateway_proofs ----------------------------
(***************************************************************************)
(* Proofs about Gateway for any number of submissions, crypto-shreds,      *)
(* restores, key versions, faults and restarts.  What a request went by is *)
(* old when it is used: the invariant says of each place what must still   *)
(* be true there, and Forward what no step of anybody takes back.          *)
(*                                                                         *)
(* The second half shows that Gateway implements BackupLife, with an       *)
(* invariant of its own for what a submission knows of its row.            *)
(***************************************************************************)
EXTENDS Gateway, TLAPS

\* What is known of a backup and its submission, wherever it is.
SubmissionOK(b) ==
  /\ submission[b] \in {"authorize", "deny", "create", "rejected", "denied"} =>
       backups[b] = NoBackup /\ objects[b] = NoVersion
  /\ submission[b] \in {"announce", "get_key", "tag"} =>
       backups[b].key_version = NoVersion /\ objects[b] = NoVersion
  /\ submission[b] \in {"tag", "store", "activate", "finish"} => fetched[b] \in Versions
  /\ backups[b].key_version # NoVersion => backups[b].key_version = fetched[b]
  /\ backups[b].stored =>
       /\ submission[b] \in {"finish", "accepted", "server_error"}
       /\ backups[b].status \in {"ACTIVE", "IRREVERSIBLE"}
       /\ backups[b].key_version # NoVersion
       /\ restarts = 0 => objects[b] = backups[b].key_version
  /\ submission[b] = "activate" /\ restarts = 0 => objects[b] = fetched[b]
  /\ submission[b] \in {"finish", "accepted"} => backups[b].stored
  /\ submission[b] \in {"report", "failed"} => backups[b].status \in {"FAILED", "IRREVERSIBLE"}
  /\ submission[b] = "server_error" /\ faults = 0 /\ restarts = 0 =>
       backups[b].stored /\ OnRecord("backup_processing_succeeded", b)
  /\ submission[b] \in {"create", "announce", "get_key", "tag", "store", "activate"} =>
       OnRecord("policy_decision", b)
  /\ submission[b] \in {"get_key", "tag", "store", "activate"} =>
       OnRecord("backup_processing_started", b)
  /\ objects[b] # NoVersion =>
       OnRecord("policy_decision", b) /\ OnRecord("backup_processing_started", b)

\* The backups of x that were settled when it looked its version up are closed.
Closed(x) ==
  \A b \in settled[x] : backups[b].key_version = victim[x] => backups[b].status = "IRREVERSIBLE"

\* What is known of a crypto-shred.
ShredOK(x) ==
  /\ settled[x] \subseteq Settled
  /\ \A b \in linked[x] : backups[b].key_version = victim[x]
  /\ shred[x] \in {"begin", "lookup", "destroy", "select", "mark"} =>
       OnRecord("crypto_shred_started", victim[x])
  /\ shred[x] = "destroy" => wiring # "atomic"
  /\ shred[x] \in {"select", "mark"} /\ wiring # "atomic" => keys[victim[x]].destroyed
  /\ shred[x] = "mark" =>
       \A b \in settled[x] :
         backups[b].key_version = victim[x] => b \in linked[x] \/ backups[b].status = "IRREVERSIBLE"
  /\ shred[x] \in {"escalate", "effect", "complete", "completed"} =>
       keys[victim[x]].destroyed /\ Closed(x)
  /\ wiring = "atomic" /\ Alone(x) /\ keys[victim[x]].destroyed => Closed(x)

\* What is known of a restore.
RestoreOK(r) ==
  /\ loaded[r].stored =>
       /\ backups[wanted[r]].stored
       /\ backups[wanted[r]].key_version = loaded[r].key_version
       /\ loaded[r].status \in {"ACTIVE", "IRREVERSIBLE"}
  /\ restore[r] \in {"authorize", "incident", "fetch", "complete", "completed"} =>
       loaded[r].status # "IRREVERSIBLE"
  /\ restore[r] \in {"complete", "completed"} => loaded[r].stored
  /\ restarts = 0 => restore[r] \notin {"fail_integrity", "integrity_failed"}
  /\ restore[r] \in {"incident", "review", "block_restricted", "fetch", "fail_unavailable",
                     "fail_integrity", "complete", "completed"} =>
       OnRecord("restore_decision", wanted[r])
  /\ restore[r] = "completed" => OnRecord("restore_completed", wanted[r])
  /\ restore[r] = "server_error" /\ faults = 0 /\ restarts = 0 =>
       \E action \in {"restore_decision", "restore_restricted_blocked", "restore_failed"} :
         OnRecord(action, wanted[r])
  /\ restore[r] \in {"fetch", "complete", "completed"} => r \in calm

\* No key is destroyed without a trace.
KeysOK == \A v \in Versions : keys[v].destroyed => OnRecord("crypto_shred_started", v)

Inv ==
  /\ TypeOK
  /\ KeysOK
  /\ \A b \in Backups : SubmissionOK(b)
  /\ \A x \in Shreds : ShredOK(x)
  /\ \A r \in Restores : RestoreOK(r)

-----------------------------------------------------------------------------
(* What no step takes back.                                                *)

Forward ==
  /\ trail \subseteq trail'
  /\ calm \subseteq calm'
  /\ faults' = 0 => faults = 0
  /\ restarts' = 0 => restarts = 0
  /\ \A v \in Versions : keys[v].destroyed => keys'[v].destroyed
  /\ \A b \in Backups :
       /\ backups[b].key_version # NoVersion => backups'[b].key_version = backups[b].key_version
       /\ backups[b].stored => backups'[b].stored
  /\ \A b \in Settled :
       /\ b \in Settled'
       /\ backups'[b].key_version = backups[b].key_version
       /\ backups'[b].status \in {backups[b].status, "IRREVERSIBLE"}
  /\ UNCHANGED <<wiring, victim, wanted>>

\* b and its submission are as they were, but for being closed.
SubmissionStays(b) ==
  /\ submission'[b] = submission[b] /\ fetched'[b] = fetched[b] /\ objects'[b] = objects[b]
  /\ \/ backups'[b] = backups[b]
     \/ /\ backups[b].key_version # NoVersion
        /\ backups'[b] = [backups[b] EXCEPT !.status = "IRREVERSIBLE"]

LEMMA TypesOfBackup ==
  ASSUME TypeOK, NEW b \in Backups
  PROVE  /\ backups[b] \in BackupRows
         /\ backups[b].status \in Statuses
         /\ backups[b].key_version \in Versions \cup {NoVersion}
         /\ backups[b].stored \in BOOLEAN
         /\ submission[b] \in SubmissionRunning \cup SubmissionEnded
         /\ fetched[b] \in Versions \cup {NoVersion}
         /\ objects[b] \in Versions \cup {NoVersion}
BY DEF TypeOK, SharedTypeOK, SubmissionTypeOK, BackupRows

LEMMA SubmissionKept ==
  ASSUME Inv, Forward, NEW b \in Backups, SubmissionStays(b)
  PROVE  SubmissionOK(b)'
<1>1. SubmissionOK(b) /\ backups[b] \in BackupRows
  BY TypesOfBackup DEF Inv
<1>2. \A action : OnRecord(action, b) => OnRecord(action, b)'
  BY DEF OnRecord, Forward
<1>3. CASE backups'[b] = backups[b]
  BY <1>1, <1>2, <1>3 DEF SubmissionOK, SubmissionStays, Forward
<1>4. CASE /\ backups[b].key_version # NoVersion
           /\ backups'[b] = [backups[b] EXCEPT !.status = "IRREVERSIBLE"]
  <2>1. /\ backups'[b].status = "IRREVERSIBLE"
        /\ backups'[b].key_version = backups[b].key_version
        /\ backups'[b].stored = backups[b].stored
        /\ backups[b].key_version # NoVersion
    BY <1>1, <1>4 DEF BackupRows
  <2>2. submission[b] \notin {"authorize", "deny", "create", "rejected", "denied",
                              "announce", "get_key", "tag"}
    BY <1>1, <2>1 DEF SubmissionOK, NoBackup
  <2> QED
    BY <1>1, <1>2, <2>1, <2>2 DEF SubmissionOK, SubmissionStays, Forward
<1> QED
  BY <1>3, <1>4 DEF SubmissionStays

LEMMA ClosedKept ==
  ASSUME Inv, Forward, NEW x \in Shreds, settled'[x] = settled[x], Closed(x)
  PROVE  Closed(x)'
<1>1. settled[x] \subseteq Settled
  BY DEF Inv, ShredOK
<1> QED
  BY <1>1 DEF Closed, Forward

LEMMA ShredKept ==
  ASSUME Inv, Forward, NEW x \in Shreds,
         shred'[x] = shred[x], linked'[x] = linked[x], settled'[x] = settled[x],
         wiring = "atomic" /\ Alone(x) => keys'[victim[x]].destroyed = keys[victim[x]].destroyed
  PROVE  ShredOK(x)'
<1>1. ShredOK(x) /\ victim[x] \in Versions /\ linked[x] \subseteq Backups /\ settled[x] \subseteq Backups
  BY DEF Inv, TypeOK, ShredTypeOK
<1>2. victim' = victim /\ wiring' = wiring /\ (Alone(x)' <=> Alone(x))
  BY DEF Forward, Alone
<1>3. OnRecord("crypto_shred_started", victim[x]) => OnRecord("crypto_shred_started", victim[x])'
  BY <1>2 DEF OnRecord, Forward
<1>4. (settled[x] \subseteq Settled)'
  BY <1>1 DEF ShredOK, Forward
<1>5. \A b \in linked[x] : backups'[b].key_version = victim[x]
  <2>1. victim[x] # NoVersion
    BY <1>1, VersionsAssumption
  <2> QED
    BY <1>1, <2>1 DEF ShredOK, Forward
<1>6. \A b \in settled[x] : /\ backups'[b].key_version = backups[b].key_version
                            /\ backups[b].status = "IRREVERSIBLE" => backups'[b].status = "IRREVERSIBLE"
  BY <1>1 DEF ShredOK, Forward
<1>7. keys[victim[x]].destroyed => keys'[victim[x]].destroyed
  BY <1>1 DEF Forward
<1> QED
  BY <1>1, <1>2, <1>3, <1>4, <1>5, <1>6, <1>7, ClosedKept DEF ShredOK

LEMMA RestoreKept ==
  ASSUME Inv, Forward, NEW r \in Restores, restore'[r] = restore[r], loaded'[r] = loaded[r]
  PROVE  RestoreOK(r)'
<1>1. RestoreOK(r) /\ wanted[r] \in Backups
  BY DEF Inv, TypeOK, RestoreTypeOK
<1>2. wanted' = wanted /\ \A action : OnRecord(action, wanted[r]) => OnRecord(action, wanted[r])'
  BY DEF OnRecord, Forward
<1>3. loaded[r].stored => /\ backups'[wanted[r]].stored
                          /\ backups'[wanted[r]].key_version = loaded[r].key_version
  <2>1. backups[wanted[r]].stored => backups[wanted[r]].key_version # NoVersion
    BY <1>1 DEF Inv, SubmissionOK
  <2> QED
    BY <1>1, <2>1 DEF RestoreOK, Forward
<1> QED
  BY <1>1, <1>2, <1>3 DEF RestoreOK, Forward

\* Restores are noted and never forgotten.
LEMMA CalmKept ==
  ASSUME TypeOK, NoteCalm
  PROVE  calm \subseteq calm' /\ calm' \subseteq Restores
BY DEF NoteCalm, TypeOK

-----------------------------------------------------------------------------
(* The steps of a submission.                                              *)

\* Every key is as much destroyed as it was.
DestroyedSame ==
  /\ keys' \in [Versions -> [active : BOOLEAN, destroyed : BOOLEAN]]
  /\ \A v \in Versions : keys'[v].destroyed = keys[v].destroyed

\* Nothing moves but the submission of b.
OnlySubmission(b) ==
  /\ UNCHANGED <<level, shredVars, restoreVars, restarts, settled>>
  /\ \A c \in Backups \ {b} : /\ submission'[c] = submission[c] /\ fetched'[c] = fetched[c]
                              /\ objects'[c] = objects[c] /\ backups'[c] = backups[c]
  /\ trail \subseteq trail'
  /\ DestroyedSame
  /\ NoteCalm

LEMMA SameKeysStayOK ==
  ASSUME KeysOK, DestroyedSame, trail \subseteq trail'
  PROVE  KeysOK'
BY DEF KeysOK, DestroyedSame, OnRecord

LEMMA SubmissionMoves ==
  ASSUME Inv, NEW b \in Backups, OnlySubmission(b), submission[b] \in SubmissionRunning,
         submission' \in [Backups -> SubmissionRunning \cup SubmissionEnded],
         fetched' \in [Backups -> Versions \cup {NoVersion}],
         objects' \in [Backups -> Versions \cup {NoVersion}],
         backups' \in [Backups -> BackupRows],
         faults' \in 0..MaxFaults, faults' = 0 => faults = 0,
         backups[b].key_version # NoVersion => backups'[b].key_version = backups[b].key_version,
         backups[b].stored => backups'[b].stored,
         SubmissionOK(b)'
  PROVE  Inv' /\ Forward
<1>1. UNCHANGED <<level, wiring, shred, victim, linked, restore, wanted, loaded, restarts, settled>>
  BY DEF OnlySubmission, shredVars, restoreVars
<1>2. calm \subseteq calm' /\ calm' \subseteq Restores
  BY CalmKept DEF Inv, OnlySubmission
<1>3. TypeOK'
  BY <1>1, <1>2 DEF Inv, OnlySubmission, DestroyedSame, TypeOK, SharedTypeOK, SubmissionTypeOK,
                    ShredTypeOK, RestoreTypeOK
<1>4. b \notin Settled
  BY DEF Settled, SubmissionRunning, SubmissionEnded
<1>5. Forward
  BY <1>1, <1>2, <1>4 DEF Forward, OnlySubmission, DestroyedSame, Settled
<1>6. KeysOK'
  BY SameKeysStayOK DEF Inv, OnlySubmission
<1>7. \A c \in Backups : SubmissionOK(c)'
  BY <1>5, SubmissionKept DEF OnlySubmission, SubmissionStays
<1>8. \A x \in Shreds : ShredOK(x)'
  <2> SUFFICES ASSUME NEW x \in Shreds PROVE ShredOK(x)'
    OBVIOUS
  <2>1. victim[x] \in Versions
    BY DEF Inv, TypeOK, ShredTypeOK
  <2> QED
    BY <1>1, <1>5, <2>1, ShredKept DEF OnlySubmission, DestroyedSame
<1>9. \A r \in Restores : RestoreOK(r)'
  BY <1>1, <1>5, RestoreKept
<1> QED
  BY <1>3, <1>5, <1>6, <1>7, <1>8, <1>9 DEF Inv

LEMMA Advances ==
  ASSUME TypeOK, NEW b \in Backups, NEW here \in SubmissionRunning,
         NEW next \in SUBSET (SubmissionRunning \cup SubmissionEnded), Advance(b, here, next)
  PROVE  /\ submission[b] = here /\ submission'[b] \in next
         /\ submission' \in [Backups -> SubmissionRunning \cup SubmissionEnded]
         /\ \A c \in Backups \ {b} : submission'[c] = submission[c]
BY DEF TypeOK, SubmissionTypeOK, Advance

\* A step that writes to the audit log at most.
LEMMA SubmissionGoesOn ==
  ASSUME Inv, NEW b \in Backups, NEW here \in SubmissionRunning,
         NEW next \in SUBSET (SubmissionRunning \cup SubmissionEnded), Advance(b, here, next),
         UNCHANGED <<backups, objects, fetched, level, faults, shredVars, restoreVars, restarts, settled>>,
         trail \subseteq trail', DestroyedSame, NoteCalm, SubmissionOK(b)'
  PROVE  Inv' /\ Forward
<1>1. /\ submission[b] = here
      /\ submission' \in [Backups -> SubmissionRunning \cup SubmissionEnded]
      /\ \A c \in Backups \ {b} : submission'[c] = submission[c]
  BY Advances DEF Inv
<1>2. OnlySubmission(b)
  BY <1>1 DEF OnlySubmission
<1>3. /\ fetched' \in [Backups -> Versions \cup {NoVersion}]
      /\ objects' \in [Backups -> Versions \cup {NoVersion}]
      /\ backups' \in [Backups -> BackupRows]
      /\ faults' \in 0..MaxFaults
  BY DEF Inv, TypeOK, SharedTypeOK, SubmissionTypeOK
<1> QED
  BY <1>1, <1>2, <1>3, SubmissionMoves

LEMMA SameKeys ==
  ASSUME TypeOK, UNCHANGED keys
  PROVE  DestroyedSame
BY DEF TypeOK, SharedTypeOK, DestroyedSame

LEMMA SeedingKeeps ==
  ASSUME TypeOK, keys' = KeysSeeded
  PROVE  DestroyedSame
<1>1. keys \in [Versions -> [active : BOOLEAN, destroyed : BOOLEAN]]
  BY DEF TypeOK, SharedTypeOK
<1>2. CASE KeysSeeded = keys
  BY <1>1, <1>2 DEF DestroyedSame
<1>3. CASE KeysSeeded = [keys EXCEPT ![SeedVersion].active = TRUE]
  BY <1>1, <1>3, VersionsAssumption DEF DestroyedSame
<1> QED
  BY <1>2, <1>3 DEF KeysSeeded

\* What a record puts on record.
LEMMA Recorded ==
  ASSUME NEW action, NEW subject, Record(action, subject)
  PROVE  /\ OnRecord(action, subject)'
         /\ trail \subseteq trail'
         /\ \A a, s : OnRecord(a, s) => OnRecord(a, s)'
BY DEF Record, OnRecord

LEMMA QuietSubmissionInv ==
  ASSUME Inv, NEW b \in Backups, NoteCalm, UNCHANGED <<shredVars, restoreVars, restarts, settled>>,
         \/ RejectBackup(b) \/ AuthorizeBackup(b) \/ DenyBackup(b) \/ AnnounceBackup(b)
         \/ KeyUnavailable(b) \/ StoreFails(b) \/ FinishBackup(b) \/ ReportFailure(b)
  PROVE  Inv' /\ Forward
<1> DEFINE Places == SubmissionRunning \cup SubmissionEnded
<1>1. TypeOK /\ SubmissionOK(b)
  BY DEF Inv
<1>2. CASE RejectBackup(b)
  <2>1. /\ Advance(b, "authorize", {"rejected"}) /\ "authorize" \in SubmissionRunning
        /\ {"rejected"} \in SUBSET Places
        /\ UNCHANGED <<backups, objects, keys, level, trail, faults, fetched>>
    BY <1>2 DEF RejectBackup, shared, SubmissionRunning, SubmissionEnded
  <2>2. submission[b] = "authorize" /\ submission'[b] = "rejected"
    BY <1>1, <2>1, Advances
  <2>3. SubmissionOK(b)'
    BY <1>1, <2>1, <2>2 DEF SubmissionOK, OnRecord, NoBackup
  <2> QED
    BY <1>1, <2>1, <2>3, SameKeys, SubmissionGoesOn
<1>3. CASE AuthorizeBackup(b)
  <2>1. /\ Advance(b, "authorize", {"create", "deny"}) /\ "authorize" \in SubmissionRunning
        /\ {"create", "deny"} \in SUBSET Places
        /\ Record("policy_decision", b)
        /\ UNCHANGED <<backups, objects, keys, level, faults, fetched>>
    BY <1>3 DEF AuthorizeBackup, SubmissionRunning, SubmissionEnded
  <2>2. submission[b] = "authorize" /\ submission'[b] \in {"create", "deny"}
    BY <1>1, <2>1, Advances
  <2>3. OnRecord("policy_decision", b)' /\ trail \subseteq trail'
    BY <2>1, Recorded
  <2>4. SubmissionOK(b)'
    BY <1>1, <2>1, <2>2, <2>3 DEF SubmissionOK, NoBackup
  <2> QED
    BY <1>1, <2>1, <2>3, <2>4, SameKeys, SubmissionGoesOn
<1>4. CASE DenyBackup(b)
  <2>1. /\ Advance(b, "deny", {"denied"}) /\ "deny" \in SubmissionRunning
        /\ {"denied"} \in SUBSET Places
        /\ Record("backup_processing_denied", b)
        /\ UNCHANGED <<backups, objects, keys, level, faults, fetched>>
    BY <1>4 DEF DenyBackup, SubmissionRunning, SubmissionEnded
  <2>2. submission[b] = "deny" /\ submission'[b] = "denied"
    BY <1>1, <2>1, Advances
  <2>3. trail \subseteq trail'
    BY <2>1, Recorded
  <2>4. SubmissionOK(b)'
    BY <1>1, <2>1, <2>2 DEF SubmissionOK, NoBackup
  <2> QED
    BY <1>1, <2>1, <2>3, <2>4, SameKeys, SubmissionGoesOn
<1>5. CASE AnnounceBackup(b)
  <2>1. /\ Advance(b, "announce", {"get_key"}) /\ "announce" \in SubmissionRunning
        /\ {"get_key"} \in SUBSET Places
        /\ Record("backup_processing_started", b)
        /\ UNCHANGED <<backups, objects, keys, level, faults, fetched>>
    BY <1>5 DEF AnnounceBackup, SubmissionRunning, SubmissionEnded
  <2>2. submission[b] = "announce" /\ submission'[b] = "get_key"
    BY <1>1, <2>1, Advances
  <2>3. /\ OnRecord("backup_processing_started", b)' /\ trail \subseteq trail'
        /\ OnRecord("policy_decision", b)'
    BY <1>1, <2>1, <2>2, Recorded DEF SubmissionOK
  <2>4. SubmissionOK(b)'
    BY <1>1, <2>1, <2>2, <2>3 DEF SubmissionOK
  <2> QED
    BY <1>1, <2>1, <2>3, <2>4, SameKeys, SubmissionGoesOn
<1>6. CASE KeyUnavailable(b)
  <2>1. /\ Advance(b, "get_key", {"mark_failed"}) /\ "get_key" \in SubmissionRunning
        /\ {"mark_failed"} \in SUBSET Places
        /\ keys' = KeysSeeded
        /\ UNCHANGED <<backups, objects, level, trail, faults, fetched>>
    BY <1>6 DEF KeyUnavailable, SubmissionRunning, SubmissionEnded
  <2>2. submission[b] = "get_key" /\ submission'[b] = "mark_failed"
    BY <1>1, <2>1, Advances
  <2>3. SubmissionOK(b)'
    BY <1>1, <2>1, <2>2 DEF SubmissionOK, OnRecord
  <2> QED
    BY <1>1, <2>1, <2>3, SeedingKeeps, SubmissionGoesOn
<1>7. CASE StoreFails(b)
  <2>1. /\ Advance(b, "store", {"mark_failed"}) /\ "store" \in SubmissionRunning
        /\ {"mark_failed"} \in SUBSET Places
        /\ UNCHANGED <<backups, objects, keys, level, trail, faults, fetched>>
    BY <1>7 DEF StoreFails, shared, SubmissionRunning, SubmissionEnded
  <2>2. submission[b] = "store" /\ submission'[b] = "mark_failed"
    BY <1>1, <2>1, Advances
  <2>3. SubmissionOK(b)'
    BY <1>1, <2>1, <2>2 DEF SubmissionOK, OnRecord
  <2> QED
    BY <1>1, <2>1, <2>3, SameKeys, SubmissionGoesOn
<1>8. CASE FinishBackup(b)
  <2>1. /\ Advance(b, "finish", {"accepted", "server_error"}) /\ "finish" \in SubmissionRunning
        /\ {"accepted", "server_error"} \in SUBSET Places
        /\ Record("backup_processing_succeeded", b)
        /\ UNCHANGED <<backups, objects, keys, level, faults, fetched>>
    BY <1>8 DEF FinishBackup, AfterAudit, SubmissionRunning, SubmissionEnded
  <2>2. submission[b] = "finish" /\ submission'[b] \in {"accepted", "server_error"}
    BY <1>1, <2>1, Advances
  <2>3. /\ OnRecord("backup_processing_succeeded", b)' /\ trail \subseteq trail'
        /\ \A a : OnRecord(a, b) => OnRecord(a, b)'
    BY <2>1, Recorded
  <2>4. SubmissionOK(b)'
    BY <1>1, <2>1, <2>2, <2>3 DEF SubmissionOK
  <2> QED
    BY <1>1, <2>1, <2>3, <2>4, SameKeys, SubmissionGoesOn
<1>9. CASE ReportFailure(b)
  <2>1. /\ Advance(b, "report", {"failed"}) /\ "report" \in SubmissionRunning
        /\ {"failed"} \in SUBSET Places
        /\ Record("backup_processing_failed", b)
        /\ UNCHANGED <<backups, objects, keys, level, faults, fetched>>
    BY <1>9 DEF ReportFailure, SubmissionRunning, SubmissionEnded
  <2>2. submission[b] = "report" /\ submission'[b] = "failed"
    BY <1>1, <2>1, Advances
  <2>3. trail \subseteq trail' /\ \A a : OnRecord(a, b) => OnRecord(a, b)'
    BY <2>1, Recorded
  <2>4. SubmissionOK(b)'
    BY <1>1, <2>1, <2>2, <2>3 DEF SubmissionOK
  <2> QED
    BY <1>1, <2>1, <2>3, <2>4, SameKeys, SubmissionGoesOn
<1> QED
  BY <1>2, <1>3, <1>4, <1>5, <1>6, <1>7, <1>8, <1>9

\* A step that writes to the row, to the storage, or fetches the key.
LEMMA SubmissionWrites ==
  ASSUME Inv, NEW b \in Backups, NEW here \in SubmissionRunning,
         NEW next \in SUBSET (SubmissionRunning \cup SubmissionEnded), Advance(b, here, next),
         NEW row \in BackupRows, backups' = [backups EXCEPT ![b] = row],
         NEW version \in Versions \cup {NoVersion}, fetched' = [fetched EXCEPT ![b] = version],
         NEW blob \in Versions \cup {NoVersion}, objects' = [objects EXCEPT ![b] = blob],
         UNCHANGED <<level, trail, faults, shredVars, restoreVars, restarts, settled>>,
         DestroyedSame, NoteCalm,
         backups[b].key_version # NoVersion => row.key_version = backups[b].key_version,
         backups[b].stored => row.stored,
         SubmissionOK(b)'
  PROVE  Inv' /\ Forward
<1>1. /\ submission[b] = here
      /\ submission' \in [Backups -> SubmissionRunning \cup SubmissionEnded]
      /\ \A c \in Backups \ {b} : submission'[c] = submission[c]
  BY Advances DEF Inv
<1>2. /\ fetched' \in [Backups -> Versions \cup {NoVersion}]
      /\ objects' \in [Backups -> Versions \cup {NoVersion}]
      /\ backups' \in [Backups -> BackupRows]
      /\ backups'[b] = row
      /\ faults' \in 0..MaxFaults
      /\ \A c \in Backups \ {b} : /\ fetched'[c] = fetched[c] /\ objects'[c] = objects[c]
                                  /\ backups'[c] = backups[c]
  BY DEF Inv, TypeOK, SharedTypeOK, SubmissionTypeOK
<1>3. OnlySubmission(b)
  BY <1>1, <1>2 DEF OnlySubmission
<1> QED
  BY <1>1, <1>2, <1>3, SubmissionMoves

\* An update that changes nothing.
LEMMA Untouched ==
  ASSUME NEW S, NEW f \in [Backups -> S], NEW b \in Backups
  PROVE  f = [f EXCEPT ![b] = f[b]]
OBVIOUS

LEMMA WritingSubmissionInv ==
  ASSUME Inv, NEW b \in Backups, NoteCalm, UNCHANGED <<shredVars, restoreVars, restarts, settled>>,
         \/ CreateMetadata(b) \/ GetKey(b) \/ TagWithKey(b) \/ StoreObject(b)
         \/ ActivateBackup(b) \/ MarkFailed(b)
  PROVE  Inv' /\ Forward
<1> DEFINE Places == SubmissionRunning \cup SubmissionEnded
<1>1. TypeOK /\ SubmissionOK(b)
  BY DEF Inv
<1>2. /\ backups[b] \in BackupRows /\ backups[b].key_version \in Versions \cup {NoVersion}
      /\ fetched[b] \in Versions \cup {NoVersion} /\ objects[b] \in Versions \cup {NoVersion}
      /\ backups = [backups EXCEPT ![b] = backups[b]]
      /\ fetched = [fetched EXCEPT ![b] = fetched[b]]
      /\ objects = [objects EXCEPT ![b] = objects[b]]
  BY <1>1, TypesOfBackup, Untouched DEF TypeOK, SharedTypeOK, SubmissionTypeOK
<1>3. \A v \in Versions : v # NoVersion
  BY VersionsAssumption
<1>4. CASE CreateMetadata(b)
  <2> DEFINE row == [NoBackup EXCEPT !.status = "PROCESSING"]
  <2>1. /\ Advance(b, "create", {"announce"}) /\ "create" \in SubmissionRunning
        /\ {"announce"} \in SUBSET Places
        /\ backups' = [backups EXCEPT ![b] = row]
        /\ UNCHANGED <<objects, keys, level, trail, faults, fetched>>
    BY <1>4 DEF CreateMetadata, SubmissionRunning
  <2>2. row \in BackupRows /\ row.key_version = NoVersion /\ ~row.stored
    BY DEF NoBackup, BackupRows, Statuses
  <2> HIDE DEF row
  <2>3. submission[b] = "create" /\ submission'[b] = "announce" /\ backups'[b] = row
    BY <1>1, <2>1, Advances DEF TypeOK, SharedTypeOK
  <2>4. backups[b].key_version = NoVersion /\ ~backups[b].stored
    BY <1>1, <2>3 DEF SubmissionOK, NoBackup
  <2>5. SubmissionOK(b)'
    BY <1>1, <2>1, <2>2, <2>3 DEF SubmissionOK, OnRecord
  <2> QED
    BY <1>1, <1>2, <2>1, <2>2, <2>4, <2>5, SameKeys, SubmissionWrites
<1>5. CASE GetKey(b)
  <2>1. PICK v \in UsableVersions :
          /\ fetched' = [fetched EXCEPT ![b] = v]
          /\ submission' = [submission EXCEPT ![b] = "tag"]
    BY <1>5 DEF GetKey
  <2>2. v \in Versions /\ v \in Versions \cup {NoVersion}
    BY DEF UsableVersions
  <2>3. /\ submission[b] = "get_key" /\ "get_key" \in SubmissionRunning
        /\ {"tag"} \in SUBSET Places
        /\ keys' = KeysSeeded
        /\ UNCHANGED <<backups, objects, level, trail, faults>>
    BY <1>5 DEF GetKey, SubmissionRunning
  <2>4. Advance(b, "get_key", {"tag"})
    BY <2>1, <2>3 DEF Advance
  <2>5. submission'[b] = "tag" /\ fetched'[b] = v
    BY <1>1, <2>1 DEF TypeOK, SubmissionTypeOK
  <2>6. SubmissionOK(b)'
    BY <1>1, <2>2, <2>3, <2>5 DEF SubmissionOK, OnRecord
  <2>7. backups' = [backups EXCEPT ![b] = backups[b]] /\ objects' = [objects EXCEPT ![b] = objects[b]]
    BY <1>2, <2>3
  <2> QED
    BY <1>1, <1>2, <2>1, <2>2, <2>3, <2>4, <2>6, <2>7, SeedingKeeps, SubmissionWrites
<1>6. CASE TagWithKey(b)
  <2> DEFINE row == [backups[b] EXCEPT !.key_version = fetched[b]]
  <2>1. /\ Advance(b, "tag", {"store"}) /\ "tag" \in SubmissionRunning
        /\ {"store"} \in SUBSET Places
        /\ backups' = [backups EXCEPT ![b] = row]
        /\ UNCHANGED <<objects, keys, level, trail, faults, fetched>>
    BY <1>6 DEF TagWithKey, SubmissionRunning
  <2>2. /\ row \in BackupRows /\ row.key_version = fetched[b] /\ row.stored = backups[b].stored
        /\ row.status = backups[b].status
    BY <1>2 DEF BackupRows
  <2> HIDE DEF row
  <2>3. submission[b] = "tag" /\ submission'[b] = "store" /\ backups'[b] = row
    BY <1>1, <2>1, Advances DEF TypeOK, SharedTypeOK
  <2>4. backups[b].key_version = NoVersion /\ ~backups[b].stored
    BY <1>1, <2>3 DEF SubmissionOK
  <2>5. SubmissionOK(b)'
    BY <1>1, <2>1, <2>2, <2>3, <2>4 DEF SubmissionOK, OnRecord
  <2> QED
    BY <1>1, <1>2, <2>1, <2>2, <2>4, <2>5, SameKeys, SubmissionWrites
<1>7. CASE StoreObject(b)
  <2>1. /\ Advance(b, "store", {"activate"}) /\ "store" \in SubmissionRunning
        /\ {"activate"} \in SUBSET Places
        /\ objects' = [objects EXCEPT ![b] = fetched[b]]
        /\ UNCHANGED <<backups, keys, level, trail, faults, fetched>>
    BY <1>7 DEF StoreObject, SubmissionRunning
  <2>2. submission[b] = "store" /\ submission'[b] = "activate" /\ objects'[b] = fetched[b]
    BY <1>1, <2>1, Advances DEF TypeOK, SharedTypeOK
  <2>3. SubmissionOK(b)'
    BY <1>1, <2>1, <2>2 DEF SubmissionOK, OnRecord
  <2>4. backups' = [backups EXCEPT ![b] = backups[b]] /\ fetched' = [fetched EXCEPT ![b] = fetched[b]]
    BY <1>2, <2>1
  <2> QED
    BY <1>1, <1>2, <2>1, <2>3, <2>4, SameKeys, SubmissionWrites
<1>8. CASE ActivateBackup(b)
  <2> DEFINE row == Activated(b)
  <2>1. /\ Advance(b, "activate", {"finish"}) /\ "activate" \in SubmissionRunning
        /\ {"finish"} \in SUBSET Places
        /\ backups' = [backups EXCEPT ![b] = row]
        /\ UNCHANGED <<objects, keys, level, trail, faults, fetched>>
    BY <1>8 DEF ActivateBackup, SubmissionRunning
  <2>2. row \in BackupRows /\ row.key_version = fetched[b] /\ row.stored /\ row.status = "ACTIVE"
    BY <1>2 DEF Activated, BackupRows, Statuses
  <2> HIDE DEF row
  <2>3. submission[b] = "activate" /\ submission'[b] = "finish" /\ backups'[b] = row
    BY <1>1, <2>1, Advances DEF TypeOK, SharedTypeOK
  <2>4. fetched[b] \in Versions /\ (restarts = 0 => objects[b] = fetched[b])
    BY <1>1, <2>3 DEF SubmissionOK
  <2>5. SubmissionOK(b)'
    BY <1>1, <1>3, <2>1, <2>2, <2>3, <2>4 DEF SubmissionOK, OnRecord
  <2>6. backups[b].key_version # NoVersion => row.key_version = backups[b].key_version
    BY <1>1, <2>2 DEF SubmissionOK
  <2> QED
    BY <1>1, <1>2, <2>1, <2>2, <2>5, <2>6, SameKeys, SubmissionWrites
<1>9. CASE MarkFailed(b)
  <2> DEFINE row == [backups[b] EXCEPT !.status = "FAILED"]
  <2>1. /\ Advance(b, "mark_failed", {"report"}) /\ "mark_failed" \in SubmissionRunning
        /\ {"report"} \in SUBSET Places
        /\ backups' = [backups EXCEPT ![b] = row]
        /\ UNCHANGED <<objects, keys, level, trail, faults, fetched>>
    BY <1>9 DEF MarkFailed, SubmissionRunning
  <2>2. /\ row \in BackupRows /\ row.key_version = backups[b].key_version
        /\ row.stored = backups[b].stored /\ row.status = "FAILED"
    BY <1>2 DEF BackupRows, Statuses
  <2> HIDE DEF row
  <2>3. submission[b] = "mark_failed" /\ submission'[b] = "report" /\ backups'[b] = row
    BY <1>1, <2>1, Advances DEF TypeOK, SharedTypeOK
  <2>4. ~backups[b].stored
    BY <1>1, <2>3 DEF SubmissionOK
  <2>5. SubmissionOK(b)'
    BY <1>1, <2>1, <2>2, <2>3, <2>4 DEF SubmissionOK, OnRecord
  <2> QED
    BY <1>1, <1>2, <2>1, <2>2, <2>4, <2>5, SameKeys, SubmissionWrites
<1> QED
  BY <1>4, <1>5, <1>6, <1>7, <1>8, <1>9

LEMMA SubmitInv ==
  ASSUME Inv, NEW b \in Backups, Submit(b), NoteCalm
  PROVE  Inv' /\ Forward
<1>1. SubmissionStep(b) /\ UNCHANGED <<shredVars, restoreVars, restarts, settled>>
  BY DEF Submit
<1> QED
  BY <1>1, QuietSubmissionInv, WritingSubmissionInv DEF SubmissionStep

-----------------------------------------------------------------------------
(* The steps of a crypto-shred.                                            *)

\* No key comes back, and none is destroyed but the one x is after.
OnlyVictim(x) ==
  /\ keys' \in [Versions -> [active : BOOLEAN, destroyed : BOOLEAN]]
  /\ \A v \in Versions : keys[v].destroyed => keys'[v].destroyed
  /\ \A v \in Versions \ {victim[x]} : keys'[v].destroyed = keys[v].destroyed

\* A backup is as it was, or is closed.
OnlyCloses ==
  \A b \in Backups :
    \/ backups'[b] = backups[b]
    \/ /\ backups[b].key_version # NoVersion
       /\ backups'[b] = [backups[b] EXCEPT !.status = "IRREVERSIBLE"]

LEMMA ClosingKeepsTypes ==
  ASSUME TypeOK, OnlyCloses, NEW b \in Backups
  PROVE  /\ backups'[b] \in BackupRows
         /\ backups'[b].key_version = backups[b].key_version
         /\ backups'[b].stored = backups[b].stored
         /\ backups'[b].status \in {backups[b].status, "IRREVERSIBLE"}
BY TypesOfBackup DEF OnlyCloses, BackupRows, Statuses

LEMMA ShredMoves ==
  ASSUME Inv, NEW x \in Shreds,
         UNCHANGED <<objects, submissionVars, restoreVars, restarts, wiring, victim>>,
         shred' \in [Shreds -> ShredRunning \cup ShredEnded],
         linked' \in [Shreds -> SUBSET Backups],
         settled' \in [Shreds -> SUBSET Backups],
         \A y \in Shreds \ {x} : shred'[y] = shred[y] /\ linked'[y] = linked[y] /\ settled'[y] = settled[y],
         level' \in Levels, faults' \in 0..MaxFaults, faults' = 0 => faults = 0,
         trail \subseteq trail', NoteCalm, OnlyVictim(x), KeysOK',
         backups' = [b \in Backups |-> backups'[b]], OnlyCloses,
         ShredOK(x)'
  PROVE  Inv' /\ Forward
<1>1. UNCHANGED <<submission, fetched, restore, wanted, loaded>>
  BY DEF submissionVars, restoreVars
<1>2. calm \subseteq calm' /\ calm' \subseteq Restores
  BY CalmKept DEF Inv
<1>3. backups' \in [Backups -> BackupRows]
  BY ClosingKeepsTypes DEF Inv
<1>4. TypeOK'
  BY <1>1, <1>2, <1>3 DEF Inv, OnlyVictim, TypeOK, SharedTypeOK, SubmissionTypeOK, ShredTypeOK,
                          RestoreTypeOK
<1>5. Settled' = Settled /\ Settled \subseteq Backups
  BY <1>1 DEF Settled
<1>6. Forward
  BY <1>1, <1>2, <1>5, ClosingKeepsTypes DEF Inv, Forward, OnlyVictim
<1>7. \A b \in Backups : SubmissionOK(b)'
  BY <1>1, <1>6, SubmissionKept DEF SubmissionStays, OnlyCloses
<1>8. \A y \in Shreds : ShredOK(y)'
  <2> SUFFICES ASSUME NEW y \in Shreds \ {x} PROVE ShredOK(y)'
    OBVIOUS
  <2>1. Alone(y) => victim[y] \in Versions \ {victim[x]}
    BY DEF Alone, Inv, TypeOK, ShredTypeOK
  <2> QED
    BY <1>6, <2>1, ShredKept DEF OnlyVictim
<1>9. \A r \in Restores : RestoreOK(r)'
  BY <1>1, <1>6, RestoreKept
<1> QED
  BY <1>4, <1>6, <1>7, <1>8, <1>9 DEF Inv

LEMMA Proceeds ==
  ASSUME TypeOK, NEW x \in Shreds, NEW here, NEW next \in ShredRunning \cup ShredEnded,
         Proceed(x, here, next)
  PROVE  /\ shred[x] = here /\ shred'[x] = next
         /\ shred' \in [Shreds -> ShredRunning \cup ShredEnded]
         /\ \A y \in Shreds \ {x} : shred'[y] = shred[y]
         /\ wiring' = wiring
BY DEF TypeOK, ShredTypeOK, Proceed

\* A step that leaves keys and backups alone.
LEMMA ShredGoesOn ==
  ASSUME Inv, NEW x \in Shreds, NEW here, NEW next \in ShredRunning \cup ShredEnded,
         Proceed(x, here, next),
         UNCHANGED <<backups, objects, keys, faults, submissionVars, restoreVars, restarts, victim>>,
         linked' \in [Shreds -> SUBSET Backups],
         settled' \in [Shreds -> SUBSET Backups],
         \A y \in Shreds \ {x} : linked'[y] = linked[y] /\ settled'[y] = settled[y],
         level' \in Levels, trail \subseteq trail', NoteCalm, ShredOK(x)'
  PROVE  Inv' /\ Forward
<1>1. /\ shred' \in [Shreds -> ShredRunning \cup ShredEnded] /\ wiring' = wiring
      /\ \A y \in Shreds \ {x} : shred'[y] = shred[y]
  BY Proceeds DEF Inv
<1>2. /\ faults' \in 0..MaxFaults /\ keys' \in [Versions -> [active : BOOLEAN, destroyed : BOOLEAN]]
      /\ backups' = [b \in Backups |-> backups'[b]]
  BY DEF Inv, TypeOK, SharedTypeOK
<1>3. OnlyVictim(x) /\ OnlyCloses
  BY <1>2 DEF OnlyVictim, OnlyCloses
<1>4. KeysOK'
  BY SameKeys, SameKeysStayOK DEF Inv
<1> QED
  BY <1>1, <1>2, <1>3, <1>4, ShredMoves

LEMMA QuietShredInv ==
  ASSUME Inv, NEW x \in Shreds, NoteCalm, UNCHANGED <<submissionVars, restoreVars, restarts>>,
         shred[x] # "lookup", UNCHANGED settled,
         \/ AuthorizeShred(x) \/ DenyShred(x) \/ StartShred(x) \/ BeginTransaction(x)
         \/ SelectLinked(x) \/ EscalateToLockdown(x) \/ RecordEffect(x) \/ CompleteShred(x)
  PROVE  Inv' /\ Forward
<1> DEFINE Places == ShredRunning \cup ShredEnded
<1>1. /\ TypeOK /\ ShredOK(x) /\ level \in Levels /\ victim[x] \in Versions
      /\ linked \in [Shreds -> SUBSET Backups] /\ settled' \in [Shreds -> SUBSET Backups]
  BY DEF Inv, TypeOK, SharedTypeOK, ShredTypeOK
<1>2. CASE AuthorizeShred(x)
  <2>1. UNCHANGED <<backups, objects, keys, level, trail, faults, victim, linked>>
    BY <1>2 DEF AuthorizeShred, shared
  <2>2. PICK next \in {"start", "deny"} : Proceed(x, "authorize", next)
    BY <1>2 DEF AuthorizeShred
  <2>3. next \in Places
    BY DEF ShredRunning
  <2>4. shred'[x] = next /\ wiring' = wiring
    BY <1>1, <2>2, <2>3, Proceeds
  <2>5. ShredOK(x)'
    BY <1>1, <2>1, <2>4 DEF ShredOK, Closed, Settled, Alone, submissionVars
  <2> QED
    BY <1>1, <2>1, <2>2, <2>3, <2>5, ShredGoesOn
<1>3. CASE DenyShred(x)
  <2>1. /\ Proceed(x, "deny", "denied") /\ Record("crypto_shred_denied", victim[x])
        /\ UNCHANGED <<backups, objects, keys, level, faults, victim, linked>> /\ "denied" \in Places
    BY <1>3 DEF DenyShred, ShredEnded
  <2>2. shred'[x] = "denied" /\ wiring' = wiring /\ trail \subseteq trail'
    BY <1>1, <2>1, Proceeds, Recorded
  <2>3. ShredOK(x)'
    BY <1>1, <2>1, <2>2 DEF ShredOK, Closed, Settled, Alone, submissionVars
  <2> QED
    BY <1>1, <2>1, <2>2, <2>3, ShredGoesOn
<1>4. CASE StartShred(x)
  <2>1. /\ Proceed(x, "start", IF wiring = "stepwise" THEN "lookup" ELSE "begin")
        /\ Record("crypto_shred_started", victim[x])
        /\ UNCHANGED <<backups, objects, keys, level, faults, victim, linked>>
    BY <1>4 DEF StartShred
  <2>2. PICK next \in {"lookup", "begin"} : Proceed(x, "start", next)
    BY <2>1
  <2>3. next \in Places
    BY DEF ShredRunning
  <2>4. /\ shred'[x] = next /\ wiring' = wiring /\ trail \subseteq trail'
        /\ OnRecord("crypto_shred_started", victim[x])'
    BY <1>1, <2>1, <2>2, <2>3, Proceeds, Recorded DEF OnRecord
  <2>5. ShredOK(x)'
    BY <1>1, <2>1, <2>4 DEF ShredOK, Closed, Settled, Alone, submissionVars
  <2> QED
    BY <1>1, <2>1, <2>2, <2>3, <2>4, <2>5, ShredGoesOn
<1>5. CASE BeginTransaction(x)
  <2>1. UNCHANGED <<backups, objects, keys, level, trail, faults, victim, linked>>
    BY <1>5 DEF BeginTransaction, shared
  <2>2. PICK next \in {"server_error", "lookup"} : Proceed(x, "begin", next)
    BY <1>5 DEF BeginTransaction
  <2>3. next \in Places
    BY DEF ShredRunning, ShredEnded
  <2>4. shred[x] = "begin" /\ shred'[x] = next /\ wiring' = wiring
    BY <1>1, <2>2, <2>3, Proceeds
  <2>5. ShredOK(x)'
    BY <1>1, <2>1, <2>4 DEF ShredOK, Closed, Settled, Alone, submissionVars, OnRecord
  <2> QED
    BY <1>1, <2>1, <2>2, <2>3, <2>5, ShredGoesOn
<1>6. CASE SelectLinked(x)
  <2>1. /\ Proceed(x, "select", "mark") /\ "mark" \in Places
        /\ linked' = [linked EXCEPT ![x] = LinkedTo(victim[x])]
        /\ UNCHANGED <<backups, objects, keys, level, trail, faults, victim>>
    BY <1>6 DEF SelectLinked, shared, ShredRunning
  <2>2. shred[x] = "select" /\ shred'[x] = "mark" /\ wiring' = wiring
    BY <1>1, <2>1, Proceeds
  <2>3. /\ linked' \in [Shreds -> SUBSET Backups] /\ linked'[x] = LinkedTo(victim[x])
        /\ \A y \in Shreds \ {x} : linked'[y] = linked[y]
    BY <1>1, <2>1 DEF LinkedTo
  <2>4. settled[x] \subseteq Backups
    BY <1>1 DEF TypeOK
  <2>5. ShredOK(x)'
    BY <1>1, <2>1, <2>2, <2>3, <2>4
       DEF ShredOK, Closed, Settled, Alone, submissionVars, OnRecord, LinkedTo
  <2> QED
    BY <1>1, <2>1, <2>3, <2>5, ShredGoesOn
<1>7. CASE EscalateToLockdown(x)
  <2>1. /\ Proceed(x, "escalate", "effect") /\ "effect" \in Places
        /\ level' = "LOCKDOWN" /\ level' \in Levels
        /\ UNCHANGED <<backups, objects, keys, trail, faults, victim, linked>>
    BY <1>7 DEF EscalateToLockdown, ShredRunning, Levels
  <2>2. shred[x] = "escalate" /\ shred'[x] = "effect" /\ wiring' = wiring
    BY <1>1, <2>1, Proceeds
  <2>3. ShredOK(x)'
    BY <1>1, <2>1, <2>2 DEF ShredOK, Closed, Settled, Alone, submissionVars
  <2> QED
    BY <1>1, <2>1, <2>3, ShredGoesOn
<1>8. CASE RecordEffect(x)
  <2>1. /\ Proceed(x, "effect", "complete") /\ "complete" \in Places
        /\ Record("incident_effect_applied", victim[x])
        /\ UNCHANGED <<backups, objects, keys, level, faults, victim, linked>>
    BY <1>8 DEF RecordEffect, ShredRunning
  <2>2. shred[x] = "effect" /\ shred'[x] = "complete" /\ wiring' = wiring /\ trail \subseteq trail'
    BY <1>1, <2>1, Proceeds, Recorded
  <2>3. ShredOK(x)'
    BY <1>1, <2>1, <2>2 DEF ShredOK, Closed, Settled, Alone, submissionVars
  <2> QED
    BY <1>1, <2>1, <2>2, <2>3, ShredGoesOn
<1>9. CASE CompleteShred(x)
  <2>1. /\ Proceed(x, "complete", "completed") /\ "completed" \in Places
        /\ Record("crypto_shred_completed", victim[x])
        /\ UNCHANGED <<backups, objects, keys, level, faults, victim, linked>>
    BY <1>9 DEF CompleteShred, ShredEnded
  <2>2. shred[x] = "complete" /\ shred'[x] = "completed" /\ wiring' = wiring /\ trail \subseteq trail'
    BY <1>1, <2>1, Proceeds, Recorded
  <2>3. ShredOK(x)'
    BY <1>1, <2>1, <2>2 DEF ShredOK, Closed, Settled, Alone, submissionVars
  <2> QED
    BY <1>1, <2>1, <2>2, <2>3, ShredGoesOn
<1> QED
  BY <1>2, <1>3, <1>4, <1>5, <1>6, <1>7, <1>8, <1>9

\* The shred looks its version up, and from here on has to answer for what is
\* settled.
LEMMA LookupInv ==
  ASSUME Inv, NEW x \in Shreds, LookupVersion(x), NoteCalm,
         UNCHANGED <<submissionVars, restoreVars, restarts>>,
         settled' = [settled EXCEPT ![x] = IF ~keys[victim[x]].destroyed THEN Settled ELSE settled[x]]
  PROVE  Inv' /\ Forward
<1>1. /\ TypeOK /\ ShredOK(x) /\ level \in Levels
      /\ linked \in [Shreds -> SUBSET Backups] /\ settled \in [Shreds -> SUBSET Backups]
  BY DEF Inv, TypeOK, SharedTypeOK, ShredTypeOK
<1>2. UNCHANGED <<backups, objects, keys, level, trail, faults, victim, linked>>
  BY DEF LookupVersion, shared
<1>3. PICK next \in {"deny", "select", "destroy"} :
        /\ Proceed(x, "lookup", next)
        /\ next = (IF keys[victim[x]].destroyed THEN "deny"
                   ELSE IF wiring = "atomic" THEN "select" ELSE "destroy")
  BY DEF LookupVersion
<1>4. next \in ShredRunning \cup ShredEnded
  BY DEF ShredRunning
<1>5. shred[x] = "lookup" /\ shred'[x] = next /\ wiring' = wiring
  BY <1>1, <1>3, <1>4, Proceeds
<1>6. /\ settled' \in [Shreds -> SUBSET Backups]
      /\ settled'[x] = (IF ~keys[victim[x]].destroyed THEN Settled ELSE settled[x])
      /\ \A y \in Shreds \ {x} : settled'[y] = settled[y]
  BY <1>1 DEF Settled
<1>7. Settled' = Settled
  BY DEF Settled, submissionVars
<1>8. ShredOK(x)'
  BY <1>1, <1>2, <1>3, <1>5, <1>6, <1>7 DEF ShredOK, Closed, Alone, OnRecord
<1> QED
  BY <1>1, <1>2, <1>3, <1>4, <1>6, <1>8, ShredGoesOn

\* What becomes of the keys when the one of x is destroyed.
LEMMA DestroyingKeeps ==
  ASSUME Inv, NEW x \in Shreds, keys' = Destroyed(victim[x]), trail' = trail,
         OnRecord("crypto_shred_started", victim[x])
  PROVE  OnlyVictim(x) /\ keys'[victim[x]].destroyed /\ KeysOK'
<1>1. /\ keys \in [Versions -> [active : BOOLEAN, destroyed : BOOLEAN]] /\ victim[x] \in Versions
      /\ KeysOK
  BY DEF Inv, TypeOK, SharedTypeOK, ShredTypeOK
<1>2. keys' = [keys EXCEPT ![victim[x]] = [active |-> FALSE, destroyed |-> TRUE]]
  BY DEF Destroyed
<1> DEFINE gone == [active |-> FALSE, destroyed |-> TRUE]
<1>3. gone \in [active : BOOLEAN, destroyed : BOOLEAN] /\ gone.destroyed
  OBVIOUS
<1>4. keys' = [keys EXCEPT ![victim[x]] = gone]
  BY <1>2
<1> HIDE DEF gone
<1>5. /\ keys' \in [Versions -> [active : BOOLEAN, destroyed : BOOLEAN]]
      /\ keys'[victim[x]] = gone
      /\ \A v \in Versions \ {victim[x]} : keys'[v] = keys[v]
  BY <1>1, <1>3, <1>4
<1>6. keys'[victim[x]].destroyed
  BY <1>3, <1>5
<1>7. OnlyVictim(x)
  BY <1>5, <1>6 DEF OnlyVictim
<1> QED
  BY <1>1, <1>6, <1>7 DEF OnlyVictim, KeysOK, OnRecord

LEMMA DestroyInv ==
  ASSUME Inv, NEW x \in Shreds, DestroyKey(x), NoteCalm,
         UNCHANGED <<submissionVars, restoreVars, restarts, settled>>
  PROVE  Inv' /\ Forward
<1>1. TypeOK /\ ShredOK(x)
  BY DEF Inv
<1>2. /\ Proceed(x, "destroy", "select") /\ "select" \in ShredRunning \cup ShredEnded
      /\ keys' = Destroyed(victim[x])
      /\ UNCHANGED <<backups, objects, level, trail, faults, victim, linked>>
  BY DEF DestroyKey, ShredRunning
<1>3. /\ shred[x] = "destroy" /\ shred'[x] = "select" /\ wiring' = wiring
      /\ shred' \in [Shreds -> ShredRunning \cup ShredEnded]
      /\ \A y \in Shreds \ {x} : shred'[y] = shred[y]
  BY <1>1, <1>2, Proceeds
<1>4. OnRecord("crypto_shred_started", victim[x]) /\ wiring # "atomic"
  BY <1>1, <1>3 DEF ShredOK
<1>5. OnlyVictim(x) /\ keys'[victim[x]].destroyed /\ KeysOK'
  BY <1>2, <1>4, DestroyingKeeps
<1>6. ShredOK(x)'
  BY <1>1, <1>2, <1>3, <1>4, <1>5 DEF ShredOK, Settled, submissionVars, OnRecord
<1>7. /\ linked' \in [Shreds -> SUBSET Backups] /\ settled' \in [Shreds -> SUBSET Backups]
      /\ level' \in Levels /\ faults' \in 0..MaxFaults
      /\ backups' = [b \in Backups |-> backups'[b]] /\ OnlyCloses
  BY <1>1, <1>2 DEF TypeOK, SharedTypeOK, ShredTypeOK, OnlyCloses
<1> QED
  BY <1>2, <1>3, <1>5, <1>6, <1>7, ShredMoves

LEMMA MarkInv ==
  ASSUME Inv, NEW x \in Shreds, MarkIrreversible(x), NoteCalm,
         UNCHANGED <<submissionVars, restoreVars, restarts, settled>>
  PROVE  Inv' /\ Forward
<1>1. TypeOK /\ ShredOK(x) /\ victim[x] \in Versions
  BY DEF Inv, TypeOK, ShredTypeOK
<1>2. /\ Proceed(x, "mark", "escalate") /\ "escalate" \in ShredRunning \cup ShredEnded
      /\ backups' = [b \in Backups |->
                       IF b \in linked[x] THEN [backups[b] EXCEPT !.status = "IRREVERSIBLE"]
                       ELSE backups[b]]
      /\ keys' = IF wiring = "atomic" THEN Destroyed(victim[x]) ELSE keys
      /\ UNCHANGED <<objects, level, trail, faults, victim, linked>>
  BY DEF MarkIrreversible, ShredRunning
<1>3. /\ shred[x] = "mark" /\ shred'[x] = "escalate" /\ wiring' = wiring
      /\ shred' \in [Shreds -> ShredRunning \cup ShredEnded]
      /\ \A y \in Shreds \ {x} : shred'[y] = shred[y]
  BY <1>1, <1>2, Proceeds
<1>4. OnRecord("crypto_shred_started", victim[x]) /\ (wiring # "atomic" => keys[victim[x]].destroyed)
  BY <1>1, <1>3 DEF ShredOK
<1>5. OnlyVictim(x) /\ keys'[victim[x]].destroyed /\ KeysOK'
  <2>1. CASE wiring = "atomic"
    BY <1>2, <1>4, <2>1, DestroyingKeeps
  <2>2. CASE wiring # "atomic"
    <3>1. keys' = keys /\ KeysOK /\ trail' = trail
      BY <1>2, <2>2 DEF Inv
    <3> QED
      BY <1>1, <1>4, <2>2, <3>1 DEF OnlyVictim, KeysOK, OnRecord, TypeOK, SharedTypeOK
  <2> QED
    BY <2>1, <2>2
<1>6. \A b \in linked[x] : backups[b].key_version # NoVersion
  BY <1>1, VersionsAssumption DEF ShredOK
<1>7. OnlyCloses /\ backups' = [b \in Backups |-> backups'[b]]
  BY <1>2, <1>6 DEF OnlyCloses
<1>8. \A b \in Backups : /\ backups'[b].key_version = backups[b].key_version
                         /\ backups'[b].status \in {backups[b].status, "IRREVERSIBLE"}
                         /\ b \in linked[x] => backups'[b].status = "IRREVERSIBLE"
  <2>1. \A b \in linked[x] : b \in Backups => backups'[b].status = "IRREVERSIBLE"
    BY <1>1, <1>2, TypesOfBackup DEF BackupRows
  <2> QED
    BY <1>1, <1>7, <2>1, ClosingKeepsTypes
<1>9. settled[x] \subseteq Backups /\ linked[x] \subseteq Backups
  BY <1>1 DEF TypeOK, ShredTypeOK
<1>10. Closed(x)'
  BY <1>1, <1>2, <1>3, <1>8, <1>9 DEF ShredOK, Closed
<1>11. ShredOK(x)'
  BY <1>1, <1>2, <1>3, <1>5, <1>8, <1>9, <1>10 DEF ShredOK, Settled, submissionVars
<1>12. /\ linked' \in [Shreds -> SUBSET Backups] /\ settled' \in [Shreds -> SUBSET Backups]
       /\ level' \in Levels /\ faults' \in 0..MaxFaults
  BY <1>1, <1>2 DEF TypeOK, SharedTypeOK, ShredTypeOK
<1> QED
  BY <1>2, <1>3, <1>5, <1>7, <1>11, <1>12, ShredMoves

LEMMA ShredInv ==
  ASSUME Inv, NEW x \in Shreds, Shred(x), NoteCalm
  PROVE  Inv' /\ Forward
<1>1. /\ ShredStep(x) /\ UNCHANGED <<submissionVars, restoreVars, restarts>>
      /\ settled' = [settled EXCEPT ![x] =
           IF shred[x] = "lookup" /\ ~keys[victim[x]].destroyed THEN Settled ELSE settled[x]]
  BY DEF Shred
<1>2. settled \in [Shreds -> SUBSET Backups]
  BY DEF Inv, TypeOK
<1>3. CASE shred[x] = "lookup"
  <2>1. LookupVersion(x)
    BY <1>1, <1>3 DEF ShredStep, AuthorizeShred, DenyShred, StartShred, BeginTransaction, DestroyKey,
       SelectLinked, MarkIrreversible, EscalateToLockdown, RecordEffect, CompleteShred, Proceed
  <2> QED
    BY <1>1, <1>3, <2>1, LookupInv
<1>4. CASE shred[x] # "lookup"
  <2>1. UNCHANGED settled
    BY <1>1, <1>2, <1>4
  <2>2. ~LookupVersion(x)
    BY <1>4 DEF LookupVersion, Proceed
  <2> QED
    BY <1>1, <1>4, <2>1, <2>2, QuietShredInv, DestroyInv, MarkInv DEF ShredStep
<1> QED
  BY <1>3, <1>4

-----------------------------------------------------------------------------
(* The steps of a restore.                                                 *)

\* Only the restore r moves, and the audit log.
LEMMA RestoreMoves ==
  ASSUME Inv, NEW r \in Restores,
         UNCHANGED <<backups, objects, keys, level, submissionVars, shredVars, restarts, settled, wanted>>,
         restore' \in [Restores -> RestoreRunning \cup RestoreEnded],
         loaded' \in [Restores -> BackupRows],
         \A s \in Restores \ {r} : restore'[s] = restore[s] /\ loaded'[s] = loaded[s],
         trail \subseteq trail', faults' \in 0..MaxFaults, faults' = 0 => faults = 0,
         NoteCalm, RestoreOK(r)'
  PROVE  Inv' /\ Forward
<1>1. UNCHANGED <<submission, fetched, wiring, shred, victim, linked>>
  BY DEF submissionVars, shredVars
<1>2. calm \subseteq calm' /\ calm' \subseteq Restores
  BY CalmKept DEF Inv
<1>3. TypeOK'
  BY <1>1, <1>2 DEF Inv, TypeOK, SharedTypeOK, SubmissionTypeOK, ShredTypeOK, RestoreTypeOK
<1>4. Settled' = Settled
  BY <1>1 DEF Settled
<1>5. Forward
  BY <1>1, <1>2, <1>4 DEF Forward
<1>6. KeysOK'
  BY SameKeys, SameKeysStayOK DEF Inv
<1>7. \A b \in Backups : SubmissionOK(b)'
  BY <1>1, <1>5, SubmissionKept DEF SubmissionStays
<1>8. \A x \in Shreds : ShredOK(x)'
  BY <1>1, <1>5, ShredKept
<1>9. \A s \in Restores : RestoreOK(s)'
  BY <1>5, RestoreKept
<1> QED
  BY <1>3, <1>5, <1>6, <1>7, <1>8, <1>9 DEF Inv

LEMMA Continues ==
  ASSUME TypeOK, NEW r \in Restores, NEW here,
         NEW next \in SUBSET (RestoreRunning \cup RestoreEnded), Continue(r, here, next)
  PROVE  /\ restore[r] = here /\ restore'[r] \in next
         /\ restore' \in [Restores -> RestoreRunning \cup RestoreEnded]
         /\ \A s \in Restores \ {r} : restore'[s] = restore[s]
BY DEF TypeOK, RestoreTypeOK, Continue

\* A step that reads, or writes to the audit log.
LEMMA RestoreGoesOn ==
  ASSUME Inv, NEW r \in Restores, NEW here,
         NEW next \in SUBSET (RestoreRunning \cup RestoreEnded), Continue(r, here, next),
         UNCHANGED <<backups, objects, keys, level, faults, submissionVars, shredVars, restarts,
                     settled, wanted, loaded>>,
         trail \subseteq trail', NoteCalm, RestoreOK(r)'
  PROVE  Inv' /\ Forward
<1>1. /\ restore' \in [Restores -> RestoreRunning \cup RestoreEnded]
      /\ \A s \in Restores \ {r} : restore'[s] = restore[s]
  BY Continues DEF Inv
<1>2. loaded' \in [Restores -> BackupRows] /\ faults' \in 0..MaxFaults
  BY DEF Inv, TypeOK, SharedTypeOK, RestoreTypeOK
<1> QED
  BY <1>1, <1>2, RestoreMoves

\* An audit call after which r answers, or ends with a server error.
LEMMA RestrictInv ==
  ASSUME Inv, NEW r \in Restores, NEW here, NEW action, NEW answer, Restrict(r, here, action, answer),
         \/ here = "block_irreversible" /\ action = "restore_restricted_blocked" /\ answer = "irreversible"
         \/ here = "block_restricted" /\ answer = "restricted"
         \/ here = "review" /\ answer = "pending_manual_review"
         \/ /\ here \in {"authorize", "fail_unavailable"} /\ answer = "unavailable"
            /\ action = "restore_failed"
         \/ here = "fail_integrity" /\ answer = "integrity_failed",
         UNCHANGED <<submissionVars, shredVars, restarts, settled>>, NoteCalm
  PROVE  Inv' /\ Forward
<1>1. TypeOK /\ RestoreOK(r)
  BY DEF Inv
<1>2. /\ Continue(r, here, {answer, "server_error"}) /\ Record(action, wanted[r])
      /\ {answer, "server_error"} \in SUBSET (RestoreRunning \cup RestoreEnded)
      /\ UNCHANGED <<backups, objects, keys, level, faults, wanted, loaded>>
  BY DEF Restrict, AfterAudit, RestoreEnded
<1>3. restore[r] = here /\ restore'[r] \in {answer, "server_error"}
  BY <1>1, <1>2, Continues
<1>4. /\ trail \subseteq trail' /\ OnRecord(action, wanted[r])'
      /\ \A a : OnRecord(a, wanted[r]) => OnRecord(a, wanted[r])'
  BY <1>2, Recorded DEF OnRecord
<1>5. RestoreOK(r)'
  BY <1>1, <1>2, <1>3, <1>4 DEF RestoreOK
<1> QED
  BY <1>2, <1>4, <1>5, RestoreGoesOn

LEMMA ReadingRestoreInv ==
  ASSUME Inv, NEW r \in Restores, NoteCalm, UNCHANGED <<submissionVars, shredVars, restarts, settled>>,
         \/ ValidateMfa(r) \/ LoadMetadata(r) \/ CheckIncidentLevel(r)
         \/ RestoreAndVerify(r) \/ RestoreUnavailable(r)
  PROVE  Inv' /\ Forward
<1> DEFINE Places == RestoreRunning \cup RestoreEnded
<1>1. TypeOK /\ RestoreOK(r) /\ wanted[r] \in Backups /\ SubmissionOK(wanted[r]) /\ level \in Levels
  BY DEF Inv, TypeOK, RestoreTypeOK, SharedTypeOK
<1>2. UNCHANGED <<backups, objects, keys, level, trail, faults, wanted>>
  BY DEF ValidateMfa, LoadMetadata, CheckIncidentLevel, RestoreAndVerify, RestoreUnavailable, shared
<1>3. \A action : OnRecord(action, wanted[r])' <=> OnRecord(action, wanted[r])
  BY <1>2 DEF OnRecord
<1>4. calm \subseteq calm'
  BY CalmKept DEF Inv
<1>5. CASE ValidateMfa(r)
  <2>1. /\ Continue(r, "mfa", {"load", "mfa_denied"}) /\ UNCHANGED loaded
        /\ {"load", "mfa_denied"} \in SUBSET Places
    BY <1>5 DEF ValidateMfa, RestoreRunning, RestoreEnded
  <2>2. restore'[r] \in {"load", "mfa_denied"}
    BY <1>1, <2>1, Continues
  <2>3. RestoreOK(r)'
    BY <1>1, <1>2, <1>3, <2>1, <2>2 DEF RestoreOK
  <2> QED
    BY <1>2, <2>1, <2>3, RestoreGoesOn
<1>6. CASE LoadMetadata(r)
  <2>1. PICK next : /\ next = AfterLoad(backups[wanted[r]])
                    /\ Continue(r, "load", {next})
                    /\ loaded' = [loaded EXCEPT ![r] = backups[wanted[r]]]
    BY <1>6 DEF LoadMetadata
  <2>2. /\ next \in {"not_found", "block_irreversible", "authorize"}
        /\ next = "authorize" => backups[wanted[r]].status # "IRREVERSIBLE"
    <3>1. CASE backups[wanted[r]].status = "absent"
      BY <2>1, <3>1 DEF AfterLoad
    <3>2. CASE backups[wanted[r]].status = "IRREVERSIBLE"
      BY <2>1, <3>2 DEF AfterLoad
    <3>3. CASE backups[wanted[r]].status \notin {"absent", "IRREVERSIBLE"}
      BY <2>1, <3>3 DEF AfterLoad
    <3> QED
      BY <3>1, <3>2, <3>3
  <2>3. {next} \in SUBSET Places
    BY <2>2 DEF RestoreRunning, RestoreEnded
  <2>4. /\ restore[r] = "load" /\ restore'[r] = next
        /\ restore' \in [Restores -> Places]
        /\ \A s \in Restores \ {r} : restore'[s] = restore[s]
    BY <1>1, <2>1, <2>3, Continues
  <2>5. /\ loaded' \in [Restores -> BackupRows] /\ loaded'[r] = backups[wanted[r]]
        /\ \A s \in Restores \ {r} : loaded'[s] = loaded[s]
    BY <1>1, <2>1, TypesOfBackup DEF TypeOK, RestoreTypeOK
  <2>6. RestoreOK(r)'
    BY <1>1, <1>2, <1>3, <2>2, <2>4, <2>5 DEF RestoreOK, SubmissionOK
  <2>7. faults' \in 0..MaxFaults
    BY <1>1, <1>2 DEF TypeOK, SharedTypeOK
  <2> QED
    BY <1>2, <2>4, <2>5, <2>6, <2>7, RestoreMoves
<1>7. CASE CheckIncidentLevel(r)
  <2>1. PICK next : /\ next = AtLevel(level)
                    /\ Continue(r, "incident", {next, "block_restricted"})
                    /\ UNCHANGED loaded
    BY <1>7 DEF CheckIncidentLevel
  <2>2. /\ next \in {"fetch", "review", "block_restricted"}
        /\ next = "fetch" => level = "NORMAL"
    <3>1. CASE level = "NORMAL"
      BY <2>1, <3>1 DEF AtLevel
    <3>2. CASE level = "QUARANTINE"
      BY <2>1, <3>2 DEF AtLevel
    <3>3. CASE level = "LOCKDOWN"
      BY <2>1, <3>3 DEF AtLevel
    <3> QED
      BY <1>1, <3>1, <3>2, <3>3 DEF Levels
  <2>3. {next, "block_restricted"} \in SUBSET Places
    BY <2>2 DEF RestoreRunning
  <2>4. restore[r] = "incident" /\ restore'[r] \in {next, "block_restricted"}
    BY <1>1, <2>1, <2>3, Continues
  <2>5. restore'[r] = "fetch" => r \in calm'
    BY <1>2, <2>2, <2>4 DEF NoteCalm
  <2>6. RestoreOK(r)'
    BY <1>1, <1>2, <1>3, <2>1, <2>2, <2>4, <2>5 DEF RestoreOK
  <2> QED
    BY <1>2, <2>1, <2>3, <2>6, RestoreGoesOn
<1>8. CASE RestoreAndVerify(r)
  <2>1. PICK next : /\ next = Verified(loaded[r], objects[wanted[r]])
                    /\ Continue(r, "fetch", {next})
                    /\ UNCHANGED loaded
    BY <1>8 DEF RestoreAndVerify
  <2>2. /\ next \in {"fail_unavailable", "fail_integrity", "complete"}
        /\ next # "fail_unavailable" => loaded[r].stored
        /\ next = "fail_integrity" => objects[wanted[r]] # loaded[r].key_version
    BY <2>1 DEF Verified
  <2>3. {next} \in SUBSET Places
    BY <2>2 DEF RestoreRunning
  <2>4. restore[r] = "fetch" /\ restore'[r] = next
    BY <1>1, <2>1, <2>3, Continues
  <2>5. loaded[r].stored /\ restarts = 0 => objects[wanted[r]] = loaded[r].key_version
    BY <1>1 DEF RestoreOK, SubmissionOK
  <2>6. RestoreOK(r)'
    BY <1>1, <1>2, <1>3, <1>4, <2>1, <2>2, <2>4, <2>5 DEF RestoreOK
  <2> QED
    BY <1>2, <2>1, <2>3, <2>6, RestoreGoesOn
<1>9. CASE RestoreUnavailable(r)
  <2>1. /\ Continue(r, "fetch", {"fail_unavailable"}) /\ UNCHANGED loaded
        /\ {"fail_unavailable"} \in SUBSET Places
    BY <1>9 DEF RestoreUnavailable, RestoreRunning
  <2>2. restore[r] = "fetch" /\ restore'[r] = "fail_unavailable"
    BY <1>1, <2>1, Continues
  <2>3. RestoreOK(r)'
    BY <1>1, <1>2, <1>3, <2>1, <2>2 DEF RestoreOK
  <2> QED
    BY <1>2, <2>1, <2>3, RestoreGoesOn
<1> QED
  BY <1>5, <1>6, <1>7, <1>8, <1>9

LEMMA RestoreInv ==
  ASSUME Inv, NEW r \in Restores, Restore(r), NoteCalm
  PROVE  Inv' /\ Forward
<1> DEFINE Places == RestoreRunning \cup RestoreEnded
<1>1. RestoreStep(r) /\ UNCHANGED <<submissionVars, shredVars, restarts, settled>>
  BY DEF Restore
<1>2. TypeOK /\ RestoreOK(r) /\ calm \subseteq calm'
  BY CalmKept DEF Inv
<1>3. CASE AuthorizeRestore(r)
  <2>1. /\ Continue(r, "authorize", {"incident", "server_error", "policy_denied"})
        /\ {"incident", "server_error", "policy_denied"} \in SUBSET Places
        /\ Record("restore_decision", wanted[r])
        /\ UNCHANGED <<backups, objects, keys, level, faults, wanted, loaded>>
    <3>1. AfterAudit("incident") \cup {"policy_denied"} = {"incident", "server_error", "policy_denied"}
      BY DEF AfterAudit
    <3> QED
      BY <1>3, <3>1 DEF AuthorizeRestore, RestoreRunning, RestoreEnded
  <2>2. restore[r] = "authorize" /\ restore'[r] \in {"incident", "server_error", "policy_denied"}
    BY <1>2, <2>1, Continues
  <2>3. /\ trail \subseteq trail' /\ OnRecord("restore_decision", wanted[r])'
        /\ \A a : OnRecord(a, wanted[r]) => OnRecord(a, wanted[r])'
    BY <2>1, Recorded DEF OnRecord
  <2>4. RestoreOK(r)'
    BY <1>1, <1>2, <2>1, <2>2, <2>3 DEF RestoreOK
  <2> QED
    BY <1>1, <2>1, <2>3, <2>4, RestoreGoesOn
<1>4. CASE CompleteRestore(r)
  <2>1. /\ Continue(r, "complete", {"completed", "server_error"})
        /\ {"completed", "server_error"} \in SUBSET Places
        /\ Record("restore_completed", wanted[r])
        /\ UNCHANGED <<backups, objects, keys, level, faults, wanted, loaded>>
    BY <1>4 DEF CompleteRestore, AfterAudit, RestoreEnded
  <2>2. restore[r] = "complete" /\ restore'[r] \in {"completed", "server_error"}
    BY <1>2, <2>1, Continues
  <2>3. /\ trail \subseteq trail' /\ OnRecord("restore_completed", wanted[r])'
        /\ \A a : OnRecord(a, wanted[r]) => OnRecord(a, wanted[r])'
    BY <2>1, Recorded DEF OnRecord
  <2>4. RestoreOK(r)'
    BY <1>1, <1>2, <2>1, <2>2, <2>3 DEF RestoreOK
  <2> QED
    BY <1>1, <2>1, <2>3, <2>4, RestoreGoesOn
<1>5. CASE RestrictRestore(r)
  BY <1>1, <1>5, RestrictInv DEF RestrictRestore
<1>6. CASE FailRestore(r)
  BY <1>1, <1>6, RestrictInv DEF FailRestore
<1> QED
  BY <1>1, <1>3, <1>4, <1>5, <1>6, ReadingRestoreInv DEF RestoreStep

-----------------------------------------------------------------------------
(* A request that dies, what goes on around the requests, and a restart.   *)

LEMMA DeathInv ==
  ASSUME Inv, RequestDies, NoteCalm
  PROVE  Inv' /\ Forward
<1>1. TypeOK /\ faults \in Nat /\ MaxFaults \in Nat /\ UNCHANGED <<restarts, settled>>
  BY MaxFaultsAssumption DEF Inv, TypeOK, SharedTypeOK, RequestDies
<1>2. ASSUME NEW b \in Backups, SubmissionDies(b), UNCHANGED <<shredVars, restoreVars>>
      PROVE  Inv' /\ Forward
  <2>1. /\ submission[b] \in SubmissionRunning /\ faults < MaxFaults /\ faults' = faults + 1
        /\ submission' = [submission EXCEPT ![b] = "server_error"]
        /\ UNCHANGED <<backups, objects, keys, level, trail, fetched>>
    BY <1>2 DEF SubmissionDies
  <2>2. /\ submission' \in [Backups -> SubmissionRunning \cup SubmissionEnded]
        /\ submission'[b] = "server_error"
        /\ \A c \in Backups \ {b} : submission'[c] = submission[c]
    BY <1>1, <2>1 DEF TypeOK, SubmissionTypeOK, SubmissionEnded
  <2>3. faults' \in 0..MaxFaults /\ faults' # 0
    BY <1>1, <2>1
  <2>4. SubmissionOK(b)'
    BY <1>1, <2>1, <2>2, <2>3 DEF Inv, SubmissionOK, OnRecord
  <2>5. OnlySubmission(b)
    BY <1>1, <1>2, <2>1, <2>2, SameKeys DEF OnlySubmission
  <2>6. /\ fetched' \in [Backups -> Versions \cup {NoVersion}]
        /\ objects' \in [Backups -> Versions \cup {NoVersion}]
        /\ backups' \in [Backups -> BackupRows]
    BY <1>1, <2>1 DEF TypeOK, SharedTypeOK, SubmissionTypeOK
  <2> QED
    BY <2>1, <2>2, <2>3, <2>4, <2>5, <2>6, SubmissionMoves
<1>3. ASSUME NEW x \in Shreds, ShredDies(x), UNCHANGED <<submissionVars, restoreVars>>
      PROVE  Inv' /\ Forward
  <2>1. /\ faults < MaxFaults /\ faults' = faults + 1
        /\ shred' = [shred EXCEPT ![x] = "server_error"]
        /\ UNCHANGED <<backups, objects, keys, level, trail, wiring, victim, linked>>
    BY <1>3 DEF ShredDies
  <2>2. /\ shred' \in [Shreds -> ShredRunning \cup ShredEnded] /\ shred'[x] = "server_error"
        /\ \A y \in Shreds \ {x} : shred'[y] = shred[y]
    BY <1>1, <2>1 DEF TypeOK, ShredTypeOK, ShredEnded
  <2>3. faults' \in 0..MaxFaults /\ faults' # 0
    BY <1>1, <2>1
  <2>4. ShredOK(x)'
    BY <1>1, <1>3, <2>1, <2>2 DEF Inv, ShredOK, Closed, Settled, Alone, submissionVars
  <2>5. /\ keys' \in [Versions -> [active : BOOLEAN, destroyed : BOOLEAN]] /\ level' \in Levels
        /\ linked' \in [Shreds -> SUBSET Backups] /\ settled' \in [Shreds -> SUBSET Backups]
        /\ backups' = [b \in Backups |-> backups'[b]]
    BY <1>1, <2>1 DEF TypeOK, SharedTypeOK, ShredTypeOK
  <2>6. OnlyVictim(x) /\ OnlyCloses
    BY <2>1, <2>5 DEF OnlyVictim, OnlyCloses
  <2>7. KeysOK'
    BY <1>1, <2>1, SameKeys, SameKeysStayOK DEF Inv
  <2> QED
    BY <1>1, <1>3, <2>1, <2>2, <2>3, <2>4, <2>5, <2>6, <2>7, ShredMoves
<1>4. ASSUME NEW r \in Restores, RestoreDies(r), UNCHANGED <<submissionVars, shredVars>>
      PROVE  Inv' /\ Forward
  <2>1. /\ restore[r] \in RestoreRunning /\ faults < MaxFaults /\ faults' = faults + 1
        /\ restore' = [restore EXCEPT ![r] = "server_error"]
        /\ UNCHANGED <<backups, objects, keys, level, trail, wanted, loaded>>
    BY <1>4 DEF RestoreDies
  <2>2. /\ restore' \in [Restores -> RestoreRunning \cup RestoreEnded] /\ restore'[r] = "server_error"
        /\ \A s \in Restores \ {r} : restore'[s] = restore[s]
    BY <1>1, <2>1 DEF TypeOK, RestoreTypeOK, RestoreEnded
  <2>3. faults' \in 0..MaxFaults /\ faults' # 0
    BY <1>1, <2>1
  <2>4. RestoreOK(r)'
    BY <1>1, <2>1, <2>2, <2>3 DEF Inv, RestoreOK
  <2>5. loaded' \in [Restores -> BackupRows]
    BY <1>1, <2>1 DEF TypeOK, RestoreTypeOK
  <2> QED
    BY <1>1, <1>4, <2>1, <2>2, <2>3, <2>4, <2>5, RestoreMoves
<1> QED
  BY <1>2, <1>3, <1>4 DEF RequestDies

\* Rotations, changes of the level, and steps that change nothing.
LEMMA RequestsWait ==
  ASSUME Inv, UNCHANGED <<backups, objects, trail, faults, requestVars, restarts, settled>>,
         DestroyedSame, level' \in Levels, calm \subseteq calm', calm' \subseteq Restores
  PROVE  Inv' /\ Forward
<1>1. UNCHANGED <<submission, fetched, wiring, shred, victim, linked, restore, wanted, loaded>>
  BY DEF requestVars, submissionVars, shredVars, restoreVars
<1>2. TypeOK'
  BY <1>1 DEF Inv, DestroyedSame, TypeOK, SharedTypeOK, SubmissionTypeOK, ShredTypeOK, RestoreTypeOK
<1>3. Settled' = Settled
  BY <1>1 DEF Settled
<1>4. Forward
  BY <1>1, <1>3 DEF Forward, DestroyedSame
<1>5. KeysOK'
  BY SameKeysStayOK DEF Inv
<1>6. \A b \in Backups : SubmissionOK(b)'
  BY <1>1, <1>4, SubmissionKept DEF SubmissionStays
<1>7. \A x \in Shreds : ShredOK(x)'
  <2> SUFFICES ASSUME NEW x \in Shreds PROVE ShredOK(x)'
    OBVIOUS
  <2>1. victim[x] \in Versions
    BY DEF Inv, TypeOK, ShredTypeOK
  <2> QED
    BY <1>1, <1>4, <2>1, ShredKept DEF DestroyedSame
<1>8. \A r \in Restores : RestoreOK(r)'
  BY <1>1, <1>4, RestoreKept
<1> QED
  BY <1>2, <1>4, <1>5, <1>6, <1>7, <1>8 DEF Inv

LEMMA RotationKeeps ==
  ASSUME TypeOK, NEW v \in Versions, RotateKey(v)
  PROVE  DestroyedSame
<1>1. /\ keys \in [Versions -> [active : BOOLEAN, destroyed : BOOLEAN]]
      /\ keys' = [w \in Versions |-> [keys[w] EXCEPT !.active = w = v]]
  BY DEF TypeOK, SharedTypeOK, RotateKey
<1>2. ASSUME NEW w \in Versions
      PROVE  keys'[w] \in [active : BOOLEAN, destroyed : BOOLEAN] /\ keys'[w].destroyed = keys[w].destroyed
  <2>1. PICK on \in BOOLEAN : on = (w = v)
    OBVIOUS
  <2>2. keys'[w] = [keys[w] EXCEPT !.active = on]
    BY <1>1, <2>1
  <2> QED
    BY <1>1, <2>2
<1>3. keys' = [w \in Versions |-> keys'[w]]
  BY <1>1
<1> QED
  BY <1>2, <1>3 DEF DestroyedSame

LEMMA RotationInv ==
  ASSUME Inv, NEW v \in Versions, RotateKey(v), NoteCalm
  PROVE  Inv' /\ Forward
<1>1. /\ level' \in Levels /\ DestroyedSame
      /\ UNCHANGED <<backups, objects, trail, faults, requestVars, restarts, settled>>
  BY RotationKeeps DEF Inv, TypeOK, SharedTypeOK, RotateKey
<1>2. calm \subseteq calm' /\ calm' \subseteq Restores
  BY CalmKept DEF Inv
<1> QED
  BY <1>1, <1>2, RequestsWait

LEMMA LevelInv ==
  ASSUME Inv, ChangeLevel, NoteCalm
  PROVE  Inv' /\ Forward
<1>1. /\ level \in Levels /\ level' \in Allowed(level)
      /\ UNCHANGED <<backups, objects, keys, trail, faults, requestVars, restarts, settled>>
  BY DEF Inv, TypeOK, SharedTypeOK, ChangeLevel
<1>2. level' \in Levels
  <2>1. CASE level = "NORMAL"
    BY <1>1, <2>1 DEF Allowed, Levels
  <2>2. CASE level = "QUARANTINE"
    BY <1>1, <2>2 DEF Allowed, Levels
  <2>3. CASE level = "LOCKDOWN"
    BY <1>1, <2>3 DEF Allowed, Levels
  <2> QED
    BY <1>1, <2>1, <2>2, <2>3 DEF Levels
<1>3. calm \subseteq calm' /\ calm' \subseteq Restores
  BY CalmKept DEF Inv
<1> QED
  BY <1>1, <1>2, <1>3, SameKeys, RequestsWait DEF Inv

LEMMA StutterInv ==
  ASSUME Inv, UNCHANGED vars
  PROVE  Inv' /\ Forward
<1>1. UNCHANGED <<backups, objects, keys, level, trail, faults, requestVars, restarts, settled, calm>>
  BY DEF vars, shared, history
<1>2. level' \in Levels /\ calm \subseteq calm' /\ calm' \subseteq Restores
  BY <1>1 DEF Inv, TypeOK, SharedTypeOK
<1> QED
  BY <1>1, <1>2, SameKeys, RequestsWait DEF Inv

\* Nothing of what is known of a request without a restart is known after one.
LEMMA RestartInv ==
  ASSUME Inv, Restart, NoteCalm
  PROVE  Inv' /\ Forward
<1>1. /\ TypeOK /\ restarts \in Nat
      /\ restarts < MaxRestarts /\ restarts' = restarts + 1
      /\ submission' = [b \in Backups |->
           IF submission[b] \in SubmissionRunning THEN "server_error" ELSE submission[b]]
      /\ shred' = [x \in Shreds |-> IF shred[x] \in ShredRunning THEN "server_error" ELSE shred[x]]
      /\ restore' = [r \in Restores |->
           IF restore[r] \in RestoreRunning THEN "server_error" ELSE restore[r]]
      /\ objects' = [b \in Backups |-> NoVersion]
      /\ UNCHANGED <<backups, keys, level, trail, faults, fetched, wiring, victim, linked, wanted,
                     loaded, settled>>
  BY DEF Inv, TypeOK, Restart
<1>2. restarts' \in 0..MaxRestarts /\ restarts' # 0
  BY <1>1, MaxRestartsAssumption
<1>3. calm \subseteq calm' /\ calm' \subseteq Restores
  BY <1>1, CalmKept
<1>4. TypeOK'
  <2>1. submission' \in [Backups -> SubmissionRunning \cup SubmissionEnded]
    BY <1>1 DEF TypeOK, SubmissionTypeOK, SubmissionEnded
  <2>2. shred' \in [Shreds -> ShredRunning \cup ShredEnded]
    BY <1>1 DEF TypeOK, ShredTypeOK, ShredEnded
  <2>3. restore' \in [Restores -> RestoreRunning \cup RestoreEnded]
    BY <1>1 DEF TypeOK, RestoreTypeOK, RestoreEnded
  <2> QED
    BY <1>1, <1>2, <1>3, <2>1, <2>2, <2>3
       DEF TypeOK, SharedTypeOK, SubmissionTypeOK, ShredTypeOK, RestoreTypeOK
<1>5. Settled \subseteq Settled'
  BY <1>1 DEF Settled, SubmissionEnded
<1>6. Forward
  BY <1>1, <1>2, <1>3, <1>5 DEF Forward, Settled
<1>7. KeysOK'
  BY <1>1 DEF Inv, KeysOK, OnRecord
<1>8. \A b \in Backups : SubmissionOK(b)'
  <2> SUFFICES ASSUME NEW b \in Backups PROVE SubmissionOK(b)'
    OBVIOUS
  <2>1. SubmissionOK(b) /\ submission[b] \in SubmissionRunning \cup SubmissionEnded
    BY <1>1, TypesOfBackup DEF Inv
  <2>2. /\ \/ submission'[b] = "server_error"
           \/ submission'[b] = submission[b] /\ submission[b] \in SubmissionEnded
        /\ objects'[b] = NoVersion
    BY <1>1, <2>1
  <2> QED
    BY <1>1, <1>2, <2>1, <2>2 DEF SubmissionOK, OnRecord, SubmissionEnded
<1>9. \A x \in Shreds : ShredOK(x)'
  <2> SUFFICES ASSUME NEW x \in Shreds PROVE ShredOK(x)'
    OBVIOUS
  <2>1. shred'[x] \in {shred[x], "server_error"}
    BY <1>1
  <2> QED
    BY <1>1, <1>5, <2>1 DEF Inv, ShredOK, Closed, Alone, OnRecord
<1>10. \A r \in Restores : RestoreOK(r)'
  <2> SUFFICES ASSUME NEW r \in Restores PROVE RestoreOK(r)'
    OBVIOUS
  <2>1. restore'[r] \in {restore[r], "server_error"}
    BY <1>1
  <2> QED
    BY <1>1, <1>2, <1>3, <2>1 DEF Inv, RestoreOK, OnRecord
<1> QED
  BY <1>4, <1>6, <1>7, <1>8, <1>9, <1>10 DEF Inv

-----------------------------------------------------------------------------
(* Every behaviour.                                                        *)

LEMMA InitInv ==
  ASSUME Init
  PROVE  Inv
<1>1. /\ backups = [b \in Backups |-> NoBackup] /\ objects = [b \in Backups |-> NoVersion]
      /\ keys = [v \in Versions |-> [active |-> v = SeedVersion, destroyed |-> FALSE]]
      /\ level = "NORMAL" /\ faults = 0
      /\ submission = [b \in Backups |-> "authorize"] /\ fetched = [b \in Backups |-> NoVersion]
      /\ wiring \in Wirings /\ shred = [x \in Shreds |-> "authorize"]
      /\ victim \in [Shreds -> Versions] /\ linked = [x \in Shreds |-> {}]
      /\ restore = [r \in Restores |-> "mfa"] /\ wanted \in [Restores -> Backups]
      /\ loaded = [r \in Restores |-> NoBackup]
      /\ restarts = 0 /\ settled = [x \in Shreds |-> {}] /\ calm = {}
  BY DEF Init, SharedInit, SubmissionInit, ShredInit, RestoreInit
<1>2. NoBackup \in BackupRows /\ NoBackup.stored = FALSE /\ NoBackup.status = "absent"
      /\ NoBackup.key_version = NoVersion
  BY DEF NoBackup, BackupRows, Statuses
<1>3. /\ keys \in [Versions -> [active : BOOLEAN, destroyed : BOOLEAN]]
      /\ \A v \in Versions : ~keys[v].destroyed
  <2>1. ASSUME NEW v \in Versions
        PROVE  keys[v] \in [active : BOOLEAN, destroyed : BOOLEAN] /\ ~keys[v].destroyed
    <3>1. PICK on \in BOOLEAN : on = (v = SeedVersion)
      OBVIOUS
    <3>2. keys[v] = [active |-> on, destroyed |-> FALSE]
      BY <1>1, <3>1
    <3> QED
      BY <3>2
  <2>2. keys = [v \in Versions |-> keys[v]]
    BY <1>1
  <2> QED
    BY <2>1, <2>2
<1>4. TypeOK
  BY <1>1, <1>2, <1>3, MaxFaultsAssumption, MaxRestartsAssumption
     DEF TypeOK, SharedTypeOK, SubmissionTypeOK, ShredTypeOK, RestoreTypeOK, SubmissionRunning,
         ShredRunning, RestoreRunning, Levels
<1>5. KeysOK
  BY <1>3 DEF KeysOK
<1>6. \A b \in Backups : SubmissionOK(b)
  BY <1>1, <1>2 DEF SubmissionOK
<1>7. \A x \in Shreds : ShredOK(x)
  BY <1>1, <1>3 DEF ShredOK
<1>8. \A r \in Restores : RestoreOK(r)
  BY <1>1, <1>2 DEF RestoreOK
<1> QED
  BY <1>4, <1>5, <1>6, <1>7, <1>8 DEF Inv

LEMMA StepInv ==
  ASSUME Inv, [Next]_vars
  PROVE  Inv' /\ Forward
BY SubmitInv, ShredInv, RestoreInv, DeathInv, RotationInv, LevelInv, RestartInv, StutterInv DEF Next

LEMMA AlwaysInv == Spec => []Inv
<1>1. Init => Inv
  BY InitInv
<1>2. Inv /\ [Next]_vars => Inv'
  BY StepInv
<1> QED
  BY <1>1, <1>2, PTL DEF Spec

\* The state of the gateway has its type, whatever is submitted, shredded,
\* restored, rotated or restarted.
THEOREM TypesHold == Spec => []TypeOK
<1>1. Inv => TypeOK
  BY DEF Inv
<1> QED
  BY <1>1, AlwaysInv, PTL

\* A stored backup's row names the version its blob is encrypted under, so a
\* restore never decrypts with the wrong key (submit_backup hands the version
\* it fetched to both writes), for any number of rotations in between.
THEOREM RowsNameTheirKey == Spec => []RecordedKeyOpensObject
<1>1. Inv => RecordedKeyOpensObject
  BY DEF Inv, SubmissionOK, RestoreOK, RecordedKeyOpensObject
<1> QED
  BY <1>1, AlwaysInv, PTL

\* Nothing but a backup that was ACTIVE when load_restore_metadata read its row
\* is decrypted, though only IRREVERSIBLE is turned away: a row that is neither
\* has no fields to decrypt by.
THEOREM RestoredWereActive == Spec => []OnlyActiveIsRestored
<1>1. Inv => OnlyActiveIsRestored
  BY DEF Inv, RestoreOK, OnlyActiveIsRestored
<1> QED
  BY <1>1, AlwaysInv, PTL

\* Blobs, destroyed keys and plaintexts have their audit entries from the moment
\* they are there, through any number of deaths and restarts.
THEOREM EvidencePrecedes == Spec => []EvidenceComesFirst
<1>1. Inv => EvidenceComesFirst
  BY DEF Inv, SubmissionOK, RestoreOK, KeysOK, EvidenceComesFirst
<1> QED
  BY <1>1, AlwaysInv, PTL

\* A submission that nothing kills leaves its backup ACTIVE, FAILED, closed or
\* not there at all, and never in PROCESSING (submit_backup's except branches).
THEOREM NoneLeftProcessing == Spec => []OnlyFaultsLeaveProcessing
<1>1. ASSUME Inv, faults = 0, restarts = 0, NEW b \in Settled
      PROVE  backups[b].status # "PROCESSING"
  <2>1. b \in Backups /\ submission[b] \in SubmissionEnded /\ SubmissionOK(b)
    BY <1>1 DEF Inv, Settled
  <2>2. NoBackup.status = "absent"
    BY DEF NoBackup
  <2> QED
    BY <1>1, <2>1, <2>2 DEF SubmissionOK, SubmissionEnded
<1>2. Inv => OnlyFaultsLeaveProcessing
  BY <1>1 DEF OnlyFaultsLeaveProcessing
<1> QED
  BY <1>2, AlwaysInv, PTL

\* A rolled-back audit transaction costs a request its answer and leaves no half
\* of what it did.
THEOREM ConflictsLeaveWholes == Spec => []ConflictsCostTheAnswer
<1>1. Inv => ConflictsCostTheAnswer
  BY DEF Inv, SubmissionOK, RestoreOK, ConflictsCostTheAnswer
<1> QED
  BY <1>1, AlwaysInv, PTL

\* A restore that decrypts was under way, past its MFA check, at a moment the
\* incident level was NORMAL.
THEOREM RestorersSawNormal == Spec => []RestrictedIsNeverRestored
<1>1. Inv => RestrictedIsNeverRestored
  BY DEF Inv, RestoreOK, RestrictedIsNeverRestored
<1> QED
  BY <1>1, AlwaysInv, PTL

\* A crypto-shred that says it is completed has destroyed its key and closed the
\* backups that were settled when it began, whatever other shreds, submissions
\* and restores ran with it.
THEOREM CompletedMeansClosed == Spec => []CompletedShredClosesBackups
<1>1. Inv => CompletedShredClosesBackups
  BY DEF Inv, ShredOK, Closed, CompletedShredClosesBackups
<1> QED
  BY <1>1, AlwaysInv, PTL

\* A key destroyed in one transaction and the settled backups it closes go
\* together, also when the request dies right after (execute_crypto_shred's
\* shared session).
THEOREM ShredIsOnePiece == Spec => []DestroyedWithItsBackups
<1>1. Inv => DestroyedWithItsBackups
  BY DEF Inv, ShredOK, Closed, DestroyedWithItsBackups
<1> QED
  BY <1>1, AlwaysInv, PTL

\* A backup whose submission is over keeps its status, or is closed for good.
SettledStatusIsFinal ==
  [][\A b \in Settled : backups'[b].status \in {backups[b].status, "IRREVERSIBLE"}]_vars

\* No step of anybody takes a backup whose submission is over anywhere but to
\* IRREVERSIBLE.
THEOREM SettledStaySettled == Spec => SettledStatusIsFinal
<1>1. Inv /\ [Next]_vars => [\A b \in Settled : backups'[b].status \in {backups[b].status, "IRREVERSIBLE"}]_vars
  BY StepInv DEF Forward
<1> QED
  BY <1>1, AlwaysInv, PTL DEF Spec, SettledStatusIsFinal

-----------------------------------------------------------------------------
(* Gateway implements BackupLife.                                          *)

\* What the submission of b knows of its row, with what Inv says of it.
RowInHand(b) ==
  /\ submission[b] \in {"announce", "get_key", "tag"} => backups[b].status = "PROCESSING"
  /\ submission[b] \in {"store", "activate"} => backups[b].key_version # NoVersion
  /\ submission[b] \in {"store", "activate", "mark_failed"} =>
       backups[b].status \in {"PROCESSING", "IRREVERSIBLE"}
  /\ backups[b].status = "ACTIVE" => backups[b].stored

\* No restore has a row before it has loaded it.
NotLoadedYet(r) == restore[r] \in {"mfa", "load"} => loaded[r].status # "ACTIVE"

LifeInv ==
  /\ \A b \in Backups : RowInHand(b)
  /\ \A r \in Restores : NotLoadedYet(r)

\* A step of BackupLife, or none, that leaves LifeInv true.
LifeStep == LifeInv' /\ [Life!Next]_(Life!vars)

\* How far a restore is, seen from BackupLife.
LEMMA StageOf ==
  ASSUME NEW row, NEW place \in RestoreRunning \cup RestoreEnded
  PROVE  /\ place = "completed" => StageAt(place, row) = "restored"
         /\ place \in RestoreEnded \ {"completed"} => StageAt(place, row) = "refused"
         /\ place \in RestoreRunning =>
              StageAt(place, row) = IF row.status = "ACTIVE" THEN "admitted" ELSE "asked"
BY DEF StageAt, RestoreRunning, RestoreEnded

LEMMA LifeInit ==
  ASSUME Init
  PROVE  LifeInv /\ Life!Init
<1>1. /\ backups = [b \in Backups |-> NoBackup]
      /\ keys = [v \in Versions |-> [active |-> v = SeedVersion, destroyed |-> FALSE]]
      /\ submission = [b \in Backups |-> "authorize"]
      /\ restore = [r \in Restores |-> "mfa"] /\ wanted \in [Restores -> Backups]
      /\ loaded = [r \in Restores |-> NoBackup]
  BY DEF Init, SharedInit, SubmissionInit, ShredInit, RestoreInit
<1>2. /\ NoBackup.status = "absent" /\ NoBackup.key_version = NoVersion /\ NoBackup.stored = FALSE
  BY DEF NoBackup
<1>3. LifeInv
  BY <1>1, <1>2 DEF LifeInv, RowInHand, NotLoadedYet
<1>4. /\ RowStatus = [b \in Backups |-> "absent"] /\ RowKey = [b \in Backups |-> NoVersion]
      /\ Stored = {}
  BY <1>1, <1>2 DEF RowStatus, RowKey, Stored
<1>5. Unsettled = Backups
  BY <1>1 DEF Unsettled, Settled, SubmissionEnded
<1>6. DestroyedVersions = {}
  BY <1>1 DEF DestroyedVersions
<1>7. Stage = [r \in Restores |-> "asked"]
  BY <1>1, <1>2, StageOf DEF Stage, RestoreRunning
<1> QED
  BY <1>1, <1>3, <1>4, <1>5, <1>6, <1>7 DEF Life!Init

\* A step that leaves rows and destroyed keys alone ends requests at most.
LEMMA RequestsLeave ==
  ASSUME Inv, Forward, UNCHANGED backups, DestroyedSame,
         NEW rs \in SUBSET Restores,
         \A r \in rs : Stage[r] \in {"asked", "admitted"} /\ Stage'[r] = "refused",
         \A r \in Restores \ rs : Stage'[r] = Stage[r]
  PROVE  [Life!Next]_(Life!vars)
<1>1. Settled \subseteq Settled' /\ Settled' \in SUBSET Backups
  BY DEF Settled, Forward
<1>2. Unsettled' = Unsettled \ Settled'
  BY <1>1 DEF Unsettled
<1>3. UNCHANGED <<RowStatus, RowKey, Stored, DestroyedVersions, wanted>>
  BY DEF RowStatus, RowKey, Stored, DestroyedVersions, DestroyedSame, Forward
<1>4. Stage' = [r \in Restores |-> IF r \in rs THEN "refused" ELSE Stage[r]]
  BY DEF Stage
<1>5. Life!Leave(Settled', rs)
  BY <1>2, <1>3, <1>4 DEF Life!Leave
<1> QED
  BY <1>1, <1>5 DEF Life!Next

\* A row that is left alone, or closed, stays in hand.
LEMMA RowStaysInHand ==
  ASSUME Inv, NEW b \in Backups, RowInHand(b), submission'[b] = submission[b],
         \/ backups'[b] = backups[b]
         \/ /\ backups[b].key_version # NoVersion
            /\ backups'[b] = [backups[b] EXCEPT !.status = "IRREVERSIBLE"]
  PROVE  RowInHand(b)'
<1>1. SubmissionOK(b) /\ backups[b] \in BackupRows
  BY TypesOfBackup DEF Inv
<1>2. CASE backups'[b] = backups[b]
  BY <1>2 DEF RowInHand
<1>3. CASE /\ backups[b].key_version # NoVersion
           /\ backups'[b] = [backups[b] EXCEPT !.status = "IRREVERSIBLE"]
  <2>1. /\ backups'[b].status = "IRREVERSIBLE"
        /\ backups'[b].key_version = backups[b].key_version
    BY <1>1, <1>3 DEF BackupRows
  <2> QED
    BY <1>1, <1>3, <2>1 DEF RowInHand, SubmissionOK
<1> QED
  BY <1>2, <1>3

\* A submission that leaves rows and destroyed keys alone.
LEMMA SubmissionLeaves ==
  ASSUME Inv, Forward, LifeInv, NEW b \in Backups, UNCHANGED <<backups, restoreVars>>, DestroyedSame,
         \A c \in Backups \ {b} : submission'[c] = submission[c],
         RowInHand(b)'
  PROVE  LifeStep
<1>1. UNCHANGED <<restore, loaded>>
  BY DEF restoreVars
<1>2. \A c \in Backups : RowInHand(c)'
  BY RowStaysInHand DEF LifeInv
<1>3. \A r \in Restores : NotLoadedYet(r)'
  BY <1>1 DEF LifeInv, NotLoadedYet
<1>4. Stage' = Stage
  BY <1>1 DEF Stage
<1>5. [Life!Next]_(Life!vars)
  BY <1>4, RequestsLeave, {} \in SUBSET Restores
<1> QED
  BY <1>2, <1>3, <1>5 DEF LifeStep, LifeInv

LEMMA ChangedAtOnePoint ==
  ASSUME NEW S, NEW f, NEW g, NEW x \in S, NEW v,
         f = [s \in S |-> f[s]], g = [s \in S |-> g[s]],
         g[x] = v, \A s \in S \ {x} : g[s] = f[s]
  PROVE  g = [f EXCEPT ![x] = v]
OBVIOUS

\* A submission that writes its row, from one place it runs at to another.
LEMMA SubmissionWritesOn ==
  ASSUME Inv, Forward, LifeInv, NEW b \in Backups, UNCHANGED <<keys, restoreVars>>,
         NEW here \in SubmissionRunning, NEW next \in SubmissionRunning, Advance(b, here, {next}),
         NEW row \in BackupRows, backups' = [backups EXCEPT ![b] = row],
         RowInHand(b)'
  PROVE  /\ LifeInv'
         /\ submission[b] = here /\ submission'[b] = next /\ backups'[b] = row
         /\ RowStatus' = [RowStatus EXCEPT ![b] = row.status]
         /\ RowKey' = [RowKey EXCEPT ![b] = row.key_version]
         /\ Stored' = (Stored \ {b}) \cup (IF row.stored THEN {b} ELSE {})
         /\ b \in Unsettled
         /\ UNCHANGED <<Unsettled, DestroyedVersions, wanted, Stage>>
<1>1. UNCHANGED <<restore, loaded, wanted>> /\ backups \in [Backups -> BackupRows]
  BY DEF restoreVars, Inv, TypeOK, SharedTypeOK
<1>2. /\ submission[b] = here /\ submission'[b] = next
      /\ \A c \in Backups \ {b} : submission'[c] = submission[c]
  BY Advances DEF Inv
<1>3. backups'[b] = row /\ \A c \in Backups \ {b} : backups'[c] = backups[c]
  BY <1>1
<1>4. \A c \in Backups : RowInHand(c)'
  BY <1>2, <1>3, RowStaysInHand DEF LifeInv
<1>5. \A r \in Restores : NotLoadedYet(r)'
  BY <1>1 DEF LifeInv, NotLoadedYet
<1>6. b \in Unsettled /\ Unsettled' = Unsettled
  <2>1. b \notin Settled /\ b \notin Settled'
    BY <1>2 DEF Settled, SubmissionRunning, SubmissionEnded
  <2>2. Settled' = Settled
    BY <1>2, <2>1 DEF Settled
  <2> QED
    BY <2>1, <2>2 DEF Unsettled
<1>7. RowStatus' = [RowStatus EXCEPT ![b] = row.status]
  <2>1. /\ RowStatus = [c \in Backups |-> RowStatus[c]]
        /\ RowStatus' = [c \in Backups |-> RowStatus'[c]]
        /\ RowStatus'[b] = row.status
        /\ \A c \in Backups \ {b} : RowStatus'[c] = RowStatus[c]
    BY <1>3 DEF RowStatus
  <2> QED
    BY <2>1, ChangedAtOnePoint
<1>8. RowKey' = [RowKey EXCEPT ![b] = row.key_version]
  <2>1. /\ RowKey = [c \in Backups |-> RowKey[c]]
        /\ RowKey' = [c \in Backups |-> RowKey'[c]]
        /\ RowKey'[b] = row.key_version
        /\ \A c \in Backups \ {b} : RowKey'[c] = RowKey[c]
    BY <1>3 DEF RowKey
  <2> QED
    BY <2>1, ChangedAtOnePoint
<1>9. Stored' = (Stored \ {b}) \cup (IF row.stored THEN {b} ELSE {})
  BY <1>3 DEF Stored
<1>10. UNCHANGED <<DestroyedVersions, Stage>>
  BY <1>1 DEF DestroyedVersions, Stage
<1> QED
  BY <1>1, <1>2, <1>3, <1>4, <1>5, <1>6, <1>7, <1>8, <1>9, <1>10 DEF LifeInv

LEMMA CreateLife ==
  ASSUME Inv, Forward, LifeInv, NEW b \in Backups, CreateMetadata(b), UNCHANGED restoreVars
  PROVE  LifeStep
<1> DEFINE row == [NoBackup EXCEPT !.status = "PROCESSING"]
<1>1. /\ Advance(b, "create", {"announce"}) /\ "create" \in SubmissionRunning
      /\ "announce" \in SubmissionRunning
      /\ UNCHANGED keys /\ backups' = [backups EXCEPT ![b] = row]
  BY DEF CreateMetadata, SubmissionRunning
<1>2. /\ row \in BackupRows /\ row.status = "PROCESSING"
      /\ row.key_version = NoVersion /\ row.stored = FALSE
  BY DEF NoBackup, BackupRows, Statuses
<1> HIDE DEF row
<1>3. /\ submission[b] = "create" /\ submission'[b] = "announce" /\ backups'[b] = row
  BY <1>1, Advances DEF Inv, TypeOK, SharedTypeOK, SubmissionRunning, SubmissionEnded
<1>4. backups[b] = NoBackup
  BY <1>3 DEF Inv, SubmissionOK
<1>5. /\ RowStatus[b] = "absent" /\ RowKey[b] = NoVersion /\ b \notin Stored
      /\ RowKey = [RowKey EXCEPT ![b] = NoVersion]
  BY <1>4 DEF RowStatus, RowKey, Stored, NoBackup
<1>6. RowInHand(b)'
  BY <1>2, <1>3 DEF RowInHand
<1>7. /\ LifeInv' /\ RowStatus' = [RowStatus EXCEPT ![b] = row.status]
      /\ RowKey' = [RowKey EXCEPT ![b] = row.key_version]
      /\ Stored' = (Stored \ {b}) \cup (IF row.stored THEN {b} ELSE {})
      /\ b \in Unsettled
      /\ UNCHANGED <<Unsettled, DestroyedVersions, wanted, Stage>>
  BY <1>1, <1>2, <1>6, SubmissionWritesOn
<1>8. Stored' = Stored
  BY <1>2, <1>5, <1>7
<1>9. Life!Begin(b)
  BY <1>2, <1>5, <1>7, <1>8 DEF Life!Begin
<1> QED
  BY <1>7, <1>9 DEF LifeStep, Life!Next
LEMMA TagLife ==
  ASSUME Inv, Forward, LifeInv, NEW b \in Backups, TagWithKey(b), UNCHANGED restoreVars
  PROVE  LifeStep
<1> DEFINE row == [backups[b] EXCEPT !.key_version = fetched[b]]
<1>1. /\ Advance(b, "tag", {"store"}) /\ "tag" \in SubmissionRunning
      /\ "store" \in SubmissionRunning
      /\ UNCHANGED keys /\ backups' = [backups EXCEPT ![b] = row]
  BY DEF TagWithKey, SubmissionRunning
<1>2. /\ submission[b] = "tag" /\ submission'[b] = "store"
  BY <1>1, Advances DEF Inv, SubmissionEnded
<1>3. /\ backups[b].status = "PROCESSING" /\ backups[b].key_version = NoVersion
      /\ fetched[b] \in Versions /\ fetched[b] # NoVersion /\ ~backups[b].stored
  BY <1>2, VersionsAssumption DEF Inv, SubmissionOK, LifeInv, RowInHand
<1>4. /\ row \in BackupRows /\ row.status = "PROCESSING"
      /\ row.key_version = fetched[b] /\ ~row.stored
  BY <1>3, TypesOfBackup DEF Inv, BackupRows
<1>5. backups'[b] = row
  BY <1>1 DEF Inv, TypeOK, SharedTypeOK
<1> HIDE DEF row
<1>6. /\ RowStatus[b] = "PROCESSING" /\ RowKey[b] = NoVersion /\ b \notin Stored
      /\ RowStatus = [RowStatus EXCEPT ![b] = "PROCESSING"]
  BY <1>3 DEF RowStatus, RowKey, Stored
<1>7. RowInHand(b)'
  BY <1>2, <1>3, <1>4, <1>5 DEF RowInHand
<1>8. /\ LifeInv' /\ RowStatus' = [RowStatus EXCEPT ![b] = row.status]
      /\ RowKey' = [RowKey EXCEPT ![b] = row.key_version]
      /\ Stored' = (Stored \ {b}) \cup (IF row.stored THEN {b} ELSE {})
      /\ b \in Unsettled
      /\ UNCHANGED <<Unsettled, DestroyedVersions, wanted, Stage>>
  BY <1>1, <1>4, <1>7, SubmissionWritesOn
<1>9. Stored' = Stored
  BY <1>4, <1>6, <1>8
<1>10. Life!Assign(b, fetched[b])
  BY <1>4, <1>6, <1>8, <1>9 DEF Life!Assign
<1> QED
  BY <1>3, <1>8, <1>10 DEF LifeStep, Life!Next

LEMMA ActivateLife ==
  ASSUME Inv, Forward, LifeInv, NEW b \in Backups, ActivateBackup(b), UNCHANGED restoreVars
  PROVE  LifeStep
<1> DEFINE row == Activated(b)
<1>1. /\ Advance(b, "activate", {"finish"}) /\ "activate" \in SubmissionRunning
      /\ "finish" \in SubmissionRunning
      /\ UNCHANGED keys /\ backups' = [backups EXCEPT ![b] = row]
  BY DEF ActivateBackup, SubmissionRunning
<1>2. /\ submission[b] = "activate" /\ submission'[b] = "finish"
  BY <1>1, Advances DEF Inv, SubmissionEnded
<1>3. /\ backups[b].status \in {"PROCESSING", "IRREVERSIBLE"} /\ ~backups[b].stored
      /\ backups[b].key_version # NoVersion /\ backups[b].key_version = fetched[b]
      /\ fetched[b] \in Versions
  BY <1>2 DEF Inv, SubmissionOK, LifeInv, RowInHand
<1>4. /\ row \in BackupRows /\ row.status = "ACTIVE"
      /\ row.key_version = fetched[b] /\ row.stored
  BY <1>3 DEF Activated, BackupRows, Statuses
<1>5. backups'[b] = row
  BY <1>1 DEF Inv, TypeOK, SharedTypeOK
<1> HIDE DEF row
<1>6. /\ RowStatus[b] \in {"PROCESSING", "IRREVERSIBLE"} /\ RowKey[b] = fetched[b]
      /\ fetched[b] # NoVersion /\ b \notin Stored
      /\ RowKey = [RowKey EXCEPT ![b] = fetched[b]]
  BY <1>3 DEF RowStatus, RowKey, Stored
<1>7. RowInHand(b)'
  BY <1>2, <1>4, <1>5 DEF RowInHand
<1>8. /\ LifeInv' /\ RowStatus' = [RowStatus EXCEPT ![b] = row.status]
      /\ RowKey' = [RowKey EXCEPT ![b] = row.key_version]
      /\ Stored' = (Stored \ {b}) \cup (IF row.stored THEN {b} ELSE {})
      /\ b \in Unsettled
      /\ UNCHANGED <<Unsettled, DestroyedVersions, wanted, Stage>>
  BY <1>1, <1>4, <1>7, SubmissionWritesOn
<1>9. Stored' = Stored \cup {b}
  BY <1>4, <1>8
<1>10. Life!Activate(b)
  BY <1>4, <1>6, <1>8, <1>9 DEF Life!Activate, Life!InHand
<1> QED
  BY <1>8, <1>10 DEF LifeStep, Life!Next

LEMMA FailLife ==
  ASSUME Inv, Forward, LifeInv, NEW b \in Backups, MarkFailed(b), UNCHANGED restoreVars
  PROVE  LifeStep
<1> DEFINE row == [backups[b] EXCEPT !.status = "FAILED"]
<1>1. /\ Advance(b, "mark_failed", {"report"}) /\ "mark_failed" \in SubmissionRunning
      /\ "report" \in SubmissionRunning
      /\ UNCHANGED keys /\ backups' = [backups EXCEPT ![b] = row]
  BY DEF MarkFailed, SubmissionRunning
<1>2. /\ submission[b] = "mark_failed" /\ submission'[b] = "report"
  BY <1>1, Advances DEF Inv, SubmissionEnded
<1>3. /\ backups[b].status \in {"PROCESSING", "IRREVERSIBLE"} /\ ~backups[b].stored
  BY <1>2 DEF Inv, SubmissionOK, LifeInv, RowInHand
<1>4. /\ row \in BackupRows /\ row.status = "FAILED"
      /\ row.key_version = backups[b].key_version /\ ~row.stored
  BY <1>3, TypesOfBackup DEF Inv, BackupRows, Statuses
<1>5. backups'[b] = row
  BY <1>1 DEF Inv, TypeOK, SharedTypeOK
<1> HIDE DEF row
<1>6. /\ RowStatus[b] \in {"PROCESSING", "IRREVERSIBLE"} /\ b \notin Stored
      /\ RowKey = [RowKey EXCEPT ![b] = backups[b].key_version]
  BY <1>3 DEF RowStatus, RowKey, Stored
<1>7. RowInHand(b)'
  BY <1>2, <1>4, <1>5 DEF RowInHand
<1>8. /\ LifeInv' /\ RowStatus' = [RowStatus EXCEPT ![b] = row.status]
      /\ RowKey' = [RowKey EXCEPT ![b] = row.key_version]
      /\ Stored' = (Stored \ {b}) \cup (IF row.stored THEN {b} ELSE {})
      /\ b \in Unsettled
      /\ UNCHANGED <<Unsettled, DestroyedVersions, wanted, Stage>>
  BY <1>1, <1>4, <1>7, SubmissionWritesOn
<1>9. Stored' = Stored
  BY <1>4, <1>6, <1>8
<1>10. Life!Fail(b)
  BY <1>4, <1>6, <1>8, <1>9 DEF Life!Fail, Life!InHand
<1> QED
  BY <1>8, <1>10 DEF LifeStep, Life!Next
\* Where a submission that leaves its row alone goes.
LEMMA SubmissionGoes ==
  ASSUME Inv, Forward, LifeInv, NEW b \in Backups, UNCHANGED <<backups, restoreVars>>, DestroyedSame,
         NEW here \in SubmissionRunning,
         NEW next \in SUBSET (SubmissionRunning \cup SubmissionEnded), Advance(b, here, next),
         \A n \in next : submission'[b] = n => RowInHand(b)'
  PROVE  LifeStep
BY Advances, SubmissionLeaves DEF Inv

LEMMA SubmitLife ==
  ASSUME Inv, Forward, LifeInv, NEW b \in Backups, Submit(b)
  PROVE  LifeStep
<1> DEFINE Places == SubmissionRunning \cup SubmissionEnded
<1>1. SubmissionStep(b) /\ UNCHANGED restoreVars
  BY DEF Submit
<1>2. TypeOK /\ SubmissionOK(b) /\ RowInHand(b)
  BY DEF Inv, LifeInv
<1>3. CASE \/ RejectBackup(b) \/ AuthorizeBackup(b) \/ DenyBackup(b)
           \/ FinishBackup(b) \/ ReportFailure(b)
  <2>1. PICK here \in {"authorize", "deny", "finish", "report"},
             next \in SUBSET {"rejected", "create", "deny", "denied", "accepted", "server_error", "failed"} :
               Advance(b, here, next) /\ UNCHANGED <<backups, keys>>
    <3>1. CASE RejectBackup(b)
      BY <3>1 DEF RejectBackup, shared
    <3>2. CASE AuthorizeBackup(b)
      BY <3>2 DEF AuthorizeBackup
    <3>3. CASE DenyBackup(b)
      BY <3>3 DEF DenyBackup
    <3>4. CASE FinishBackup(b)
      BY <3>4 DEF FinishBackup, AfterAudit
    <3>5. CASE ReportFailure(b)
      BY <3>5 DEF ReportFailure
    <3> QED
      BY <1>3, <3>1, <3>2, <3>3, <3>4, <3>5
  <2>2. here \in SubmissionRunning /\ next \in SUBSET Places
    BY DEF SubmissionRunning, SubmissionEnded
  <2>3. submission'[b] \in next
    BY <1>2, <2>1, <2>2, Advances
  <2>4. RowInHand(b)'
    BY <1>2, <2>1, <2>3 DEF RowInHand
  <2> QED
    BY <1>1, <1>2, <2>1, <2>2, <2>4, SameKeys, SubmissionGoes
<1>4. CASE AnnounceBackup(b)
  <2>1. /\ Advance(b, "announce", {"get_key"}) /\ "announce" \in SubmissionRunning
        /\ {"get_key"} \in SUBSET Places /\ UNCHANGED <<backups, keys>>
    BY <1>4 DEF AnnounceBackup, SubmissionRunning
  <2>2. submission[b] = "announce" /\ submission'[b] = "get_key"
    BY <1>2, <2>1, Advances
  <2>3. RowInHand(b)'
    BY <1>2, <2>1, <2>2 DEF RowInHand
  <2> QED
    BY <1>1, <1>2, <2>1, <2>3, SameKeys, SubmissionGoes
<1>5. CASE KeyUnavailable(b)
  <2>1. /\ Advance(b, "get_key", {"mark_failed"}) /\ "get_key" \in SubmissionRunning
        /\ {"mark_failed"} \in SUBSET Places /\ UNCHANGED backups /\ keys' = KeysSeeded
    BY <1>5 DEF KeyUnavailable, SubmissionRunning
  <2>2. submission[b] = "get_key" /\ submission'[b] = "mark_failed"
    BY <1>2, <2>1, Advances
  <2>3. RowInHand(b)'
    BY <1>2, <2>1, <2>2 DEF RowInHand
  <2> QED
    BY <1>1, <1>2, <2>1, <2>3, SeedingKeeps, SubmissionGoes
<1>6. CASE GetKey(b)
  <2>1. /\ submission[b] = "get_key" /\ submission' = [submission EXCEPT ![b] = "tag"]
        /\ UNCHANGED backups /\ keys' = KeysSeeded
    BY <1>6 DEF GetKey
  <2>2. submission'[b] = "tag" /\ \A c \in Backups \ {b} : submission'[c] = submission[c]
    BY <1>2, <2>1 DEF TypeOK, SubmissionTypeOK
  <2>3. RowInHand(b)'
    BY <1>2, <2>1, <2>2 DEF RowInHand
  <2> QED
    BY <1>1, <1>2, <2>1, <2>2, <2>3, SeedingKeeps, SubmissionLeaves
<1>7. CASE StoreObject(b) \/ StoreFails(b)
  <2>1. PICK next \in {"activate", "mark_failed"} :
          Advance(b, "store", {next}) /\ UNCHANGED <<backups, keys>>
    BY <1>7 DEF StoreObject, StoreFails, shared
  <2>2. "store" \in SubmissionRunning /\ {next} \in SUBSET Places
    BY DEF SubmissionRunning
  <2>3. submission[b] = "store" /\ submission'[b] = next
    BY <1>2, <2>1, <2>2, Advances
  <2>4. RowInHand(b)'
    BY <1>2, <2>1, <2>3 DEF RowInHand
  <2> QED
    BY <1>1, <1>2, <2>1, <2>2, <2>4, SameKeys, SubmissionGoes
<1> QED
  BY <1>1, <1>3, <1>4, <1>5, <1>6, <1>7, CreateLife, TagLife, ActivateLife, FailLife
  DEF SubmissionStep

\* A crypto-shred that leaves rows and keys alone.
LEMMA ShredLeaves ==
  ASSUME Inv, Forward, LifeInv, UNCHANGED <<backups, keys, submissionVars, restoreVars>>
  PROVE  LifeStep
<1>1. UNCHANGED <<submission, restore, loaded>>
  BY DEF submissionVars, restoreVars
<1>2. LifeInv'
  BY <1>1 DEF LifeInv, RowInHand, NotLoadedYet
<1>3. Stage' = Stage
  BY <1>1 DEF Stage
<1>4. [Life!Next]_(Life!vars)
  BY <1>3, SameKeys, RequestsLeave, {} \in SUBSET Restores DEF Inv
<1> QED
  BY <1>2, <1>4 DEF LifeStep

\* A crypto-shred that destroys its key, or closes backups recorded under it.
LEMMA ShredCloses ==
  ASSUME Inv, Forward, LifeInv, NEW x \in Shreds, UNCHANGED <<submissionVars, restoreVars>>,
         NEW bs \in SUBSET Backups, \A b \in bs : backups[b].key_version = victim[x],
         backups' = [b \in Backups |-> IF b \in bs THEN [backups[b] EXCEPT !.status = "IRREVERSIBLE"]
                                      ELSE backups[b]],
         OnlyVictim(x), keys'[victim[x]].destroyed
  PROVE  LifeStep
<1>1. UNCHANGED <<submission, restore, loaded, wanted>> /\ victim[x] \in Versions
  BY DEF restoreVars, submissionVars, Inv, TypeOK, ShredTypeOK
<1>2. \A b \in bs : backups[b].key_version # NoVersion
  BY <1>1, VersionsAssumption
<1>3. OnlyCloses
  BY <1>2 DEF OnlyCloses
<1>4. LifeInv'
  <2>1. \A b \in Backups : RowInHand(b)'
    BY <1>1, <1>3, RowStaysInHand DEF LifeInv, OnlyCloses
  <2>2. \A r \in Restores : NotLoadedYet(r)'
    BY <1>1 DEF LifeInv, NotLoadedYet
  <2> QED
    BY <2>1, <2>2 DEF LifeInv
<1>5. \A b \in Backups : /\ backups'[b].key_version = backups[b].key_version
                         /\ backups'[b].stored = backups[b].stored
                         /\ backups'[b].status = IF b \in bs THEN "IRREVERSIBLE" ELSE backups[b].status
  <2> SUFFICES ASSUME NEW b \in Backups
               PROVE  /\ backups'[b].key_version = backups[b].key_version
                      /\ backups'[b].stored = backups[b].stored
                      /\ backups'[b].status = IF b \in bs THEN "IRREVERSIBLE" ELSE backups[b].status
    OBVIOUS
  <2> QED
    BY TypesOfBackup DEF Inv, BackupRows
<1>6. /\ RowKey' = RowKey /\ Stored' = Stored
      /\ RowStatus' = [b \in Backups |-> IF b \in bs THEN "IRREVERSIBLE" ELSE RowStatus[b]]
  BY <1>5 DEF RowKey, Stored, RowStatus
<1>7. DestroyedVersions' = DestroyedVersions \cup {victim[x]}
  BY <1>1 DEF OnlyVictim, DestroyedVersions
<1>8. UNCHANGED <<Unsettled, wanted, Stage>>
  BY <1>1 DEF Unsettled, Settled, Stage
<1>9. \A b \in bs : RowKey[b] = victim[x]
  BY DEF RowKey
<1>10. Life!Close(victim[x], bs)
  BY <1>6, <1>7, <1>8, <1>9 DEF Life!Close
<1> QED
  BY <1>1, <1>4, <1>10 DEF LifeStep, Life!Next

LEMMA ShredLife ==
  ASSUME Inv, Forward, LifeInv, NEW x \in Shreds, Shred(x)
  PROVE  LifeStep
<1>1. ShredStep(x) /\ UNCHANGED <<submissionVars, restoreVars>>
  BY DEF Shred
<1>2. TypeOK /\ ShredOK(x)
  BY DEF Inv
<1>3. CASE DestroyKey(x)
  <2>1. /\ Proceed(x, "destroy", "select") /\ keys' = Destroyed(victim[x])
        /\ UNCHANGED <<backups, trail>>
    BY <1>3 DEF DestroyKey
  <2>2. OnRecord("crypto_shred_started", victim[x])
    BY <1>2, <2>1 DEF ShredOK, Proceed
  <2>3. OnlyVictim(x) /\ keys'[victim[x]].destroyed
    BY <2>1, <2>2, DestroyingKeeps
  <2>4. backups' = [b \in Backups |-> IF b \in {} THEN [backups[b] EXCEPT !.status = "IRREVERSIBLE"]
                                     ELSE backups[b]]
    BY <1>2, <2>1 DEF TypeOK, SharedTypeOK
  <2> QED
    BY <1>1, <2>3, <2>4, ShredCloses, {} \in SUBSET Backups
<1>4. CASE MarkIrreversible(x)
  <2>1. /\ Proceed(x, "mark", "escalate") /\ UNCHANGED trail
        /\ backups' = [b \in Backups |->
                         IF b \in linked[x] THEN [backups[b] EXCEPT !.status = "IRREVERSIBLE"]
                         ELSE backups[b]]
        /\ keys' = IF wiring = "atomic" THEN Destroyed(victim[x]) ELSE keys
    BY <1>4 DEF MarkIrreversible
  <2>2. /\ OnRecord("crypto_shred_started", victim[x])
        /\ wiring # "atomic" => keys[victim[x]].destroyed
        /\ \A b \in linked[x] : backups[b].key_version = victim[x]
        /\ linked[x] \in SUBSET Backups
    BY <1>2, <2>1 DEF ShredOK, Proceed, TypeOK, ShredTypeOK
  <2>3. OnlyVictim(x) /\ keys'[victim[x]].destroyed
    <3>1. CASE wiring = "atomic"
      BY <2>1, <2>2, <3>1, DestroyingKeeps
    <3>2. CASE wiring # "atomic"
      BY <1>2, <2>1, <2>2, <3>2 DEF OnlyVictim, TypeOK, SharedTypeOK
    <3> QED
      BY <3>1, <3>2
  <2> QED
    BY <1>1, <2>1, <2>2, <2>3, ShredCloses
<1>5. CASE ~DestroyKey(x) /\ ~MarkIrreversible(x)
  <2>1. UNCHANGED <<backups, keys>>
    BY <1>1, <1>5 DEF ShredStep, AuthorizeShred, DenyShred, StartShred, BeginTransaction,
       LookupVersion, SelectLinked, EscalateToLockdown, RecordEffect, CompleteShred, shared
  <2> QED
    BY <1>1, <2>1, ShredLeaves
<1> QED
  BY <1>3, <1>4, <1>5
\* A restore moves, and nothing else does.
LEMMA RestoreMoved ==
  ASSUME Inv, Forward, LifeInv, NEW r \in Restores, UNCHANGED <<backups, keys, submissionVars>>,
         \A s \in Restores \ {r} : restore'[s] = restore[s] /\ loaded'[s] = loaded[s],
         NotLoadedYet(r)'
  PROVE  /\ LifeInv'
         /\ UNCHANGED <<RowStatus, RowKey, Stored, Unsettled, DestroyedVersions, wanted>>
         /\ \A s \in Restores \ {r} : Stage'[s] = Stage[s]
<1>1. UNCHANGED <<submission, wanted>>
  BY DEF submissionVars, Forward
<1>2. LifeInv'
  BY <1>1 DEF LifeInv, RowInHand, NotLoadedYet
<1>3. UNCHANGED <<RowStatus, RowKey, Stored, Unsettled, DestroyedVersions>>
  BY <1>1 DEF RowStatus, RowKey, Stored, Unsettled, Settled, DestroyedVersions
<1>4. \A s \in Restores \ {r} : Stage'[s] = Stage[s]
  BY DEF Stage
<1> QED
  BY <1>1, <1>2, <1>3, <1>4

\* It goes on, or ends without the plaintext.
LEMMA RestoreLeaves ==
  ASSUME Inv, Inv', Forward, LifeInv, NEW r \in Restores,
         UNCHANGED <<backups, keys, submissionVars, loaded>>,
         \A s \in Restores \ {r} : restore'[s] = restore[s],
         restore[r] \in RestoreRunning, restore'[r] # "completed",
         restore'[r] = "mfa" => restore[r] = "mfa",
         restore'[r] = "load" => restore[r] \in {"mfa", "load"}
  PROVE  LifeStep
<1>1. /\ restore[r] \in RestoreRunning \cup RestoreEnded
      /\ restore'[r] \in RestoreRunning \cup RestoreEnded
  BY DEF Inv, TypeOK, RestoreTypeOK
<1>2. NotLoadedYet(r)'
  BY DEF LifeInv, NotLoadedYet
<1>3. LifeInv' /\ \A s \in Restores \ {r} : Stage'[s] = Stage[s]
  BY <1>2, RestoreMoved
<1>4. /\ Stage[r] = StageAt(restore[r], loaded[r])
      /\ Stage'[r] = StageAt(restore'[r], loaded[r])
  BY DEF Stage
<1>5. Stage[r] \in {"asked", "admitted"}
  BY <1>1, <1>4, StageOf
<1>6. CASE restore'[r] \in RestoreRunning
  <2>1. Stage'[r] = Stage[r]
    BY <1>1, <1>4, <1>6, StageOf
  <2> QED
    BY <1>3, <2>1, SameKeys, RequestsLeave, {} \in SUBSET Restores DEF Inv, LifeStep
<1>7. CASE restore'[r] \in RestoreEnded
  <2>1. Stage'[r] = "refused"
    BY <1>1, <1>4, <1>7, StageOf
  <2> QED
    BY <1>3, <1>5, <2>1, SameKeys, RequestsLeave, {r} \in SUBSET Restores DEF Inv, LifeStep
<1> QED
  BY <1>1, <1>6, <1>7

\* The row decides at once: an ACTIVE one lets the restore in.
LEMMA LoadLife ==
  ASSUME Inv, Inv', Forward, LifeInv, NEW r \in Restores, LoadMetadata(r), UNCHANGED submissionVars
  PROVE  LifeStep
<1> DEFINE row == backups[wanted[r]]
           next == AfterLoad(row)
<1>1. /\ wanted[r] \in Backups /\ row \in BackupRows /\ row.status \in Statuses
  BY TypesOfBackup DEF Inv, TypeOK, RestoreTypeOK
<1>2. /\ Continue(r, "load", {next})
      /\ loaded' = [loaded EXCEPT ![r] = row]
      /\ UNCHANGED <<backups, keys>>
  BY DEF LoadMetadata, shared
<1>3. /\ next \in {"not_found", "block_irreversible", "authorize"}
      /\ row.status = "ACTIVE" => next = "authorize"
  BY DEF AfterLoad
<1>4. {next} \in SUBSET (RestoreRunning \cup RestoreEnded)
  BY <1>3 DEF RestoreRunning, RestoreEnded
<1> HIDE DEF next
<1>5. /\ restore[r] = "load" /\ restore'[r] = next
      /\ \A s \in Restores \ {r} : restore'[s] = restore[s]
  BY <1>2, <1>4, Continues DEF Inv
<1>6. loaded'[r] = row /\ \A s \in Restores \ {r} : loaded'[s] = loaded[s]
  BY <1>2 DEF Inv, TypeOK, RestoreTypeOK
<1>7. NotLoadedYet(r)'
  BY <1>3, <1>5 DEF NotLoadedYet
<1>8. /\ LifeInv'
      /\ UNCHANGED <<RowStatus, RowKey, Stored, Unsettled, DestroyedVersions, wanted>>
      /\ \A s \in Restores \ {r} : Stage'[s] = Stage[s]
  BY <1>2, <1>5, <1>6, <1>7, RestoreMoved
<1>9. Stage[r] = "asked"
  <2>1. Stage[r] = StageAt("load", loaded[r]) /\ loaded[r].status # "ACTIVE"
    BY <1>5 DEF Stage, LifeInv, NotLoadedYet
  <2>2. "load" \in RestoreRunning
    BY DEF RestoreRunning
  <2> QED
    BY <2>1, <2>2, StageOf
<1>10. Stage'[r] = StageAt(next, row)
  BY <1>5, <1>6 DEF Stage
<1>11. CASE row.status = "ACTIVE"
  <2>1. "authorize" \in RestoreRunning
    BY DEF RestoreRunning
  <2>2. Stage'[r] = "admitted"
    BY <1>3, <1>10, <1>11, <2>1, StageOf
  <2>3. /\ Stage = [s \in Restores |-> Stage[s]] /\ Stage' = [s \in Restores |-> Stage'[s]]
    BY DEF Stage
  <2>4. Stage' = [Stage EXCEPT ![r] = "admitted"]
    BY <1>8, <2>2, <2>3, ChangedAtOnePoint
  <2>5. RowStatus[wanted[r]] = "ACTIVE" /\ wanted[r] \in Stored
    BY <1>1, <1>11 DEF RowStatus, Stored, LifeInv, RowInHand
  <2>6. Life!Admit(r)
    BY <1>8, <1>9, <2>4, <2>5 DEF Life!Admit
  <2> QED
    BY <1>8, <2>6 DEF LifeStep, Life!Next
<1>12. CASE row.status # "ACTIVE" /\ next # "not_found"
  <2>1. next \in RestoreRunning
    BY <1>3, <1>12 DEF RestoreRunning
  <2>2. Stage'[r] = Stage[r]
    BY <1>9, <1>10, <1>12, <2>1, StageOf
  <2> QED
    BY <1>2, <1>8, <2>2, SameKeys, RequestsLeave, {} \in SUBSET Restores DEF Inv, LifeStep
<1>13. CASE next = "not_found"
  <2>1. next \in RestoreEnded \ {"completed"}
    BY <1>13 DEF RestoreEnded
  <2>2. Stage'[r] = "refused"
    BY <1>10, <2>1, StageOf
  <2> QED
    BY <1>2, <1>8, <1>9, <2>2, SameKeys, RequestsLeave, {r} \in SUBSET Restores DEF Inv, LifeStep
<1> QED
  BY <1>11, <1>12, <1>13

\* The plaintext goes to a restore that was let in.
LEMMA CompleteLife ==
  ASSUME Inv, Inv', Forward, LifeInv, NEW r \in Restores, CompleteRestore(r), UNCHANGED submissionVars
  PROVE  LifeStep
<1>1. /\ Continue(r, "complete", {"completed", "server_error"})
      /\ {"completed", "server_error"} \in SUBSET (RestoreRunning \cup RestoreEnded)
      /\ UNCHANGED <<backups, keys, loaded>>
  BY DEF CompleteRestore, AfterAudit, RestoreEnded
<1>2. /\ restore[r] = "complete" /\ restore'[r] \in {"completed", "server_error"}
      /\ \A s \in Restores \ {r} : restore'[s] = restore[s]
  BY <1>1, Continues DEF Inv
<1>3. "complete" \in RestoreRunning
  BY DEF RestoreRunning
<1>4. CASE restore'[r] = "completed"
  <2>1. loaded[r].status = "ACTIVE"
    BY <1>2 DEF Inv, RestoreOK
  <2>2. Stage[r] = "admitted" /\ Stage'[r] = "restored"
    <3>1. Stage[r] = StageAt("complete", loaded[r]) /\ Stage'[r] = StageAt("completed", loaded[r])
      BY <1>1, <1>2, <1>4 DEF Stage
    <3>2. "completed" \in RestoreEnded
      BY DEF RestoreEnded
    <3> QED
      BY <1>3, <2>1, <3>1, <3>2, StageOf
  <2>3. NotLoadedYet(r)'
    BY <1>4 DEF NotLoadedYet
  <2>4. /\ LifeInv'
        /\ UNCHANGED <<RowStatus, RowKey, Stored, Unsettled, DestroyedVersions, wanted>>
        /\ \A s \in Restores \ {r} : Stage'[s] = Stage[s]
    BY <1>1, <1>2, <2>3, RestoreMoved
  <2>5. /\ Stage = [s \in Restores |-> Stage[s]] /\ Stage' = [s \in Restores |-> Stage'[s]]
    BY DEF Stage
  <2>6. Stage' = [Stage EXCEPT ![r] = "restored"]
    BY <2>2, <2>4, <2>5, ChangedAtOnePoint
  <2>7. Life!Release(r)
    BY <2>2, <2>4, <2>6 DEF Life!Release
  <2> QED
    BY <2>4, <2>7 DEF LifeStep, Life!Next
<1>5. CASE restore'[r] = "server_error"
  BY <1>1, <1>2, <1>3, <1>5, RestoreLeaves
<1> QED
  BY <1>2, <1>4, <1>5

LEMMA RestoreLife ==
  ASSUME Inv, Inv', Forward, LifeInv, NEW r \in Restores, Restore(r)
  PROVE  LifeStep
<1>1. RestoreStep(r) /\ UNCHANGED submissionVars
  BY DEF Restore
<1>2. CASE ~LoadMetadata(r) /\ ~CompleteRestore(r)
  <2>1. PICK here \in RestoreRunning, next \in SUBSET (RestoreRunning \cup RestoreEnded) :
          /\ Continue(r, here, next) /\ UNCHANGED <<backups, keys, loaded>>
          /\ next \cap {"mfa", "completed"} = {}
          /\ "load" \in next => here = "mfa"
    <3>1. CASE ValidateMfa(r)
      BY <3>1 DEF ValidateMfa, shared, RestoreRunning, RestoreEnded
    <3>2. CASE AuthorizeRestore(r)
      BY <3>2 DEF AuthorizeRestore, AfterAudit, RestoreRunning, RestoreEnded
    <3>3. CASE CheckIncidentLevel(r)
      <4>1. AtLevel(level) \in {"fetch", "review", "block_restricted"}
        BY DEF AtLevel, Inv, TypeOK, SharedTypeOK, Levels
      <4>2. PICK next : next = {AtLevel(level), "block_restricted"}
        OBVIOUS
      <4>3. Continue(r, "incident", next) /\ UNCHANGED <<backups, keys, loaded>>
        BY <3>3, <4>2 DEF CheckIncidentLevel, shared
      <4> QED
        BY <4>1, <4>2, <4>3 DEF RestoreRunning
    <3>4. CASE RestrictRestore(r) \/ FailRestore(r)
      <4>1. PICK here \in {"block_irreversible", "block_restricted", "review", "authorize",
                           "fail_unavailable", "fail_integrity"},
                 answer \in {"irreversible", "restricted", "pending_manual_review",
                             "unavailable", "integrity_failed"} :
              Continue(r, here, {answer, "server_error"}) /\ UNCHANGED <<backups, keys, loaded>>
        BY <3>4 DEF RestrictRestore, FailRestore, Restrict, AfterAudit
      <4>2. PICK next : next = {answer, "server_error"}
        OBVIOUS
      <4> QED
        BY <4>1, <4>2 DEF RestoreRunning, RestoreEnded
    <3>5. CASE RestoreAndVerify(r)
      <4>1. PICK place : place = Verified(loaded[r], objects[wanted[r]])
        OBVIOUS
      <4>2. place \in {"fail_unavailable", "fail_integrity", "complete"}
        BY <4>1 DEF Verified
      <4>3. Continue(r, "fetch", {place}) /\ UNCHANGED <<backups, keys, loaded>>
        BY <3>5, <4>1 DEF RestoreAndVerify, shared
      <4> QED
        BY <4>2, <4>3 DEF RestoreRunning
    <3>6. CASE RestoreUnavailable(r)
      BY <3>6 DEF RestoreUnavailable, shared, RestoreRunning
    <3> QED
      BY <1>1, <1>2, <3>1, <3>2, <3>3, <3>4, <3>5, <3>6 DEF RestoreStep
  <2>2. /\ restore[r] = here /\ restore'[r] \in next
        /\ \A s \in Restores \ {r} : restore'[s] = restore[s]
    BY <2>1, Continues DEF Inv
  <2> QED
    BY <1>1, <2>1, <2>2, RestoreLeaves
<1> QED
  BY <1>1, <1>2, LoadLife, CompleteLife
LEMMA DeathLife ==
  ASSUME Inv, Inv', Forward, LifeInv, RequestDies
  PROVE  LifeStep
<1>1. TypeOK
  BY DEF Inv
<1>2. ASSUME NEW b \in Backups, SubmissionDies(b), UNCHANGED restoreVars
      PROVE  LifeStep
  <2>1. /\ submission' = [submission EXCEPT ![b] = "server_error"] /\ UNCHANGED <<backups, keys>>
    BY <1>2 DEF SubmissionDies
  <2>2. submission'[b] = "server_error" /\ \A c \in Backups \ {b} : submission'[c] = submission[c]
    BY <1>1, <2>1 DEF TypeOK, SubmissionTypeOK
  <2>3. RowInHand(b)'
    BY <2>1, <2>2 DEF LifeInv, RowInHand
  <2> QED
    BY <1>1, <1>2, <2>1, <2>2, <2>3, SameKeys, SubmissionLeaves
<1>3. ASSUME NEW x \in Shreds, ShredDies(x), UNCHANGED <<submissionVars, restoreVars>>
      PROVE  LifeStep
  BY <1>3, ShredLeaves DEF ShredDies
<1>4. ASSUME NEW r \in Restores, RestoreDies(r), UNCHANGED submissionVars
      PROVE  LifeStep
  <2>1. /\ restore[r] \in RestoreRunning /\ restore' = [restore EXCEPT ![r] = "server_error"]
        /\ UNCHANGED <<backups, keys, loaded>>
    BY <1>4 DEF RestoreDies
  <2>2. restore'[r] = "server_error" /\ \A s \in Restores \ {r} : restore'[s] = restore[s]
    BY <1>1, <2>1 DEF TypeOK, RestoreTypeOK
  <2> QED
    BY <1>4, <2>1, <2>2, RestoreLeaves
<1> QED
  BY <1>2, <1>3, <1>4 DEF RequestDies

\* What goes on around the requests.
LEMMA AroundLife ==
  ASSUME Inv, Forward, LifeInv,
         (\E v \in Versions : RotateKey(v)) \/ ChangeLevel \/ UNCHANGED vars
  PROVE  LifeStep
<1>1. UNCHANGED <<backups, requestVars>> /\ DestroyedSame
  <2>1. CASE ChangeLevel \/ UNCHANGED vars
    BY <2>1, SameKeys DEF Inv, ChangeLevel, vars, shared
  <2>2. ASSUME NEW v \in Versions, RotateKey(v)
        PROVE  UNCHANGED <<backups, requestVars>> /\ DestroyedSame
    <3>1. UNCHANGED <<backups, requestVars>>
      BY <2>2 DEF RotateKey
    <3> QED
      BY <2>2, <3>1, RotationKeeps DEF Inv
  <2> QED
    BY <2>1, <2>2
<1>2. UNCHANGED <<submission, restore, loaded>>
  BY <1>1 DEF requestVars, submissionVars, restoreVars
<1>3. LifeInv'
  BY <1>1, <1>2 DEF LifeInv, RowInHand, NotLoadedYet
<1>4. Stage' = Stage
  BY <1>2 DEF Stage
<1> QED
  BY <1>1, <1>3, <1>4, RequestsLeave, {} \in SUBSET Restores DEF LifeStep

\* Every request that is under way leaves at once.
LEMMA RestartLife ==
  ASSUME Inv, Inv', Forward, LifeInv, Restart
  PROVE  LifeStep
<1> DEFINE rs == {r \in Restores : restore[r] \in RestoreRunning}
<1>1. /\ submission' = [b \in Backups |->
           IF submission[b] \in SubmissionRunning THEN "server_error" ELSE submission[b]]
      /\ restore' = [r \in Restores |->
           IF restore[r] \in RestoreRunning THEN "server_error" ELSE restore[r]]
      /\ UNCHANGED <<backups, keys, loaded>>
  BY DEF Restart
<1>2. LifeInv'
  <2>1. \A b \in Backups : submission'[b] \in {submission[b], "server_error"}
    BY <1>1
  <2>2. \A r \in Restores : restore'[r] \in {restore[r], "server_error"}
    BY <1>1
  <2> QED
    BY <1>1, <2>1, <2>2 DEF LifeInv, RowInHand, NotLoadedYet
<1>3. ASSUME NEW r \in rs
      PROVE  Stage[r] \in {"asked", "admitted"} /\ Stage'[r] = "refused"
  <2>1. /\ Stage[r] = StageAt(restore[r], loaded[r])
        /\ Stage'[r] = StageAt("server_error", loaded[r])
    BY <1>1 DEF Stage
  <2>2. "server_error" \in RestoreEnded \ {"completed"}
    BY DEF RestoreEnded
  <2> QED
    BY <2>1, <2>2, StageOf
<1>4. \A r \in Restores \ rs : Stage'[r] = Stage[r]
  BY <1>1 DEF Stage
<1>5. [Life!Next]_(Life!vars)
  <2>1. DestroyedSame /\ rs \in SUBSET Restores
    BY <1>1, SameKeys DEF Inv
  <2> HIDE DEF rs
  <2> QED
    BY <1>1, <1>3, <1>4, <2>1, RequestsLeave
<1> QED
  BY <1>2, <1>5 DEF LifeStep

\* Every step is one of BackupLife, or leaves it as it is.
LEMMA NextRefines ==
  ASSUME Inv, LifeInv, [Next]_vars
  PROVE  LifeStep
<1>1. Inv' /\ Forward
  BY StepInv
<1> QED
  BY <1>1, SubmitLife, ShredLife, RestoreLife, DeathLife, AroundLife, RestartLife DEF Next

\* Whatever submissions, crypto-shreds, restores, rotations, faults and restarts
\* interleave, what they do to a backup is what BackupLife allows.
THEOREM ImplementsLife == Spec => ImplementsBackupLife
<1>1. Init => LifeInv /\ Life!Init
  BY LifeInit
<1>2. Inv /\ LifeInv /\ [Next]_vars => LifeInv' /\ [Life!Next]_(Life!vars)
  BY NextRefines DEF LifeStep
<1> QED
  BY <1>1, <1>2, AlwaysInv, PTL DEF Spec, ImplementsBackupLife, Life!Spec

-----------------------------------------------------------------------------
(* What follows from BackupLife alone.                                     *)

\* A closed backup is recorded under a version that is destroyed.
ClosedIsDestroyed ==
  \A b \in Backups : RowStatus[b] = "IRREVERSIBLE" => RowKey[b] \in DestroyedVersions

LEMMA ClosingDestroys ==
  ASSUME ClosedIsDestroyed, [Life!Next]_(Life!vars)
  PROVE  ClosedIsDestroyed'
<1>1. /\ RowStatus = [b \in Backups |-> RowStatus[b]]
      /\ RowKey = [b \in Backups |-> RowKey[b]]
  BY DEF RowStatus, RowKey
<1>2. CASE \/ UNCHANGED Life!vars
           \/ \E bs \in SUBSET Backups : \E rs \in SUBSET Restores : Life!Leave(bs, rs)
           \/ \E r \in Restores : Life!Admit(r) \/ Life!Release(r)
  <2>1. UNCHANGED <<RowStatus, RowKey, DestroyedVersions>>
    BY <1>2 DEF Life!vars, Life!Leave, Life!Admit, Life!Release
  <2> QED
    BY <2>1 DEF ClosedIsDestroyed
<1>3. ASSUME NEW b \in Backups, Life!Begin(b) \/ Life!Activate(b) \/ Life!Fail(b)
      PROVE  ClosedIsDestroyed'
  <2>1. PICK s \in {"PROCESSING", "ACTIVE", "FAILED"} :
          /\ RowStatus' = [RowStatus EXCEPT ![b] = s]
          /\ UNCHANGED <<RowKey, DestroyedVersions>>
    BY <1>3 DEF Life!Begin, Life!Activate, Life!Fail
  <2>2. \A c \in Backups : RowStatus'[c] = "IRREVERSIBLE" => RowStatus[c] = "IRREVERSIBLE"
    BY <1>1, <2>1
  <2> QED
    BY <2>1, <2>2 DEF ClosedIsDestroyed
<1>4. ASSUME NEW b \in Backups, NEW v \in Versions, Life!Assign(b, v)
      PROVE  ClosedIsDestroyed'
  <2>1. /\ RowStatus[b] = "PROCESSING" /\ RowKey' = [RowKey EXCEPT ![b] = v]
        /\ UNCHANGED <<RowStatus, DestroyedVersions>>
    BY <1>4 DEF Life!Assign
  <2>2. \A c \in Backups \ {b} : RowKey'[c] = RowKey[c]
    BY <1>1, <2>1
  <2> QED
    BY <2>1, <2>2 DEF ClosedIsDestroyed
<1>5. ASSUME NEW v \in Versions, NEW bs \in SUBSET Backups, Life!Close(v, bs)
      PROVE  ClosedIsDestroyed'
  <2>1. /\ \A b \in bs : RowKey[b] = v
        /\ RowStatus' = [b \in Backups |-> IF b \in bs THEN "IRREVERSIBLE" ELSE RowStatus[b]]
        /\ DestroyedVersions' = DestroyedVersions \cup {v}
        /\ UNCHANGED RowKey
    BY <1>5 DEF Life!Close
  <2> QED
    BY <2>1 DEF ClosedIsDestroyed
<1> QED
  BY <1>2, <1>3, <1>4, <1>5 DEF Life!Next

\* IRREVERSIBLE says the truth: the key of a backup that is marked so has been
\* destroyed, whichever wiring execute_crypto_shred runs in and wherever it
\* dies.  (The converse fails: see ShredLeavesNoActive.)
THEOREM ClosedAreDestroyed == Spec => []ClosedIsDestroyed
<1>1. Life!Init => ClosedIsDestroyed
  BY DEF Life!Init, ClosedIsDestroyed
<1>2. ClosedIsDestroyed /\ [Life!Next]_(Life!vars) => ClosedIsDestroyed'
  BY ClosingDestroys
<1> QED
  BY <1>1, <1>2, ImplementsLife, PTL DEF ImplementsBackupLife, Life!Spec
=============================================================================
