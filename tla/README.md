# A verification of the Secure Backup Gateway (SSBG)

The gateway takes backups over HTTP, encrypts them under a versioned key, stores them, and restores
them under rules that depend on an incident level; a crypto-shred destroys a key version and with it
every backup under it; an audit log chained by hashes records all of this.
This directory holds TLA+ models of that program (`app/`), the TLC configurations that check them, and
proofs that TLAPS checks.

`tlc -config M.cfg M` makes the passing run of module `M`; a run that finds a violation has its configuration
in `M_<what happens>.cfg`. `tlapm M.tla` checks the proofs of a module `M` whose name ends in `_proofs`, and
those of `AuditChain_refines`. `PROJECT.json` is the index: which definition models which lines, what each run checks,
the hazards and the findings.

## 1. The system

A FastAPI process serves each request as a coroutine of one event loop. A request has one database
session (`api/dependencies.py`, `infrastructure/db/session.py`), shared by its repositories and by its
audit service. Between two awaits a request runs alone; at every await anything else may run. The
tables in PostgreSQL outlive the process; restore tokens, the object storage and (without an audit
counter) the monitoring counters are objects in its memory.

| Component | State | Operations | Talks to |
|---|---|---|---|
| Audit log (`audit_service`, `audit_repository`) | table `audit_log_entries`, UNIQUE `chain_index` | `_persist_entry` behind some twenty `record_*` calls; `validate_chain`; listing, counting | called by everything else, in the caller's session |
| Incident state (`incident_service`, `incident_repository`) | history table `incident_states` | `get_state`, `transition_to` | `PUT /admin/incident`, crypto-shred, restore |
| Key versions (`key_management_service`, `key_versions_repository`, `key_store_fs`) | table `key_versions`, key files | seed, `rotate_active_version`, `get_active_key_material`, `mark_destroyed` | backups, crypto-shred, audit |
| Backup submission (`backup_service`, `backups_repository`) | a row of `backup_metadata`, a stored object | `submit_backup`, `_mark_failed` | policy, audit, keys, storage |
| Crypto-shred (`key_management_service`) | key row and backup rows | `execute_crypto_shred` | MFA, audit, keys, backups, incident state |
| Restore (`restore_service`) | none of its own | `load_restore_metadata` | MFA, backups, policy, audit, incident state, storage, keys, monitoring, tokens |
| Restore tokens (`restore_access_token_service`) | dictionary in memory | issue, validate, purge, count | restore, `GET /restores/access/{token}` |
| Monitoring (`monitoring_service`, `alerts_repository`) | table `alerts` | `process_security_event` | restore, audit |
| Authentication, MFA, policy (`auth_service`, `policy_service`) | table `api_keys` | `authenticate`, `validate_mfa_token`, `authorize`, `evaluate_*` | every request |
| Administration routes (`routes/admin`) | API keys, alerts, policy records | create, revoke, review, update | audit |

What is hard here, and what makes each component correct:

- *Audit log.* Any number of calls append at once, each from a newest row that may be stale by the time
  it commits. The chain must stay one chain, a call must be recorded at most once although it retries
  and although a commit may be durable and still reported as failed, the retries must suffice and must
  end. A validation reads pages while rows are appended.
- *Incident state.* Checking a change and appending it are two steps, and rows count in the order in
  which their transactions began. A change that is allowed when it is checked must be allowed when it
  takes effect; a crypto-shred must bring about LOCKDOWN, or find it; every change must be on record.
- *Key versions.* Rotations, first uses and destructions overlap in sessions that keep row objects as
  they loaded them. A destroyed version must stay destroyed, its material must not be handed out, a
  rotation must take effect.
- *Submission, crypto-shred, restore.* Each is a long sequence of commits with the others in between. A
  row must name the key its object is encrypted under; a destroyed key must take its backups with it; a
  restore must respect a level or a destruction that came while it ran; what is irreversible must be on
  record first; and a failure between two commits must leave nothing that nobody repairs.
- *Tokens.* The boundary second, another principal's attempt, the purge. A token must be good for its own
  principal exactly while it lives.
- *Monitoring.* Events of one burst are counted while others are half-way, over a window that slides, and
  name their alert after one that tumbles; creators of one alert race, and its audit fails after it is
  there. No burst may go unseen, no alert may be unfounded, and no event may undo a review.
- *Authentication, administration.* A key is revoked or expires while requests of it are under way, its row
  is stamped after it was read, and what a change does is committed before it is audited and answered. A
  revoked key must stay revoked, nobody may reach an operation that their key does not entitle them to, and
  an answer must be true.

`PROJECT.json` lists each hazard at its line, with the properties that watch it.

## 2. The modules

| Module | Models |
|---|---|
| `AuditLog` | what an audit call promises its caller: the abstract specification |
| `AuditChain` | `_persist_entry` over `AuditRepository`: read the newest row, commit, retry |
| `AuditChain_proofs` | theorems about `AuditChain` |
| `AuditChain_refines` | the proof that `AuditChain` implements `AuditLog` |
| `AuditValidation` | `validate_chain` on top of `AuditChain`, with out-of-band damage |
| `AuditValidation_proofs` | theorems about `AuditValidation` |
| `IncidentLevels` | the levels and the allowed changes, shared by the next and by the gateway |
| `IncidentState` | `transition_to` and the escalation of a crypto-shred over the history table |
| `KeyVersions` | seeding, rotation, key hand-out, destruction over `key_versions` |
| `KeyVersions_proofs` | theorems about `KeyVersions` |
| `BackupLife` | what the gateway promises about a backup: the abstract specification |
| `GatewayState` | the tables, the storage, the level and the trail that requests share |
| `BackupSubmission` | `submit_backup` |
| `CryptoShred` | `execute_crypto_shred` |
| `RestoreFlow` | `load_restore_metadata` |
| `Gateway` | the three together, with rotations, level changes, faults and restarts |
| `Gateway_proofs` | theorems about `Gateway` |
| `IncidentState_proofs` | theorems about `IncidentState` |
| `Monitoring` | `process_security_event` with the count it takes of the audit log, and the review of alerts |
| `Monitoring_proofs` | theorems about `Monitoring` |
| `AccessState` | the key ids and the clock that API keys and tokens share |
| `AccessPolicy` | the role tables of `PolicyService` |
| `ApiKeys` | `authenticate`, the permission check of the routers, creation and revocation of API keys |
| `RestoreTokens` | `RestoreAccessTokenService` |
| `Access` | the last three together: from the API key to the operation, and the token a restore hands out |
| `Access_proofs` | theorems about `Access` |
| `MCAccess`, `MCMonitoring` | the symmetry of the instances that TLC checks |

State and actions correspond to the code in one way throughout. A request is a member of a constant set
with a program counter, and each of its awaits is one action: the action holds everything the code does
from that await to the next, so a check and an assignment with no await between them are one step, and a
check before an await is separated from the write after it. A commit is visible to all from its action
on. The data are abstracted: ids are model values, a row has the columns the properties tell apart, a
hash is the content it digests (SHA-512 taken as injective), a blob is the key version it is encrypted
under, decryption succeeds exactly under that version.

Some modelling decisions deserve a word.

*Audit calls.* `AuditChain` has every step of one. `GatewayState` has one step for it, `Record`, because
of what `AuditChain` shows: a fail-secure call that returns is on record. What `GatewayState` keeps is
its side effect on the caller. A conflict rolls the shared session back, and a rollback expires the row
objects the session has loaded; reading one later needs a database call outside of an awaitable context
and raises. So wherever the code reads a row object after an audit call, `AfterAudit` lets the request
also end as a 500. Since the audit is not serialised, any such call may meet a conflict.

*Sessions.* A session keeps the object it loaded for a row as long as somebody holds it, and a commit writes
only the columns set to something else than was loaded (the unit of work of SQLAlchemy). In `KeyVersions` this
is what saves a destroyed version from being revived by a stale object (`AfterSetActiveWholeRow` shows it); and
since the object of the version a request goes on with is held, `set_active` does not switch that version off
when the object says it is off already (`SwitchedOff`). In `ApiKeys` the same is said by `Flush`, through which the stamp of a
use and a revocation are committed, each from a row object that may be old: a commit of whole rows would undo a
revocation, or forget a use.

*Times.* `changed_at` in `incident_states` is the database's `now()`, the start of the transaction, so
`IncidentState` gives each request the time it began, and two requests may share a tick.

*Wiring.* `execute_crypto_shred` chooses between one transaction and two commits by looking at the
sessions it was given. `CryptoShred` has both (`"atomic"`, `"stepwise"`) and the one that
`api/dependencies.py` builds (`"application"`), where the session already has a transaction. A behaviour
has one wiring, chosen in `Init` from the constant `Wirings`, and keeps it.

*Coarser in the gateway.* With rotations as single steps at most one version is active in `Gateway`;
`KeyVersions` shows what else is possible. Level changes are single steps there; `IncidentState` has their
races. Every version of the gateway's model has its row from the start.

*Not fail-secure.* The audit of an MFA verdict or of an authentication is best-effort in the code and
leaves no trace in `Gateway` or `Access`; a conflict in it does (a request that loses its principal is a
`Mishap`). Refusals are audited before they are answered, and none of those entries is kept.

*The life of a backup.* `BackupLife` leaves out the requests' steps, the storage, the audit and the level. What it
promises is who may write a backup's status and when: its submission while that is under way, over anything
else, and after that a crypto-shred alone; that it is recorded under one version, once; that it is closed only
with its version destroyed; and that a restore is handed plaintext only after it found the backup ACTIVE and
stored. `Gateway` maps its rows, its destroyed versions and the places of its requests to these
(`ImplementsBackupLife`). What the code does not keep, `BackupLife` allows: a restore once let in may finish after the
version is destroyed, and a submission may turn IRREVERSIBLE into ACTIVE (see the findings).

*Levels in the past.* A restore reads the level once. What that must still achieve is said with the history
variable `calm` of `Gateway`: the restores past their MFA check that were under way at some moment the level
was NORMAL. The history `settled` notes the submissions that were over when a shred looked its version up,
and in `Access` `doomed` notes whether a key was any good when its request arrived, and `issued` what a token
was issued for.

*Slots.* In `Access` a member of `Requests` is a place for one request at a time, free again after its
answer, so any number of requests follow each other; elsewhere each member is one request.

*Seeded keys.* The first API keys come from outside of the program (`Seeded`): active, for good and for any
address. A role is given once; no endpoint changes one.

*Addresses.* `allowed_ips` is an `INET[]`, which the driver returns as address objects. `authenticate` compares
them with the client's address, a string, so a key that lists an address admits nobody; and the answer of
its creation, which asks for strings, fails after the commit and the audit. `ApiKeys` has both, as it has
what they lead to.

*Monitoring.* An event starts with the audit entry it records, dated before its commit and dated again after
a conflict, because the entry is what a later event counts. The count in memory, for an audit service that
cannot count, is for the doubles of the tests and is left out.

*Mistakes.* A definition under a comment "Mistake:" is used by nothing. It is the definition that follows
it with an error a programmer could make, and the `mutants` of `PROJECT.json` say which property fails
when the one takes the place of the other. They are the evidence that the properties look at the code.

## 3. The runs

### What holds

| Run | Module | Bounds | Shows |
|---|---|---|---|
| `append` | `AuditChain` | 3 calls, 2 attempts | with errors and crashes anywhere the chain stays one chain, a call is recorded at most once, conflicts mean progress, calls end, and callers see `AuditLog` |
| `validation` | `AuditValidation` | 3 calls, pages of 2, 2 damages | no false alarm, no earlier damage missed, no row skipped, and a verdict although rows are appended |
| `incident` | `IncidentState` | 2 changes, 1 escalation, 1 failure | a change that nobody overtook is right; a shred ends under LOCKDOWN unless its own row was overtaken |
| `keys` | `KeyVersions` | 2 versions, none registered, 2 rotations, 1 backup, 1 shred, 1 failure | destroyed stays destroyed, no destroyed material is handed out, an undisturbed rotation wins |
| `gateway` | `Gateway` | 1 backup, 2 versions, 1 shred in each wiring, 1 restore, 1 fault, 1 restart | the long flows together: the recorded key opens the object, evidence comes first, a shred takes its backups along, and together they treat a backup as `BackupLife` says |
| `access` | `MCAccess` | 2 keys (1 seeded) of 2 roles, 2 slots, 2 tokens, ttl 0 to 2, time 0 and 1, 1 error, conflict or restart | nobody gets in who is not entitled, a revoked key stays revoked and a use on its row, answers are true, tokens are good exactly while and to whom they should be |
| `monitoring` | `MCMonitoring` | 3 events, 2 actors, a source with a rule and one without, threshold 2, window 2, time 0 to 3, 1 review, 1 failure | no unfounded alert, no burst unseen, alerts a window apart, no review undone |

Bounds are named: `MaxAttempts` (10 in the code), `PageSize` (1000), `MaxDamages`, `Dropped` (requests that
fail half-way), `MaxFaults`, `MaxRestarts`, `MaxMishaps`, `MaxTime`, and the small `Threshold` (3), `Window` (10) and `Hour` (60).
What counts is the behaviour at the limit, and a
small value reaches it: with three calls and two attempts a call can lose to two rivals and give up. Three
calls are enough for a conflict to be followed by another, against a different rival, and for a stale
cursor to outlive two commits. Pages of two rows with three calls put a boundary before, between and
behind appended rows. Calls that fail are left out of the validation, because to a reader of the table they
look like a call still to come or one that returned. Two rotations are the least that can race; three
versions are needed only where both of two rotations away from a third one win (`keys_two_active`). One
fault is enough to interrupt any flow anywhere. One backup and one shred are enough for the gateway: rows
of different backups meet only in a shred, and every property speaks of each backup by itself; what two shreds of one version, or many, do to each other
is left to the theorems, since a second shred makes the instance too large to exhaust. With two slots and two keys one request can revoke or
create the key another is using, in any place of its program; an admin and an operator are both sides of
every role table; a second key that expires at 1, seen at times 0 and 1, has the last second it is good and the
boundary second, and so has a token issued at 0 with a ttl of 0, which counts as 1, or of 1; one with a ttl of 2
lives on at 1. Three events
are one more than the threshold, so that a burst can be counted by none, one or all of its events and a
third can find the alert, or make a second one beyond the boundary of the grid between minutes 1 and 2.
The members of `Requests`, `Tokens`, `Events` and `Actors` are alike and the two runs are symmetric in them;
neither has a liveness property, for which symmetry would not be sound. Deadlock is
not checked where a configuration says so, because there every request ends and the model, like an idle
server, has nothing left to do.

### What the code does not keep

A run of the second kind states what a document, a story or a test of the repository says, and TLC finds
the execution that breaks it. Each is a finding in `PROJECT.json` with its quotation.

| Run | Property | What happens |
|---|---|---|
| `incident_overtaken` | `TransitionsFollowRules` | two allowed changes overtake each other and together go along an edge that is forbidden |
| `keys_two_active` | `AtMostOneActive` | two rotations, two active versions |
| `gateway_restored` | `DestroyedIsNeverRestored` | a restore under way outlives the shred of its key |
| `gateway_overtaken` | `ShredLeavesNoActive` | a submission under way writes ACTIVE after the shred |
| `gateway_application` | `ShredTakesEffect` | as wired, a shred fails at `begin()` |

Where a promise is broken the project also states what is kept instead: a change of level that nobody
overtook is right (`UncontestedChangeTakesEffect`), a rotation that nobody interfered with wins
(`UncontestedRotationWins`), a completed shred has closed every backup whose submission was over
(`CompletedShredClosesBackups`), a restore decrypts only if the level was NORMAL at some moment while it was under
way (`RestrictedIsNeverRestored`), a crypto-shred ends under LOCKDOWN unless its own row was overtaken
(`ShredLocksDownUnlessOvertaken`), and a conflict in the audit log, which turns the answer of a request into a
500, costs nothing but the answer (`ConflictsCostTheAnswer`).

`DestroyedWithItsBackups` has a condition, `Alone`: no other shred is after the same version. Two shreds of one
version that overlap may both find it alive; the second to look has seen more settled backups than
the first, which commits the destruction first, and until the second commits these backups are open under a
destroyed key. That each completed shred has closed its own backups holds for any number of them.

That exception is a disagreement too: docs/SSBG_ARCHITECTURE.md:1632-1634 has a shred "Set Level 3 (permanent)".
A shred whose transaction began before that of a change to QUARANTINE, and which commits its row after it,
reports `escalated_to_lockdown`, and its row, being the older one by `changed_at`, never comes into force. It is the
cause that `incident_overtaken` shows; without its second disjunct `ShredLocksDownUnlessOvertaken` has this execution as
its counterexample.

Other disagreements are plain from reading one function and have no run; they are listed as hazards:
LOCKDOWN can be left by a legal call, although the architecture says "NO RETURN"; a change of level stays
when its audit fails; the seed version is activated again although it may be destroyed, and the request is
then refused its material; a submission never reads the level, and a restore reads it once; a crash
between the two commits of the stepwise shred leaves backups open under a destroyed key and a retry is
refused; the stored objects are lost with the process while their rows stay ACTIVE. A burst of events that crosses
a boundary of the grid raises two alerts (`AlertsAreApart` says no more than that they are a window apart);
of two creators of one alert the second gets an `IntegrityError` that nobody handles, and its request, a
restore that was refused for good reason, answers 500; an alert whose audit failed is never audited
(`UnauditedMeansFailed`). A key created with addresses is stored and audited and answered by a 500, it admits
nobody, and the list of keys fails from then on, while docs/SSBG_PRD_v2 (1).md:843 says of listed addresses "If
set, only requests from listed IPs are accepted".

### Fairness

The event loop goes on running a coroutine that can take its next step, and an await on the database
comes back, with an answer or an error. So in `AuditChain` and `AuditLog` each call has
weak fairness on its own steps, and nothing else has fairness: not the arrival of requests, not failures,
not the clock. `AuditValidation` has fairness of the scan alone; a scan ends because the calls that could
append are finitely many (in the program, because it outruns them). `IncidentState`, `KeyVersions`,
`Gateway`, `Monitoring` and `Access` are checked for safety only: their flows have no loop and wait for no other request,
so that they end says nothing.

## 4. The proofs

`AuditChain_proofs` proves, for any finite set of calls, any subset of them fail-secure and any number of
attempts, with the assumptions of `AuditChain` alone:

| Theorem | Statement |
|---|---|
| `Invariance` | the inductive invariant `Inv` always holds |
| `TypeCorrect` | `Spec => []TypeOK` |
| `ChainIsContinuous` | `Spec => []ChainContinuity` |
| `AtMostOnce` | `Spec => []RecordedAtMostOnce` |
| `ReturnedMeansRecorded` | `Spec => []ReturnedIsRecorded` |
| `ConflictsAreProgress` | `Spec => []ConflictsMeanProgress` |
| `NoExhaustion` | `Spec => []NoCallExhausted` |
| `AppendsOnly` | `Spec => AppendOnly` |

None of the properties is inductive. That the chain continues after a commit depends on the cursor the
row was built from: it must be the empty one or that of a row that is still there (`CursorsSound`), and
the place behind it must be free while every place before it is taken (`Gapless`), so that a free place is
the place behind the newest row. That a call leaves one row depends on which places of its program it
can have a row at (`RowsOfCalls`). That a conflict means progress is a counting argument: a call with `k`
conflicts has every place from 1 to `k` taken (`ConflictsCounted` and `Gapless`), because it read the newest
row after the conflicts it already had and the row it then met lies beyond; if it has a row of its own,
that one lies beyond them too. So the places inject into the rows of others, and these, one for each call
at most, into the other calls. `NoExhaustion` is the corollary: with no more concurrent calls than
attempts, contention alone makes nobody give up. 
`Inv` is the conjunction of these and the
properties it makes inductive. Its proof has one lemma for each action; the counting uses finite cardinalities (`FiniteSetTheorems`).

`AuditChain_refines` proves `ImplementsLog`: `Spec` implies `Abstract!Init /\ [][Abstract!Next]_(Abstract!vars)`.
The refinement mapping reads the abstract log off the places of the rows, so it needs them to be the numbers
from 1 to the number of rows (`PlacesAreCounted`): there is a newest row (`HasNewest`, an invariant of its
own), and the places up to it are in bijection with the rows. Then a commit appends one call to the log
(`CommitAppends`), a refresh is a return, an error or a last conflict is a refusal, and the other steps
change nothing that the abstract log has.

`AuditValidation_proofs` proves, for any calls, any page length and any bound on the damages:

| Theorem | Statement |
|---|---|
| `ScanInvariance` | the inductive invariant `ScanInv` always holds |
| `NoAlarmOnAppends` | `ValidationSpec => []NoFalseAlarm` |
| `ValidVerdictIsComplete` | `ValidationSpec => []ValidCoversBaseline` |
| `DamageNeverPasses` | `ValidationSpec => []DamageIsFound`, if `NoHash` and `Garbage` are digests of nothing |

While nothing is damaged, `Inv` of `AuditChain_proofs` holds, and its `NextInv` is cited for every step of a call.
`Scanned` says what the scan knows: every place up to its offset is taken, and the rows there continue one
another. A page is what ORDER BY, OFFSET and LIMIT leave (`PageRows`), and a row's rank there equals its
`chain_index` only as long as no place before it is free; both are counting arguments (`EveryPosition`,
`PrefixCount`). Appends cannot disturb what was seen, because no place before the offset is free
(`ScannedStable`). An empty page then means that all rows have been seen (`EmptyPageNoDefect`).

That damage is found needs more: the table must still be damaged when the scan comes by. `Defect` names the
three things to be found (a row that does not hash to its `entry_hash`, a free place before a row, a row that
does not follow the one before it), and each damage leaves one of the first two, since a row digested what it held and
Garbage never does (`RowsTraceable`, `AlteredMalformed`). A commit cannot repair it. That is not
obvious for a lost row, whose place a call with a stale cursor may take: then the row behind the place names
the hash of a row committed before, and no committed row has the hash of this one (`HashesSettled`,
`PersistEntryDefect`).

An earlier form of `DamageIsFound`, that a chain damaged before the start never passes at all, is false, and two
damages show it: with the newest row altered, a row lost before the offset while the scan runs moves the
altered one to a rank the scan has passed. So the property asks that nothing is damaged during the scan.

`KeyVersions_proofs` proves, for any versions, key files, registered versions and requests, with the
assumptions of `KeyVersions` alone:

| Theorem | Statement |
|---|---|
| `TypeCorrect` | `Spec => []TypeOK` |
| `DestructionIsForever` | `Spec => DestroyedIsForever` |
| `NoDestroyedMaterial` | `Spec => MaterialNeverDestroyed` |
| `RotationWins` | `Spec => UncontestedRotationWins` |

The invariant adds to the type what a request may still rely on when it writes: the row it loaded
is there, and so are the rows it found active (`WrittenRowsExist`); the target of a rotation was not destroyed
when it was loaded (`TargetsLoadedAlive`), which is all that is true of it later. It survives the others'
commits because each of them keeps every row and every destruction (`TableKept`), however old the object it
writes; that lemma is also the proof of `DestructionIsForever`.

`IncidentState_proofs` proves, for any number of changes and escalations:

| Theorem | Statement |
|---|---|
| `TypesHold` | `Spec => []TypeOK` |
| `ShredLocksDown` | `Spec => ShredLocksDownUnlessOvertaken` |
| `UncontestedChangeWins` | `Spec => UncontestedChangeTakesEffect` |

The level is the row that counts after all others, and rows count by a time, with ties. That some row does
(`Counts`) is part of the invariant: an appended row either counts after the one that did, or that one goes
on counting. A row that no other overtook counts (`NotOvertakenCounts`), the row of a shred as well as that of a
change. For the shred whose change is denied the rules are needed: LOCKDOWN is allowed from every level but
itself, so the denial is raised under LOCKDOWN.

`Monitoring_proofs` proves, for any events, actors, rules, threshold, window that divides the hour, and times:

| Theorem | Statement |
|---|---|
| `TypesHold` | `Spec => []TypeOK` |
| `AlertsAreFounded` | `Spec => []NoFalseAlert` |
| `BurstsAreSeen` | `Spec => []NoMissedBurst` |
| `AlertsDoNotCrowd` | `Spec => []AlertsAreApart` |
| `AlertsAreOnRecord` | `Spec => []UnauditedMeansFailed` |
| `ReviewsLast` | `Spec => ReviewsSurviveEvents` |

That no burst goes unseen is an argument about the event that is counted last: every other one of the burst is on
record by then and inside its window, so it counts enough. The invariant says so of every set of events at
once (`SeenBy`): a burst of which all have been counted has a member that is on its way to an alert or finds
one. `AlertsDoNotCrowd` is the arithmetic of `_window_bucket`: two minutes rounded down to different multiples of the
window, within an hour or across hours, are a window apart.

`Access_proofs` proves, for any keys, roles, expiries, tokens, times to live and number of slots:

| Theorem | Statement |
|---|---|
| `TypesHold` | `Spec => []TypeOK` |
| `OnlyEntitledGetIn` | `Spec => []AdmittedIsEntitled` |
| `AnswersCanBeReliedOn` | `Spec => []AnswersAreTrue` |
| `TokensOpenOnlyTheirOwn` | `Spec => []TokensAreGood` |
| `RevokedForGood` | `Spec => RevocationIsForever` |
| `UsesLast` | `Spec => UsesAreNotLost` |

The invariant has a part about keys (`KeysInv`) and one about tokens (`TokensInv`). What a request read of its row may be
old, but a row is never lost, keeps all its columns but two, and a key never gets better nor a use forgotten
(`TableKept`, `NoGood`): what was no good on arrival is refused later. A revocation that writes nothing,
because its row object says the key is revoked already, is one of a row that says so too (`RequestOK`). A record of a token says what the token was issued
for, and a token without a record is dead; hence it is granted exactly while it should be.

`Gateway_proofs` proves, for any submissions, versions, shreds, restores, faults and restarts, in every wiring, all
that the run `gateway` checks:

| Theorem | Statement |
|---|---|
| `TypesHold` | `Spec => []TypeOK` |
| `RowsNameTheirKey` | `Spec => []RecordedKeyOpensObject` |
| `RestoredWereActive` | `Spec => []OnlyActiveIsRestored` |
| `EvidencePrecedes` | `Spec => []EvidenceComesFirst` |
| `NoneLeftProcessing` | `Spec => []OnlyFaultsLeaveProcessing` |
| `ConflictsLeaveWholes` | `Spec => []ConflictsCostTheAnswer` |
| `RestorersSawNormal` | `Spec => []RestrictedIsNeverRestored` |
| `CompletedMeansClosed` | `Spec => []CompletedShredClosesBackups` |
| `ShredIsOnePiece` | `Spec => []DestroyedWithItsBackups` |
| `SettledStaySettled` | `Spec => SettledStatusIsFinal` |
| `ImplementsLife` | `Spec => ImplementsBackupLife` |
| `ClosedAreDestroyed` | `Spec => []ClosedIsDestroyed` |

The invariant says of each place of each kind of request what is known there (`SubmissionOK`, `ShredOK`, `RestoreOK`): what is
on record, which fields of the row are set, which backups are closed or linked. What a request knows of
another's state is old, and survives for one reason: `Forward`, the facts that no step of anybody takes back (the
trail, a recorded version, a destruction, the end of a submission, a status that is final). So each step is
shown to establish what its own request must know next and to go forward, and the requests that did not
move keep what they know (`SubmissionKept`, `ShredKept`, `RestoreKept`). The one thing that is not kept by going forward is a
key destroyed by another shred of the same version, and that is where `Alone` is needed.

The refinement needs a second invariant beside that one (`LifeInv`): what a submission knows of the row it is about to
write, which no shred can undo before the row is tagged with a version, and only in one way afterwards. A step
of the gateway is then one of `BackupLife`: the writes of a submission are `Begin`, `Assign`, `Activate` and `Fail`, the commits of
a shred are `Close`, the load of an ACTIVE row is `Admit`, the completion of a restore is `Release`; every other step is
a `Leave` of the requests that end in it, none, one or (a restart) all. `ClosedAreDestroyed` is then proved from
`BackupLife` alone, without the gateway's steps. `SettledStatusIsFinal` and `ClosedIsDestroyed` are
stated in `Gateway_proofs`.

Only model-checked: liveness (`EveryCallEnds`, `ValidationEnds`, and the fairness of `AuditLog`), because the prover does no fairness and no ENABLED. Induction over data and
`RECURSIVE` operators are beyond the prover, and the modules use neither.

## 5. What is not modelled

- Policy records: a list that one endpoint appends to and another reads. No decision consults it.
- Listing and summary endpoints, and the reader of crypto-shred outcomes: they read and change nothing.
- The check of an MFA token: its verdict is a free choice in a shred and in a restore, since the token comes
  with the request and nothing is remembered of it. What holds holds for any verdict.
- The decision of the policy in `Gateway` is a free choice too; `Access` has the tables.
- Parsing (of a key file as well), schemas, error texts, configuration, health probes, migrations: no state,
  or none that changes.
- Encryption itself, SQL and the session: taken from their documented behaviour as described above.
- The placeholders (`restores_repository`, workers, rate limiting, ECIES, metrics): nothing calls them.

## 6. Plan

1. *Done:* audit append and validation, incident state, key versions, the gateway's three flows, monitoring
   and the review of alerts, authentication, authorization, API keys and restore tokens; proofs of every
   safety property that a run checks, and of both refinements.
2. *Composition*: the tokens of `Access` handed out by the restores of `Gateway`; the audit's step in the
   gateway by the steps of `AuditChain`.
3. *Abstract specifications* of the other tables that several requests write: the levels of `IncidentState`, the
   versions of `KeyVersions`.
4. *Larger instances*: two backups and two shreds in `Gateway` beside the theorems, without symmetry.
