----------------------------- MODULE KeyVersions -----------------------------
(***************************************************************************)
(* The life of key versions: KeyManagementService over                     *)
(* KeyVersionsRepository and FileSystemKeyStore, with three kinds of       *)
(* concurrent requests: rotations, backups that ask for the active key's   *)
(* material, and the key half of crypto-shreds.                            *)
(*                                                                         *)
(* Each await is a step.  Every request has a database session of its own, *)
(* and a session keeps the object it first loaded for a row: a later       *)
(* SELECT of that row returns the object as it was loaded, and a commit    *)
(* writes only the columns set to something else than was loaded.          *)
(* Crypto-shreds take the path that commits the key by itself; the module  *)
(* CryptoShred has the others.                                             *)
(***************************************************************************)
EXTENDS Naturals, FiniteSets

CONSTANTS Versions,       \* version ids
          SeedVersion,    \* FileSystemKeyStore._active_version (P-001)
          KeyFiles,       \* versions whose material is in the key store
          Rotations,      \* calls of rotate_active_version
          Backups,        \* calls of get_active_key_material
          Shreds,         \* calls of execute_crypto_shred, checks passed
          Registered,     \* versions that have a row at the start
          NoVersion,
          Dropped         \* bound: how many requests may fail or crash

Requests == Rotations \cup Backups \cup Shreds

ASSUME VersionsAssumption ==
  /\ SeedVersion \in Versions /\ NoVersion \notin Versions
  /\ KeyFiles \subseteq Versions /\ Registered \subseteq Versions
ASSUME RequestsAssumption ==
  /\ IsFiniteSet(Requests)
  /\ Rotations \cap Backups = {} /\ Rotations \cap Shreds = {} /\ Backups \cap Shreds = {}

ASSUME DroppedAssumption == Dropped \in Nat

VARIABLES keys,      \* the table key_versions; only registered versions have a row
          clock,     \* the gateway's clock
          pc,        \* where each request is
          target,    \* the version each request was asked to activate or destroy
          current,   \* the active version each request goes on with, and its object
          loaded,    \* the object of the row about to be written, as loaded
          actives,   \* the versions set_active found active, and when
          result,    \* how each request ended
          dropped    \* how many requests failed or crashed

vars == <<keys, clock, pc, target, current, loaded, actives, result, dropped>>

KeyRows ==
  [registered : BOOLEAN, active : BOOLEAN, destroyed : BOOLEAN, activated_at : Nat]
NoRow == [registered |-> FALSE, active |-> FALSE, destroyed |-> FALSE, activated_at |-> 0]
NewRow == [NoRow EXCEPT !.registered = TRUE]

NotSelected == [found |-> {}, now |-> 0]
NoCurrent == [version |-> NoVersion, active |-> FALSE]

Results == {"none", "ok", "no_state_change", "key_material_missing", "target_destroyed",
            "destroyed_active_key", "key_not_found", "already_destroyed", "server_error"}

-----------------------------------------------------------------------------
(* The table.                                                              *)

ActiveVersions == {v \in Versions : keys[v].registered /\ keys[v].active}

\* get_active: the active version activated last, if any.  Rows of the same
\* activated_at may come in either order.
GetActive ==
  IF ActiveVersions = {} THEN {NoVersion}
  ELSE {v \in ActiveVersions : \A w \in ActiveVersions : keys[w].activated_at <= keys[v].activated_at}

\* The versions that set_active switches off: those it found active, less the
\* one whose object the session holds already, and holds as inactive.
SwitchedOff(r) == {w \in actives[r].found : w = current[r].version => current[r].active}

\* Mistake: the whole row is written back as it was loaded.
AfterSetActiveWholeRow(r, v) ==
  [w \in Versions |->
     IF w = v
     THEN [loaded[r] EXCEPT !.active = TRUE, !.activated_at = actives[r].now]
     ELSE IF w \in SwitchedOff(r) THEN [keys[w] EXCEPT !.active = FALSE] ELSE keys[w]]

\* Mistake: the version that was active stays so.
AfterSetActiveOnly(r, v) ==
  [keys EXCEPT ![v].active = TRUE, ![v].activated_at = actives[r].now]

\* The commit that ends set_active(v): versions found active are switched off,
\* v is switched on unless its object already said so when it was loaded.
AfterSetActive(r, v) ==
  [w \in Versions |->
     IF w = v
     THEN [keys[v] EXCEPT !.active = IF loaded[r].active THEN @ ELSE TRUE,
                          !.activated_at = actives[r].now]
     ELSE IF w \in SwitchedOff(r) THEN [keys[w] EXCEPT !.active = FALSE] ELSE keys[w]]

\* The commit that ends mark_destroyed(v).
AfterMarkDestroyed(r, v) ==
  [keys EXCEPT ![v].destroyed = TRUE,
               ![v].active = IF loaded[r].active THEN FALSE ELSE @]

-----------------------------------------------------------------------------
(* Steps.                                                                  *)

Init ==
  /\ keys = [v \in Versions |->
               IF v \in Registered
               THEN [NewRow EXCEPT !.active = (v = SeedVersion)] ELSE NoRow]
  /\ clock = 1
  /\ pc = [r \in Requests |-> IF r \in Shreds THEN "lookup" ELSE "get_active"]
  /\ target \in [Requests -> Versions]
  /\ \A r \in Backups : target[r] = SeedVersion
  /\ current = [r \in Requests |-> NoCurrent]
  /\ loaded = [r \in Requests |-> NoRow]
  /\ actives = [r \in Requests |-> NotSelected]
  /\ result = [r \in Requests |-> "none"]
  /\ dropped = 0

\* What r has read for a commit is of no use after it.
Forget(r) ==
  /\ loaded' = [loaded EXCEPT ![r] = NoRow]
  /\ actives' = [actives EXCEPT ![r] = NotSelected]

End(r, res) ==
  /\ pc' = [pc EXCEPT ![r] = "end"]
  /\ result' = [result EXCEPT ![r] = res]
  /\ Forget(r)

Goto(r, place) == pc' = [pc EXCEPT ![r] = place] /\ UNCHANGED result

\* r goes on with nothing read.
Move(r, place) == Goto(r, place) /\ UNCHANGED <<loaded, actives>>

\* Mistake: a version that is active is taken to be usable.
SeedOutcomeUnchecked(version) ==
  IF version \notin KeyFiles THEN "key_material_missing" ELSE "ok"

\* get_active_key_material, from the active version on.
SeedOutcome(version) ==
  IF keys[version].destroyed THEN "destroyed_active_key"
  ELSE IF version \notin KeyFiles THEN "key_material_missing"
  ELSE "ok"

\* What follows _ensure_active_seed, in the step that reads the row of the
\* active version.
AfterSeed(r, version) ==
  /\ current' = [current EXCEPT ![r] = [version |-> version, active |-> keys[version].active]]
  /\ IF r \in Backups THEN End(r, SeedOutcome(version))
     ELSE IF version = target[r] THEN End(r, "no_state_change")
     ELSE IF target[r] \notin KeyFiles THEN End(r, "key_material_missing")
     ELSE Move(r, "lookup")

\* get_active finds an active version; if it finds none, the seed version
\* must be activated first, and needs its key file.
GetActiveVersion(r) ==
  /\ pc[r] = "get_active"
  /\ \E v \in GetActive :
       IF v # NoVersion THEN AfterSeed(r, v)
       ELSE /\ IF SeedVersion \in KeyFiles THEN Move(r, "seed_lookup")
               ELSE End(r, "server_error")
            /\ UNCHANGED current
  /\ UNCHANGED <<keys, clock, target>>

\* Mistake: the version is taken to be registered.
LookupWithoutCreate(r, v, here, create, write) ==
  /\ pc[r] = here
  /\ loaded' = [loaded EXCEPT ![r] = keys[v]]
  /\ Goto(r, write)
  /\ UNCHANGED <<keys, clock, target, current, actives>>

\* get_by_version_id of the seed version, or of a rotation's target.
Lookup(r, v, here, create, write) ==
  /\ pc[r] = here
  /\ loaded' = [loaded EXCEPT ![r] = keys[v]]
  /\ Goto(r, IF keys[v].registered THEN write ELSE create)
  /\ UNCHANGED <<keys, clock, target, current, actives>>

LookupSeed(r) == Lookup(r, SeedVersion, "seed_lookup", "seed_create", "seed_select")

\* create_version up to its commit; the refresh that follows reads the row as
\* the lookup did, so the request goes back to it.  The UNIQUE constraint on
\* version_id makes the later of two inserts fail, which nobody catches.
Create(r, v, here, back) ==
  /\ pc[r] = here
  /\ IF keys[v].registered
     THEN End(r, "server_error") /\ UNCHANGED keys
     ELSE keys' = [keys EXCEPT ![v] = NewRow] /\ Move(r, back)
  /\ UNCHANGED <<clock, target, current>>

CreateSeed(r) == Create(r, SeedVersion, "seed_create", "seed_lookup")

\* set_active up to its commit: take the time and select the active rows.
SelectActives(r, here, commit) ==
  /\ pc[r] = here
  /\ actives' = [actives EXCEPT ![r] = [found |-> ActiveVersions, now |-> clock]]
  /\ clock' = clock + 1
  /\ Goto(r, commit)
  /\ UNCHANGED <<keys, target, current, loaded>>

SelectSeedActives(r) == SelectActives(r, "seed_select", "seed_commit")

CommitSeed(r) ==
  /\ pc[r] = "seed_commit"
  /\ keys' = AfterSetActive(r, SeedVersion)
  /\ Goto(r, "seed_refresh")
  /\ Forget(r)
  /\ UNCHANGED <<clock, target, current>>

\* What became of the seed version meanwhile is what the caller goes on with.
RefreshSeed(r) ==
  /\ pc[r] = "seed_refresh"
  /\ AfterSeed(r, SeedVersion)
  /\ UNCHANGED <<keys, clock, target>>

\* A rotation looks its target up; a destroyed one is refused.
LookupTarget(r) ==
  /\ r \in Rotations
  /\ IF keys[target[r]].destroyed
     THEN /\ pc[r] = "lookup"
          /\ End(r, "target_destroyed")
          /\ UNCHANGED <<keys, clock, target, current>>
     ELSE Lookup(r, target[r], "lookup", "create", "select")

CreateTarget(r) == Create(r, target[r], "create", "lookup")

SelectTargetActives(r) == SelectActives(r, "select", "commit")

CommitRotation(r) ==
  /\ r \in Rotations
  /\ pc[r] = "commit"
  /\ keys' = AfterSetActive(r, target[r])
  /\ Goto(r, "audit")
  /\ Forget(r)
  /\ UNCHANGED <<clock, target, current>>

\* The refresh, record_key_rotation, which is fail-secure, and the answer,
\* which cannot be read from the row once a conflict has rolled back.
RecordRotation(r) ==
  /\ r \in Rotations
  /\ pc[r] = "audit"
  /\ \E outcome \in {"ok", "server_error"} : End(r, outcome)
  /\ UNCHANGED <<keys, clock, target, current>>

\* A crypto-shred looks its target up: it must exist and not be destroyed.
LookupVictim(r) ==
  /\ r \in Shreds
  /\ pc[r] = "lookup"
  /\ IF ~keys[target[r]].registered THEN End(r, "key_not_found")
     ELSE IF keys[target[r]].destroyed THEN End(r, "already_destroyed")
     ELSE /\ loaded' = [loaded EXCEPT ![r] = keys[target[r]]]
          /\ Goto(r, "commit")
          /\ UNCHANGED actives
  /\ UNCHANGED <<keys, clock, target, current>>

CommitDestruction(r) ==
  /\ r \in Shreds
  /\ pc[r] = "commit"
  /\ keys' = AfterMarkDestroyed(r, target[r])
  /\ End(r, "ok")
  /\ UNCHANGED <<clock, target, current>>

EnsureActiveSeed(r) ==
  \/ GetActiveVersion(r) \/ LookupSeed(r) \/ CreateSeed(r)
  \/ SelectSeedActives(r) \/ CommitSeed(r) \/ RefreshSeed(r)

Rotate(r) ==
  \/ LookupTarget(r) \/ CreateTarget(r)
  \/ SelectTargetActives(r) \/ CommitRotation(r) \/ RecordRotation(r)

Destroy(r) == LookupVictim(r) \/ CommitDestruction(r)

Step(r) ==
  /\ EnsureActiveSeed(r) \/ Rotate(r) \/ Destroy(r)
  /\ UNCHANGED dropped

\* A database error or a crash at any await.
Drop(r) ==
  /\ dropped < Dropped
  /\ pc[r] # "end"
  /\ dropped' = dropped + 1
  /\ End(r, "server_error")
  /\ UNCHANGED <<keys, clock, target, current>>

Next == \E r \in Requests : Step(r) \/ Drop(r)

Spec == Init /\ [][Next]_vars

-----------------------------------------------------------------------------
(* Properties.                                                             *)

\* The state has its type, and nothing is written to a row that is not there.
TypeOK ==
  /\ keys \in [Versions -> KeyRows]
  /\ \A v \in Versions : ~keys[v].registered => keys[v] = NoRow
  /\ clock \in Nat
  /\ pc \in [Requests -> {"get_active", "seed_lookup", "seed_create", "seed_select",
                          "seed_commit", "seed_refresh", "lookup", "create", "select", "commit",
                          "audit", "end"}]
  /\ target \in [Requests -> Versions]
  /\ current \in [Requests -> [version : Versions \cup {NoVersion}, active : BOOLEAN]]
  /\ loaded \in [Requests -> KeyRows]
  /\ actives \in [Requests -> [found : SUBSET Versions, now : Nat]]
  /\ result \in [Requests -> Results]
  /\ dropped \in 0..Dropped

\* No request brings a destroyed version back by writing an object it loaded
\* before the destruction: set_active and mark_destroyed overlap freely.
DestroyedIsForever ==
  [][\A v \in Versions : keys[v].destroyed => keys'[v].destroyed]_vars

\* A backup is never handed the material of a version that is destroyed at
\* that moment, also when it had to activate the seed version first.
MaterialNeverDestroyed ==
  [][\A b \in Backups :
       result[b] # "ok" /\ result'[b] = "ok" => ~keys'[current'[b].version].destroyed]_vars

\* Nothing that r has read of the rows it is about to write has changed since.
Undisturbed(r) ==
  /\ loaded[r] = keys[target[r]]
  /\ actives[r].found = ActiveVersions
  /\ current[r].version \in ActiveVersions => current[r].active

\* A rotation that nobody interfered with between its reads and its commit
\* leaves its target, and nothing else, active and not destroyed, whatever
\* earlier races left behind; backups get that version from then on.
UncontestedRotationWins ==
  [][\A r \in Rotations :
       CommitRotation(r) /\ Undisturbed(r) =>
         /\ ActiveVersions' = {target[r]}
         /\ ~keys'[target[r]].destroyed
         /\ GetActive' = {target[r]}]_vars

-----------------------------------------------------------------------------
(* What the documents say, and the code does not keep.                     *)

\* Rotation retires every version but its target.
AtMostOneActive ==
  (\A r \in Requests : pc[r] = "end") => Cardinality(ActiveVersions) <= 1
=============================================================================
