----------------------------- MODULE CryptoShred -----------------------------
(***************************************************************************)
(* POST /admin/keys/versions/{id}/crypto-shred:                            *)
(* KeyManagementService.execute_crypto_shred, one step for each await.     *)
(*                                                                         *)
(* The wiring says which of its two ways to destroy a key a shred takes:   *)
(*   "stepwise"    the repositories share no session (the doubles of the   *)
(*                 tests): the key is committed first, then the backups;   *)
(*   "atomic"      they share a session with no transaction begun: one     *)
(*                 transaction for both;                                   *)
(*   "application" api/dependencies.py: they also share it with the audit  *)
(*                 log, whose refresh has begun a transaction by then, and *)
(*                 the session refuses to begin another.                   *)
(***************************************************************************)
EXTENDS GatewayState

CONSTANTS Shreds,   \* calls of execute_crypto_shred
          Wirings   \* the wirings to be looked at

ASSUME WiringsAssumption == Wirings \subseteq {"stepwise", "atomic", "application"}

VARIABLES wiring,   \* how the application is put together, once and for all
          shred,    \* where each shred is
          victim,   \* the version each shred is to destroy
          linked    \* the backups each shred will set to IRREVERSIBLE

shredVars == <<wiring, shred, victim, linked>>

ShredRunning ==
  {"authorize", "start", "begin", "lookup", "destroy", "select", "mark", "escalate",
   "effect", "complete", "deny"}
ShredEnded == {"denied", "completed", "server_error"}

ShredInit ==
  /\ wiring \in Wirings
  /\ shred = [x \in Shreds |-> "authorize"]
  /\ victim \in [Shreds -> Versions]
  /\ linked = [x \in Shreds |-> {}]

ShredTypeOK ==
  /\ wiring \in Wirings
  /\ shred \in [Shreds -> ShredRunning \cup ShredEnded]
  /\ victim \in [Shreds -> Versions]
  /\ linked \in [Shreds -> SUBSET Backups]

Proceed(x, here, next) ==
  /\ shred[x] = here
  /\ shred' = [shred EXCEPT ![x] = next]
  /\ UNCHANGED wiring

-----------------------------------------------------------------------------
\* Role, confirmation and MFA: the answer to each is in the request.
AuthorizeShred(x) ==
  /\ Proceed(x, "authorize", "start") \/ Proceed(x, "authorize", "deny")
  /\ UNCHANGED <<shared, victim, linked>>

DenyShred(x) ==
  /\ Proceed(x, "deny", "denied")
  /\ Record("crypto_shred_denied", victim[x])
  /\ UNCHANGED <<backups, objects, keys, level, faults, victim, linked>>

StartShred(x) ==
  /\ Proceed(x, "start", IF wiring = "stepwise" THEN "lookup" ELSE "begin")
  /\ Record("crypto_shred_started", victim[x])
  /\ UNCHANGED <<backups, objects, keys, level, faults, victim, linked>>

\* InvalidRequestError if the session is in a transaction already.
BeginTransaction(x) ==
  /\ Proceed(x, "begin", IF wiring = "application" THEN "server_error" ELSE "lookup")
  /\ UNCHANGED <<shared, victim, linked>>

\* Mistake: mark_destroyed commits although the transaction is shared.
LookupVersionStepwise(x) ==
  /\ Proceed(x, "lookup", IF keys[victim[x]].destroyed THEN "deny" ELSE "destroy")
  /\ UNCHANGED <<shared, victim, linked>>

\* Every version of the model has its row; one destroyed is refused.
LookupVersion(x) ==
  /\ Proceed(x, "lookup", IF keys[victim[x]].destroyed THEN "deny"
                          ELSE IF wiring = "atomic" THEN "select" ELSE "destroy")
  /\ UNCHANGED <<shared, victim, linked>>

Destroyed(v) == [keys EXCEPT ![v] = [active |-> FALSE, destroyed |-> TRUE]]

\* mark_destroyed with its own commit.
DestroyKey(x) ==
  /\ Proceed(x, "destroy", "select")
  /\ keys' = Destroyed(victim[x])
  /\ UNCHANGED <<backups, objects, level, trail, faults, victim, linked>>

\* Mistake: only ACTIVE backups are looked for.
LinkedActive(v) == {b \in Backups : backups[b].key_version = v /\ backups[b].status = "ACTIVE"}

\* The rows of the version.  One that says IRREVERSIBLE when it is loaded has
\* nothing to be written.
LinkedTo(v) == {b \in Backups : backups[b].key_version = v /\ backups[b].status # "IRREVERSIBLE"}

SelectLinked(x) ==
  /\ Proceed(x, "select", "mark")
  /\ linked' = [linked EXCEPT ![x] = LinkedTo(victim[x])]
  /\ UNCHANGED <<shared, victim>>

\* The commit of the backups, and of the key when they share a transaction.
MarkIrreversible(x) ==
  /\ Proceed(x, "mark", "escalate")
  /\ backups' = [b \in Backups |->
                   IF b \in linked[x] THEN [backups[b] EXCEPT !.status = "IRREVERSIBLE"]
                   ELSE backups[b]]
  /\ keys' = IF wiring = "atomic" THEN Destroyed(victim[x]) ELSE keys
  /\ UNCHANGED <<objects, level, trail, faults, victim, linked>>

\* LOCKDOWN can be reached from every other level.
EscalateToLockdown(x) ==
  /\ Proceed(x, "escalate", "effect")
  /\ level' = "LOCKDOWN"
  /\ UNCHANGED <<backups, objects, keys, trail, faults, victim, linked>>

RecordEffect(x) ==
  /\ Proceed(x, "effect", "complete")
  /\ Record("incident_effect_applied", victim[x])
  /\ UNCHANGED <<backups, objects, keys, level, faults, victim, linked>>

CompleteShred(x) ==
  /\ Proceed(x, "complete", "completed")
  /\ Record("crypto_shred_completed", victim[x])
  /\ UNCHANGED <<backups, objects, keys, level, faults, victim, linked>>

ShredStep(x) ==
  \/ AuthorizeShred(x) \/ DenyShred(x) \/ StartShred(x) \/ BeginTransaction(x)
  \/ LookupVersion(x) \/ DestroyKey(x) \/ SelectLinked(x) \/ MarkIrreversible(x)
  \/ EscalateToLockdown(x) \/ RecordEffect(x) \/ CompleteShred(x)

\* As for a submission.  A transaction not committed leaves nothing.
ShredDies(x) ==
  /\ shred[x] \in ShredRunning
  /\ faults < MaxFaults
  /\ faults' = faults + 1
  /\ shred' = [shred EXCEPT ![x] = "server_error"]
  /\ UNCHANGED <<backups, objects, keys, level, trail, wiring, victim, linked>>
=============================================================================
