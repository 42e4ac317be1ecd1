----------------------------- MODULE BackupLife -----------------------------
(***************************************************************************)
(* What the gateway promises about a backup, with no requests in steps, no *)
(* storage, no audit, no incident level and no active key: how its status  *)
(* may change and on whose account, and what a restore needs.  Gateway is  *)
(* shown to implement this module.                                         *)
(*                                                                         *)
(* A backup is open while its submission is under way.  Then its status is *)
(* the submission's to write, over anything a crypto-shred wrote; later it *)
(* is only closed.                                                         *)
(***************************************************************************)
EXTENDS Naturals

CONSTANTS Backups, Versions, NoVersion, Restores

VARIABLES status,      \* of each backup
          key,         \* the version each backup is recorded under
          sealed,      \* the backups that are stored
          open,        \* the backups whose submission is under way
          destroyed,   \* the versions destroyed
          wanted,      \* the backup each restore asks for
          stage        \* how far each restore is

vars == <<status, key, sealed, open, destroyed, wanted, stage>>

Init ==
  /\ status = [b \in Backups |-> "absent"]
  /\ key = [b \in Backups |-> NoVersion]
  /\ sealed = {}
  /\ open = Backups
  /\ destroyed = {}
  /\ wanted \in [Restores -> Backups]
  /\ stage = [r \in Restores |-> "asked"]

\* Where a submission has a row to write its outcome to.
InHand(b) == b \in open \ sealed /\ status[b] \in {"PROCESSING", "IRREVERSIBLE"}

Begin(b) ==
  /\ b \in open
  /\ status[b] = "absent"
  /\ status' = [status EXCEPT ![b] = "PROCESSING"]
  /\ UNCHANGED <<key, sealed, open, destroyed, wanted, stage>>

\* A backup is recorded under one version, once.
Assign(b, v) ==
  /\ b \in open
  /\ status[b] = "PROCESSING"
  /\ key[b] = NoVersion
  /\ key' = [key EXCEPT ![b] = v]
  /\ UNCHANGED <<status, sealed, open, destroyed, wanted, stage>>

\* The outcome of a submission, whether its version was destroyed meanwhile or not.
Activate(b) ==
  /\ InHand(b)
  /\ key[b] # NoVersion
  /\ status' = [status EXCEPT ![b] = "ACTIVE"]
  /\ sealed' = sealed \cup {b}
  /\ UNCHANGED <<key, open, destroyed, wanted, stage>>

Fail(b) ==
  /\ InHand(b)
  /\ status' = [status EXCEPT ![b] = "FAILED"]
  /\ UNCHANGED <<key, sealed, open, destroyed, wanted, stage>>

\* A version is destroyed, and backups are closed that are recorded under it;
\* in one step or in several.
Close(v, bs) ==
  /\ \A b \in bs : key[b] = v
  /\ status' = [b \in Backups |-> IF b \in bs THEN "IRREVERSIBLE" ELSE status[b]]
  /\ destroyed' = destroyed \cup {v}
  /\ UNCHANGED <<key, sealed, open, wanted, stage>>

\* A restore is let in by what the backup is at one moment.
Admit(r) ==
  /\ stage[r] = "asked"
  /\ status[wanted[r]] = "ACTIVE"
  /\ wanted[r] \in sealed
  /\ stage' = [stage EXCEPT ![r] = "admitted"]
  /\ UNCHANGED <<status, key, sealed, open, destroyed, wanted>>

\* It hands out the plaintext only then.
Release(r) ==
  /\ stage[r] = "admitted"
  /\ stage' = [stage EXCEPT ![r] = "restored"]
  /\ UNCHANGED <<status, key, sealed, open, destroyed, wanted>>

\* Submissions and restores end, answered or not, and nothing else changes.
Leave(bs, rs) ==
  /\ open' = open \ bs
  /\ \A r \in rs : stage[r] \in {"asked", "admitted"}
  /\ stage' = [r \in Restores |-> IF r \in rs THEN "refused" ELSE stage[r]]
  /\ UNCHANGED <<status, key, sealed, destroyed, wanted>>

Next ==
  \/ \E bs \in SUBSET Backups : \E rs \in SUBSET Restores : Leave(bs, rs)
  \/ \E r \in Restores : Admit(r) \/ Release(r)
  \/ \E b \in Backups : Begin(b) \/ Activate(b) \/ Fail(b) \/ \E v \in Versions : Assign(b, v)
  \/ \E v \in Versions : \E bs \in SUBSET Backups : Close(v, bs)

Spec == Init /\ [][Next]_vars
=============================================================================
