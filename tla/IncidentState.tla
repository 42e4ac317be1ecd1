---------------------------- MODULE IncidentState ----------------------------
(***************************************************************************)
(* The incident level: IncidentService over IncidentRepository, with the   *)
(* two kinds of requests that move it, PUT /admin/incident and the         *)
(* escalation that ends a crypto-shred.                                    *)
(*                                                                         *)
(* The level is the newest row of a history table.  A row's changed_at is  *)
(* the database's now(), the time its TRANSACTION began, and a request's   *)
(* transaction begins before it reads the level (at the refresh that       *)
(* follows the audit entry of its authentication).  So the order in which  *)
(* rows are committed need not be the order in which they count.           *)
(***************************************************************************)
EXTENDS Naturals, FiniteSets, Sequences, IncidentLevels

CONSTANTS Changes,        \* PUT requests
          Escalations,    \* crypto-shreds that reached their last stage
          DefaultLevel,   \* Settings.current_incident_level
          Dropped         \* bound: how many requests may fail or crash

Requests == Changes \cup Escalations

ASSUME DefaultLevelAssumption == DefaultLevel \in Levels
ASSUME RequestsAssumption == IsFiniteSet(Requests) /\ Changes \cap Escalations = {}
ASSUME DroppedAssumption == Dropped \in Nat

VARIABLES history,   \* the table incident_states, in order of id
          clock,     \* the database's clock
          pc,        \* where each request is
          target,    \* the level each request asks for
          began,     \* when the transaction of each request began
          current,   \* the level each request read last
          effect,    \* what each request did to the level
          dropped    \* how many requests failed or crashed

vars == <<history, clock, pc, target, began, current, effect, dropped>>

Ended == {"done", "failed"}

-----------------------------------------------------------------------------
(* The level.                                                              *)

\* Mistake: of two rows with the same time the first counts.
CountsAfterById(i, j) ==
  \/ history[i].changed_at > history[j].changed_at
  \/ history[i].changed_at = history[j].changed_at /\ i < j

\* Row i comes before row j: order_by(changed_at.desc(), id.desc()).
CountsAfter(i, j) ==
  \/ history[i].changed_at > history[j].changed_at
  \/ history[i].changed_at = history[j].changed_at /\ i > j

\* get_state: the first row in that order, or the configured default.
CurrentLevel ==
  IF history = <<>> THEN DefaultLevel
  ELSE history[CHOOSE i \in DOMAIN history :
                 \A j \in DOMAIN history \ {i} : CountsAfter(i, j)].level

-----------------------------------------------------------------------------
(* A request, from the start of its transaction to its audit entry.        *)

Init ==
  /\ history = <<>>
  /\ clock = 0
  /\ pc = [r \in Requests |-> "idle"]
  /\ target \in {t \in [Requests -> Levels] : \A r \in Escalations : t[r] = "LOCKDOWN"}
  /\ began = [r \in Requests |-> 0]
  /\ current = [r \in Requests |-> DefaultLevel]
  /\ effect = [r \in Requests |-> "none"]
  /\ dropped = 0

\* Mistake: every request first asks whether it is LOCKDOWN already.
FirstStepForAll(r) == "check"

\* execute_crypto_shred asks for the level before it asks for the change.
FirstStep(r) == IF r \in Escalations THEN "check" ELSE "read"

\* Two transactions may begin within one tick of the clock.
Begin(r) ==
  /\ pc[r] = "idle"
  /\ began' = [began EXCEPT ![r] = clock]
  /\ clock' \in {clock, clock + 1}
  /\ pc' = [pc EXCEPT ![r] = FirstStep(r)]
  /\ UNCHANGED <<history, target, current, effect, dropped>>

CheckLockdown(r) ==
  /\ pc[r] = "check"
  /\ IF CurrentLevel = "LOCKDOWN"
     THEN /\ effect' = [effect EXCEPT ![r] = "already_lockdown"]
          /\ pc' = [pc EXCEPT ![r] = "audit"]
     ELSE /\ pc' = [pc EXCEPT ![r] = "read"]
          /\ UNCHANGED effect
  /\ UNCHANGED <<history, clock, target, began, current, dropped>>

\* InvalidIncidentTransition is a 400 to a PUT; a crypto-shred goes on.
AfterDenial(r) == IF r \in Escalations THEN "audit" ELSE "done"

\* transition_to up to its await: read the level and check the change.
ReadLevel(r) ==
  /\ pc[r] = "read"
  /\ current' = [current EXCEPT ![r] = CurrentLevel]
  /\ IF target[r] # CurrentLevel /\ target[r] \in Allowed(CurrentLevel)
     THEN /\ pc' = [pc EXCEPT ![r] = "append"]
          /\ UNCHANGED effect
     ELSE /\ pc' = [pc EXCEPT ![r] = AfterDenial(r)]
          /\ effect' = [effect EXCEPT ![r] = "transition_denied"]
  /\ UNCHANGED <<history, clock, target, began, dropped>>

AppendTransition(r) ==
  /\ pc[r] = "append"
  /\ history' = Append(history, [level |-> target[r], changed_at |-> began[r], by |-> r])
  /\ effect' = [effect EXCEPT ![r] = "changed"]
  /\ pc' = [pc EXCEPT ![r] = "audit"]
  /\ UNCHANGED <<clock, target, began, current, dropped>>

\* The entry itself is the business of AuditChain.
Audit(r) ==
  /\ pc[r] = "audit"
  /\ pc' = [pc EXCEPT ![r] = "done"]
  /\ UNCHANGED <<history, clock, target, began, current, effect, dropped>>

\* A database error (500), an AuditWriteError or a crash, at any await.
Drop(r) ==
  /\ dropped < Dropped
  /\ pc[r] \notin Ended
  /\ pc' = [pc EXCEPT ![r] = "failed"]
  /\ dropped' = dropped + 1
  /\ UNCHANGED <<history, clock, target, began, current, effect>>

Step(r) == Begin(r) \/ CheckLockdown(r) \/ ReadLevel(r) \/ AppendTransition(r) \/ Audit(r)

Next == \E r \in Requests : Step(r) \/ Drop(r)

Spec == Init /\ [][Next]_vars

-----------------------------------------------------------------------------
(* Properties.                                                             *)

\* The state has its type, and only a crypto-shred finds its change made.
TypeOK ==
  /\ history \in Seq([level : Levels, changed_at : Nat, by : Requests])
  /\ clock \in Nat
  /\ pc \in [Requests -> {"idle", "check", "read", "append", "audit"} \cup Ended]
  /\ target \in [Requests -> Levels]
  /\ began \in [Requests -> Nat]
  /\ current \in [Requests -> Levels]
  /\ effect \in [Requests -> {"none", "changed", "already_lockdown", "transition_denied"}]
  /\ \A r \in Changes : effect[r] # "already_lockdown"
  /\ dropped \in 0..Dropped

\* A row is there already from a transaction that began after r's own.
Overtaken(r) == \E i \in DOMAIN history : history[i].changed_at > began[r]

\* The level that r read still holds, and its row will count.
Uncontested(r) == current[r] = CurrentLevel /\ ~Overtaken(r)

\* A change that nobody overtook takes effect at once, and follows the
\* transition rules from the level that was in force, also when its row bears
\* the same time as another (get_latest and transition_to).
UncontestedChangeTakesEffect ==
  [][\A r \in Requests :
       AppendTransition(r) /\ Uncontested(r) =>
         /\ CurrentLevel' = target[r]
         /\ CurrentLevel' \in Allowed(CurrentLevel)]_vars

\* When it is settled what a crypto-shred reports of the level, LOCKDOWN is in
\* force: found so, or by its own row, or, if the InvalidIncidentTransition
\* that it swallows was raised, because somebody else locked down between its
\* two reads.  The one exception is a row that was overtaken, which never
\* comes into force although "escalated_to_lockdown" is reported.
ShredLocksDownUnlessOvertaken ==
  [][\A r \in Escalations :
       effect'[r] # effect[r] =>
         \/ CurrentLevel' = "LOCKDOWN"
         \/ effect'[r] = "changed" /\ Overtaken(r)]_vars

-----------------------------------------------------------------------------
(* What the documents and tests say, and the code does not keep.           *)

\* Only allowed transitions are ever observed, from one level to the next.
TransitionsFollowRules ==
  [][CurrentLevel' # CurrentLevel => CurrentLevel' \in Allowed(CurrentLevel)]_vars
=============================================================================
