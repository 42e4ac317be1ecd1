----------------------------- MODULE Monitoring -----------------------------
(***************************************************************************)
(* MonitoringService.process_security_event over AlertsRepository, and the *)
(* review of alerts by PUT /admin/alerts/{id}/status.                      *)
(*                                                                         *)
(* A restore that is blocked or fails records the fact in the audit log    *)
(* and hands it to the rules.  Each await is one step.  A rule counts its  *)
(* events of one actor over a window that slides with the clock, and names *)
(* the alert after the window of a fixed grid that the clock is in: at     *)
(* most one alert has a name (UNIQUE dedupe_key).                          *)
(***************************************************************************)
EXTENDS Integers, FiniteSets

CONSTANTS Events,      \* restores that were blocked, failed or held for review
          Actors,      \* key ids of principals
          Reviews,     \* requests to set the status of an alert
          Sources,     \* the actions they record
          Rules,       \* the source_event of each rule
          Threshold,   \* threshold of a rule (3)
          Window,      \* window_minutes of a rule (10)
          Hour,        \* minutes in an hour (60)
          MaxTime,     \* bound on the clock, in minutes
          Dropped      \* bound: how many requests may fail or crash

ASSUME EventsAssumption == IsFiniteSet(Events)
ASSUME RulesAssumption == Rules \subseteq Sources
ASSUME ThresholdAssumption == Threshold \in Nat \ {0}
ASSUME WindowAssumption == Window \in Nat \ {0} /\ Hour \in Nat \ {0} /\ Hour % Window = 0
ASSUME MaxTimeAssumption == MaxTime \in Nat
ASSUME DroppedAssumption == Dropped \in Nat

VARIABLES clock,      \* the clock of process and database
          source,     \* the action that each event records
          actor,      \* who caused each event
          pc,         \* where each event is
          stamp,      \* created_at of the entry of each event
          recorded,   \* the events whose entry is in audit_log_entries
          at,         \* the time at which each event reached the rules
          alerts,     \* the table alerts: its dedupe keys
          raised,     \* of each alert, the event that created it
          status,     \* of each alert
          audited,    \* the alerts whose creation is on record
          review,     \* where each review is
          subject,    \* the alert each review is about
          seen,       \* the status each review loaded
          dropped     \* how many requests failed or crashed

eventVars == <<source, actor, pc, stamp, recorded, at>>
alertVars == <<alerts, raised, status, audited>>
reviewVars == <<review, subject, seen>>
vars == <<clock, eventVars, alertVars, reviewVars, dropped>>

Statuses == {"OPEN", "ACKNOWLEDGED", "RESOLVED"}

Times == 0..MaxTime
Never == -1

\* Mistake: the alert is named after the minute.
BucketOfMinute(time) == time

\* _window_bucket: the minute is rounded down to a multiple of the window.
Bucket(time) == (time \div Hour) * Hour + ((time % Hour) \div Window) * Window

DedupeKeys == Rules \X Actors \X {Bucket(t) : t \in Times}

\* _dedupe_key.
DedupeKey(e) == <<source[e], actor[e], Bucket(at[e])>>

NoKey == <<"none", "none", Never>>
NoEvent == "none"

EventEnded == {"done", "conflict", "failed"}
ReviewEnded == {"done", "not_found", "failed"}

Init ==
  /\ clock = 0
  /\ source \in [Events -> Sources]
  /\ actor \in [Events -> Actors]
  /\ pc = [e \in Events |-> "stamp"]
  /\ stamp = [e \in Events |-> Never]
  /\ recorded = {}
  /\ at = [e \in Events |-> Never]
  /\ alerts = {}
  /\ raised = [k \in DedupeKeys |-> NoEvent]
  /\ status = [k \in DedupeKeys |-> "OPEN"]
  /\ audited = {}
  /\ review = [v \in Reviews |-> "load"]
  /\ subject = [v \in Reviews |-> NoKey]
  /\ seen = [v \in Reviews |-> "OPEN"]
  /\ dropped = 0

Goto(e, here, next) ==
  /\ pc[e] = here
  /\ pc' = [pc EXCEPT ![e] = next]

-----------------------------------------------------------------------------
(* An event.                                                               *)

\* _persist_entry dates the entry; a conflict dates it again.
StampEntry(e) ==
  /\ Goto(e, "stamp", "commit") \/ Goto(e, "commit", "commit")
  /\ stamp' = [stamp EXCEPT ![e] = clock]
  /\ UNCHANGED <<clock, source, actor, recorded, at, alertVars, reviewVars, dropped>>

CommitEntry(e) ==
  /\ Goto(e, "commit", "observe")
  /\ recorded' = recorded \cup {e}
  /\ UNCHANGED <<clock, source, actor, stamp, at, alertVars, reviewVars, dropped>>

\* process_security_event up to its first await; a source without a rule ends it.
Observe(e) ==
  /\ Goto(e, "observe", IF source[e] \in Rules THEN "count" ELSE "done")
  /\ at' = [at EXCEPT ![e] = clock]
  /\ UNCHANGED <<clock, source, actor, stamp, recorded, alertVars, reviewVars, dropped>>

\* Mistake: the events of everybody count.
MatchesOfAnybody(e) ==
  {f \in recorded : source[f] = source[e] /\ stamp[f] >= at[e] - Window}

\* count_entries, with created_at >= since.
Matches(e) ==
  {f \in recorded : /\ source[f] = source[e]
                    /\ actor[f] = actor[e]
                    /\ stamp[f] >= at[e] - Window}

\* Mistake: more than the threshold.
ReachedBeyond(e) == Cardinality(Matches(e)) > Threshold

Reached(e) == Cardinality(Matches(e)) >= Threshold

CountEvents(e) ==
  /\ Goto(e, "count", IF Reached(e) THEN "lookup" ELSE "done")
  /\ UNCHANGED <<clock, source, actor, stamp, recorded, at, alertVars, reviewVars, dropped>>

\* get_by_dedupe_key: an alert that exists is returned as it is.
LookupAlert(e) ==
  /\ Goto(e, "lookup", IF DedupeKey(e) \in alerts THEN "done" ELSE "create")
  /\ UNCHANGED <<clock, source, actor, stamp, recorded, at, alertVars, reviewVars, dropped>>

\* Mistake: an alert that has come up since the lookup is opened again.
CreateOrReopenAlert(e) ==
  /\ Goto(e, "create", "audit")
  /\ alerts' = alerts \cup {DedupeKey(e)}
  /\ raised' = [raised EXCEPT ![DedupeKey(e)] = e]
  /\ status' = [status EXCEPT ![DedupeKey(e)] = "OPEN"]
  /\ UNCHANGED <<clock, source, actor, stamp, recorded, at, audited, reviewVars, dropped>>

\* The commit.  Nobody handles the IntegrityError of the second of two.
CreateAlert(e) ==
  IF DedupeKey(e) \in alerts
  THEN /\ Goto(e, "create", "conflict")
       /\ UNCHANGED <<clock, source, actor, stamp, recorded, at, alertVars, reviewVars, dropped>>
  ELSE /\ Goto(e, "create", "audit")
       /\ alerts' = alerts \cup {DedupeKey(e)}
       /\ raised' = [raised EXCEPT ![DedupeKey(e)] = e]
       /\ UNCHANGED <<clock, source, actor, stamp, recorded, at, status, audited, reviewVars, dropped>>

\* Mistake: fail_secure=False.
AuditAlertBestEffort(e) ==
  /\ Goto(e, "audit", "done")
  /\ audited' \in {audited, audited \cup {DedupeKey(e)}}
  /\ UNCHANGED <<clock, source, actor, stamp, recorded, at, alerts, raised, status, reviewVars, dropped>>

\* The audit of alert_created; its failure is a Drop.
AuditAlert(e) ==
  /\ Goto(e, "audit", "done")
  /\ audited' = audited \cup {DedupeKey(e)}
  /\ UNCHANGED <<clock, source, actor, stamp, recorded, at, alerts, raised, status, reviewVars, dropped>>

-----------------------------------------------------------------------------
(* A review.                                                               *)

\* get_by_alert_id; an alert that is not there is a 404.
LoadAlert(v) ==
  /\ review[v] = "load"
  /\ \/ /\ review' = [review EXCEPT ![v] = "not_found"]
        /\ UNCHANGED <<subject, seen>>
     \/ \E k \in alerts :
          /\ review' = [review EXCEPT ![v] = "write"]
          /\ subject' = [subject EXCEPT ![v] = k]
          /\ seen' = [seen EXCEPT ![v] = status[k]]
  /\ UNCHANGED <<clock, eventVars, alertVars, dropped>>

\* Any status may be asked for.  The session writes the column only if it
\* differs from what was loaded.
WriteStatus(v) ==
  /\ review[v] = "write"
  /\ review' = [review EXCEPT ![v] = "audit"]
  /\ \E new \in Statuses :
       status' = IF new = seen[v] THEN status ELSE [status EXCEPT ![subject[v]] = new]
  /\ UNCHANGED <<clock, eventVars, alerts, raised, audited, subject, seen, dropped>>

\* The audit of alert_status_updated, after the change is committed.
AuditReview(v) ==
  /\ review[v] = "audit"
  /\ review' = [review EXCEPT ![v] = "done"]
  /\ UNCHANGED <<clock, eventVars, alertVars, subject, seen, dropped>>

-----------------------------------------------------------------------------
\* A database error, an AuditWriteError or a crash, at any await.
Drop ==
  /\ dropped < Dropped
  /\ dropped' = dropped + 1
  /\ \/ \E e \in Events : /\ pc[e] \notin EventEnded
                          /\ pc' = [pc EXCEPT ![e] = "failed"]
                          /\ UNCHANGED review
     \/ \E v \in Reviews : /\ review[v] \notin ReviewEnded
                           /\ review' = [review EXCEPT ![v] = "failed"]
                           /\ UNCHANGED pc
  /\ UNCHANGED <<clock, source, actor, stamp, recorded, at, alertVars, subject, seen>>

Tick ==
  /\ clock < MaxTime
  /\ clock' = clock + 1
  /\ UNCHANGED <<eventVars, alertVars, reviewVars, dropped>>

EventStep(e) ==
  \/ StampEntry(e) \/ CommitEntry(e) \/ Observe(e) \/ CountEvents(e)
  \/ LookupAlert(e) \/ CreateAlert(e) \/ AuditAlert(e)

ReviewStep(v) == LoadAlert(v) \/ WriteStatus(v) \/ AuditReview(v)

Next ==
  \/ \E e \in Events : EventStep(e)
  \/ \E v \in Reviews : ReviewStep(v)
  \/ Drop
  \/ Tick

Spec == Init /\ [][Next]_vars

-----------------------------------------------------------------------------
(* Properties.                                                             *)

\* The state has its type.
TypeOK ==
  /\ clock \in Times
  /\ source \in [Events -> Sources]
  /\ actor \in [Events -> Actors]
  /\ pc \in [Events -> {"stamp", "commit", "observe", "count", "lookup", "create", "audit"}
                         \cup EventEnded]
  /\ stamp \in [Events -> Times \cup {Never}]
  /\ recorded \subseteq Events
  /\ at \in [Events -> Times \cup {Never}]
  /\ alerts \subseteq DedupeKeys
  /\ raised \in [DedupeKeys -> Events \cup {NoEvent}]
  /\ status \in [DedupeKeys -> Statuses]
  /\ audited \subseteq alerts
  /\ review \in [Reviews -> {"load", "write", "audit"} \cup ReviewEnded]
  /\ subject \in [Reviews -> DedupeKeys \cup {NoKey}]
  /\ seen \in [Reviews -> Statuses]
  /\ dropped \in 0..Dropped

SameStream(e, f) == source[e] = source[f] /\ actor[e] = actor[f]

\* An alert never stands on less than a burst: Threshold entries of its own
\* rule and its own actor, none older than the window when it was raised.
NoFalseAlert ==
  \A k \in alerts :
    LET e == raised[k]
    IN  /\ k = DedupeKey(e)
        /\ Cardinality({f \in recorded : SameStream(e, f) /\ stamp[f] >= at[e] - Window})
             >= Threshold

\* Threshold events of one stream, each within the window when every one of
\* them reached the rules.
Burst(S) ==
  /\ S # {}
  /\ \A e, f \in S :
       /\ source[e] \in Rules
       /\ Cardinality(S) >= Threshold
       /\ SameStream(e, f)
       /\ stamp[f] >= at[e] - Window

\* No burst goes by unseen however its events overlap: once all of them have
\* passed the rules there is an alert in the window of one of them, also when
\* every one of them was counted while others were half-way.
NoMissedBurst ==
  \A S \in SUBSET {e \in Events : pc[e] \in {"done", "conflict"}} :
    Burst(S) => \E e \in S : DedupeKey(e) \in alerts

\* However many events there are, the alerts of one stream are a window apart
\* on the grid, so that a burst, which may cross one boundary, raises two.
AlertsAreApart ==
  \A k, l \in alerts :
    SameStream(raised[k], raised[l]) /\ k # l => k[3] - l[3] \notin (1 - Window)..(Window - 1)

\* An alert that is not on record betrays a request that failed: its creator is
\* about to record it or has ended in an error.  No later event makes up for it.
UnauditedMeansFailed ==
  \A k \in alerts \ audited : pc[raised[k]] \in {"audit", "failed"}

\* What a reviewer made of an alert is undone by reviewers only: more events of
\* the same burst neither reopen the alert nor take it over.
ReviewsSurviveEvents ==
  [][\A k \in alerts :
       /\ k \in alerts' /\ raised'[k] = raised[k]
       /\ status'[k] # status[k] => \E v \in Reviews : subject[v] = k /\ WriteStatus(v)]_vars
=============================================================================
