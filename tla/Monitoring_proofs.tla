-------------------------- MODULE Monitoring_proofs --------------------------
(***************************************************************************)
(* Proofs about Monitoring for any events, actors, rules, threshold and    *)
(* windows.  The events of a burst count each other at different times:    *)
(* the invariant follows all of a burst at once.                           *)
(***************************************************************************)
EXTENDS Monitoring, FiniteSetTheorems, TLAPS

\* An event that has been counted.
Past == {"lookup", "create", "audit", "done", "conflict"}

\* What is known of an event, wherever it is.
Tracked(e) ==
  /\ pc[e] = "commit" => stamp[e] \in Times
  /\ e \in recorded => pc[e] \notin {"stamp", "commit"} /\ stamp[e] \in Times
  /\ pc[e] \notin {"stamp", "commit", "failed"} => e \in recorded
  /\ pc[e] \in {"count", "lookup", "create", "audit"} => at[e] \in Times /\ source[e] \in Rules
  /\ pc[e] \in {"lookup", "create", "audit"} => Reached(e)
  /\ pc[e] = "audit" => DedupeKey(e) \in alerts /\ raised[DedupeKey(e)] = e

\* What is known of an alert: who raised it, and that they were right to.
Founded(k) ==
  /\ raised[k] \in Events
  /\ k = DedupeKey(raised[k])
  /\ at[raised[k]] \in Times
  /\ Reached(raised[k])
  /\ pc[raised[k]] \in {"audit", "done", "failed"}
  /\ k \notin audited => pc[raised[k]] \in {"audit", "failed"}

\* Of a burst that has been counted, somebody is on the way to an alert or
\* finds one.
SeenBy(S) == \E e \in S : pc[e] \in {"lookup", "create"} \/ DedupeKey(e) \in alerts

Inv ==
  /\ TypeOK
  /\ \A e \in Events : Tracked(e)
  /\ \A k \in alerts : Founded(k)
  /\ \A S \in SUBSET {e \in Events : pc[e] \in Past} : Burst(S) => SeenBy(S)

-----------------------------------------------------------------------------
\* The entries on record stay as they are.
Frozen ==
  /\ UNCHANGED <<source, actor>>
  /\ recorded \subseteq recorded' /\ recorded' \subseteq Events
  /\ \A f \in recorded : stamp'[f] = stamp[f]

\* Every event but e is where it was.
OnlyMoves(e) ==
  \A f \in Events \ {e} : pc'[f] = pc[f] /\ stamp'[f] = stamp[f] /\ at'[f] = at[f]

\* No alert goes, changes hands, or is struck from the record.
AlertsKept ==
  /\ alerts \subseteq alerts' /\ audited \subseteq audited'
  /\ \A k \in alerts : raised'[k] = raised[k]

\* Who has counted enough events would still count enough.
LEMMA ReachedStays ==
  ASSUME Frozen, NEW e \in Events, at'[e] = at[e], Reached(e)
  PROVE  Reached(e)'
<1>1. Matches(e) \subseteq Matches(e)'
  BY DEF Frozen, Matches
<1>2. IsFiniteSet(Matches(e)')
  <2>1. Matches(e)' \subseteq Events
    BY DEF Frozen, Matches
  <2> QED
    BY <2>1, EventsAssumption, FS_Subset
<1>3. /\ Cardinality(Matches(e)) <= Cardinality(Matches(e)')
      /\ Cardinality(Matches(e)) \in Nat /\ Cardinality(Matches(e)') \in Nat
  BY <1>1, <1>2, FS_Subset, FS_CardinalityType
<1> QED
  BY <1>3, ThresholdAssumption DEF Reached

\* What has to be shown of a step of one event.
LEMMA EventMoves ==
  ASSUME Inv, NEW e \in Events, Frozen, OnlyMoves(e), AlertsKept, TypeOK', Tracked(e)',
         recorded' \subseteq recorded \cup {e},
         \A k \in alerts' : k \notin alerts \/ raised[k] = e => Founded(k)',
         \A S \in SUBSET Events :
           e \in S /\ pc'[e] \in Past /\ Burst(S)' /\ (\A f \in S \ {e} : pc[f] \in Past) => SeenBy(S)'
  PROVE  Inv'
<1>1. ASSUME NEW f \in Events PROVE Tracked(f)'
  <2>1. CASE f = e
    BY <2>1
  <2>2. CASE f # e
    <3>1. Tracked(f) /\ pc'[f] = pc[f] /\ stamp'[f] = stamp[f] /\ at'[f] = at[f]
      BY <2>2 DEF Inv, OnlyMoves
    <3>2. DedupeKey(f)' = DedupeKey(f) /\ source' = source /\ (f \in recorded' <=> f \in recorded)
      BY <2>2, <3>1 DEF DedupeKey, Frozen
    <3>3. Reached(f) => Reached(f)'
      BY <3>1, ReachedStays
    <3> QED
      BY <3>1, <3>2, <3>3 DEF Tracked, AlertsKept, Times
  <2> QED
    BY <2>1, <2>2
<1>2. ASSUME NEW k \in alerts' PROVE Founded(k)'
  <2>1. CASE k \notin alerts \/ raised[k] = e
    BY <2>1
  <2>2. CASE k \in alerts /\ raised[k] # e
    <3>1. Founded(k) /\ raised'[k] = raised[k]
      BY <2>2 DEF Inv, AlertsKept
    <3>2. PICK f \in Events : f = raised[k]
      BY <3>1 DEF Founded
    <3>3. pc'[f] = pc[f] /\ at'[f] = at[f]
      BY <2>2, <3>2 DEF OnlyMoves
    <3>4. Reached(f)' /\ DedupeKey(f)' = DedupeKey(f)
      BY <3>1, <3>2, <3>3, ReachedStays DEF Founded, DedupeKey, Frozen
    <3> QED
      BY <3>1, <3>2, <3>3, <3>4 DEF Founded, AlertsKept
  <2> QED
    BY <2>1, <2>2
<1>3. ASSUME NEW S \in SUBSET {f \in Events : pc'[f] \in Past}, Burst(S)' PROVE SeenBy(S)'
  <2>1. CASE e \in S
    BY <1>3, <2>1 DEF OnlyMoves
  <2>2. CASE e \notin S
    <3>1. \A f \in S : f \in Events /\ pc'[f] = pc[f] /\ stamp'[f] = stamp[f] /\ at'[f] = at[f]
      BY <2>2 DEF OnlyMoves
    <3>2. Burst(S)
      BY <1>3, <3>1 DEF Burst, SameStream, Frozen
    <3>3. S \in SUBSET {f \in Events : pc[f] \in Past}
      BY <3>1
    <3>4. SeenBy(S)
      BY <3>2, <3>3 DEF Inv
    <3>5. \A f \in S : DedupeKey(f)' = DedupeKey(f)
      BY <3>1 DEF DedupeKey, Frozen
    <3> QED
      BY <3>1, <3>4, <3>5 DEF SeenBy, AlertsKept
  <2> QED
    BY <2>1, <2>2
<1> QED
  BY <1>1, <1>2, <1>3 DEF Inv

\* A step that is about no event.
LEMMA QuietInv ==
  ASSUME Inv, TypeOK', UNCHANGED <<eventVars, alerts, raised, audited>>
  PROVE  Inv'
<1>1. UNCHANGED <<source, actor, pc, stamp, recorded, at, alerts, raised, audited>>
  BY DEF eventVars
<1>2. \A e \in Events : (Reached(e)' <=> Reached(e)) /\ DedupeKey(e)' = DedupeKey(e)
  BY <1>1 DEF Reached, Matches, DedupeKey
<1>3. \A e \in Events : Tracked(e)'
  BY <1>1, <1>2 DEF Inv, Tracked, Times
<1>4. \A k \in alerts' : Founded(k)'
  <2> SUFFICES ASSUME NEW k \in alerts PROVE Founded(k)'
    BY <1>1
  <2>1. Founded(k)
    BY DEF Inv
  <2> QED
    BY <1>1, <1>2, <2>1 DEF Founded
<1>5. \A S \in SUBSET Events : (Burst(S)' <=> Burst(S)) /\ (SeenBy(S) => SeenBy(S)')
  BY <1>1, <1>2 DEF Burst, SameStream, SeenBy
<1> QED
  BY <1>1, <1>3, <1>4, <1>5 DEF Inv

\* A step of the process of an event that leaves entries and alerts alone.
LEMMA GotoKeeps ==
  ASSUME Inv, NEW e \in Events, NEW here, NEW next, Goto(e, here, next),
         UNCHANGED <<source, actor, stamp, recorded, at, alerts, raised, audited>>
  PROVE  Frozen /\ OnlyMoves(e) /\ AlertsKept /\ pc[e] = here /\ pc'[e] = next
BY DEF Inv, TypeOK, Goto, Frozen, OnlyMoves, AlertsKept

-----------------------------------------------------------------------------
(* The steps of an event.                                                  *)

\* Alerts are raised by events that have been counted.
LEMMA RaisersAreCounted ==
  ASSUME Inv, NEW k \in alerts
  PROVE  pc[raised[k]] \in {"audit", "done", "failed"}
BY DEF Inv, Founded

\* Rounding keeps within the names there are.
LEMMA KeysOfEvents ==
  ASSUME TypeOK, NEW e \in Events, at[e] \in Times, source[e] \in Rules
  PROVE  DedupeKey(e) \in DedupeKeys
BY DEF TypeOK, DedupeKey, DedupeKeys

LEMMA StampInv ==
  ASSUME Inv, NEW e \in Events, StampEntry(e)
  PROVE  Inv'
<1>1. /\ pc[e] \in {"stamp", "commit"} /\ pc' = [pc EXCEPT ![e] = "commit"]
      /\ stamp' = [stamp EXCEPT ![e] = clock]
      /\ UNCHANGED <<clock, source, actor, recorded, at, alerts, raised, status, audited,
                     review, subject, seen, dropped>>
  BY DEF StampEntry, Goto, alertVars, reviewVars
<1>2. e \notin recorded /\ TypeOK
  BY <1>1 DEF Inv, Tracked
<1>3. TypeOK' /\ OnlyMoves(e) /\ pc'[e] = "commit" /\ stamp'[e] \in Times
  BY <1>1, <1>2 DEF TypeOK, OnlyMoves
<1>4. Frozen /\ AlertsKept
  BY <1>1, <1>2 DEF TypeOK, Frozen, AlertsKept
<1>5. Tracked(e)'
  BY <1>1, <1>2, <1>3 DEF Tracked, Times
<1>6. \A k \in alerts' : k \in alerts /\ raised[k] # e
  BY <1>1, RaisersAreCounted
<1> QED
  BY <1>1, <1>3, <1>4, <1>5, <1>6, EventMoves DEF Past

LEMMA CommitInv ==
  ASSUME Inv, NEW e \in Events, CommitEntry(e)
  PROVE  Inv'
<1>1. /\ pc[e] = "commit" /\ pc' = [pc EXCEPT ![e] = "observe"]
      /\ recorded' = recorded \cup {e}
      /\ UNCHANGED <<clock, source, actor, stamp, at, alerts, raised, status, audited,
                     review, subject, seen, dropped>>
  BY DEF CommitEntry, Goto, alertVars, reviewVars
<1>2. TypeOK' /\ OnlyMoves(e) /\ pc'[e] = "observe"
  BY <1>1 DEF Inv, TypeOK, OnlyMoves
<1>3. Frozen /\ AlertsKept
  BY <1>1 DEF Inv, TypeOK, Frozen, AlertsKept
<1>4. Tracked(e)'
  BY <1>1, <1>2 DEF Inv, Tracked, Times
<1>5. \A k \in alerts' : k \in alerts /\ raised[k] # e
  BY <1>1, RaisersAreCounted
<1> QED
  BY <1>1, <1>2, <1>3, <1>4, <1>5, EventMoves DEF Past

LEMMA ObserveInv ==
  ASSUME Inv, NEW e \in Events, Observe(e)
  PROVE  Inv'
<1>1. /\ pc[e] = "observe" /\ pc' = [pc EXCEPT ![e] = IF source[e] \in Rules THEN "count" ELSE "done"]
      /\ at' = [at EXCEPT ![e] = clock]
      /\ UNCHANGED <<clock, source, actor, stamp, recorded, alerts, raised, status, audited,
                     review, subject, seen, dropped>>
  BY DEF Observe, Goto, alertVars, reviewVars
<1>2. TypeOK' /\ OnlyMoves(e) /\ at'[e] \in Times
      /\ pc'[e] = (IF source[e] \in Rules THEN "count" ELSE "done")
  BY <1>1 DEF Inv, TypeOK, OnlyMoves, EventEnded
<1>3. Frozen /\ AlertsKept
  BY <1>1 DEF Inv, TypeOK, Frozen, AlertsKept
<1>4. Tracked(e)'
  BY <1>1, <1>2 DEF Inv, Tracked, Times
<1>5. \A k \in alerts' : k \in alerts /\ raised[k] # e
  BY <1>1, RaisersAreCounted
<1>6. ASSUME NEW S \in SUBSET Events, e \in S, pc'[e] \in Past, Burst(S)'
      PROVE  FALSE
  BY <1>1, <1>2, <1>6 DEF Past, Burst
<1> QED
  BY <1>1, <1>2, <1>3, <1>4, <1>5, <1>6, EventMoves

\* When the last event of a burst is counted, it counts all of them.
LEMMA CountInv ==
  ASSUME Inv, NEW e \in Events, CountEvents(e)
  PROVE  Inv'
<1> DEFINE next == IF Reached(e) THEN "lookup" ELSE "done"
<1>1. /\ Goto(e, "count", next)
      /\ UNCHANGED <<clock, source, actor, stamp, recorded, at, alerts, raised, status, audited,
                     review, subject, seen, dropped>>
  BY DEF CountEvents, alertVars, reviewVars
<1>2. Frozen /\ OnlyMoves(e) /\ AlertsKept /\ pc[e] = "count" /\ pc'[e] = next
  BY <1>1, GotoKeeps
<1>3. TypeOK'
  BY <1>1 DEF Inv, TypeOK, Goto, EventEnded
<1>4. Reached(e)' <=> Reached(e)
  BY <1>1 DEF Reached, Matches
<1>5. Tracked(e)'
  BY <1>1, <1>2, <1>4 DEF Inv, Tracked, Times
<1>6. \A k \in alerts' : k \in alerts /\ raised[k] # e
  BY <1>1, <1>2, RaisersAreCounted
<1>7. ASSUME NEW S \in SUBSET Events, e \in S, Burst(S)', \A f \in S \ {e} : pc[f] \in Past
      PROVE  SeenBy(S)'
  <2>1. \A f \in S : f \in recorded
    BY <1>2, <1>7 DEF Inv, Tracked, Past
  <2>2. \A f \in S : source[f] = source[e] /\ actor[f] = actor[e] /\ stamp[f] >= at[e] - Window
    BY <1>1, <1>7 DEF Burst, SameStream
  <2>3. S \subseteq Matches(e)
    BY <2>1, <2>2 DEF Matches
  <2>4. IsFiniteSet(Matches(e))
    <3>1. Matches(e) \subseteq Events
      BY DEF Matches, Inv, TypeOK
    <3> QED
      BY <3>1, EventsAssumption, FS_Subset
  <2>5. /\ Cardinality(S) <= Cardinality(Matches(e))
        /\ Cardinality(S) \in Nat /\ Cardinality(Matches(e)) \in Nat
    BY <2>3, <2>4, FS_Subset, FS_CardinalityType
  <2>6. Cardinality(S) >= Threshold
    BY <1>7 DEF Burst
  <2>7. Reached(e)
    BY <2>5, <2>6, ThresholdAssumption DEF Reached
  <2> QED
    BY <1>2, <1>7, <2>7 DEF SeenBy
<1> QED
  BY <1>1, <1>2, <1>3, <1>5, <1>6, <1>7, EventMoves

LEMMA LookupInv ==
  ASSUME Inv, NEW e \in Events, LookupAlert(e)
  PROVE  Inv'
<1> DEFINE next == IF DedupeKey(e) \in alerts THEN "done" ELSE "create"
<1>1. /\ Goto(e, "lookup", next)
      /\ UNCHANGED <<clock, source, actor, stamp, recorded, at, alerts, raised, status, audited,
                     review, subject, seen, dropped>>
  BY DEF LookupAlert, alertVars, reviewVars
<1>2. Frozen /\ OnlyMoves(e) /\ AlertsKept /\ pc[e] = "lookup" /\ pc'[e] = next
  BY <1>1, GotoKeeps
<1>3. TypeOK'
  BY <1>1 DEF Inv, TypeOK, Goto, EventEnded
<1>4. (Reached(e)' <=> Reached(e)) /\ DedupeKey(e)' = DedupeKey(e)
  BY <1>1 DEF Reached, Matches, DedupeKey
<1>5. Tracked(e)'
  BY <1>1, <1>2, <1>4 DEF Inv, Tracked, Times
<1>6. \A k \in alerts' : k \in alerts /\ raised[k] # e
  BY <1>1, <1>2, RaisersAreCounted
<1>7. \A S \in SUBSET Events : e \in S => SeenBy(S)'
  BY <1>1, <1>2, <1>4 DEF SeenBy
<1> QED
  BY <1>1, <1>2, <1>3, <1>5, <1>6, <1>7, EventMoves

LEMMA CreateInv ==
  ASSUME Inv, NEW e \in Events, CreateAlert(e)
  PROVE  Inv'
<1>0. TypeOK /\ Tracked(e)
  BY DEF Inv
<1>1. CASE DedupeKey(e) \in alerts
  <2>1. /\ Goto(e, "create", "conflict")
        /\ UNCHANGED <<clock, source, actor, stamp, recorded, at, alerts, raised, status, audited,
                       review, subject, seen, dropped>>
    BY <1>1 DEF CreateAlert, alertVars, reviewVars
  <2>2. Frozen /\ OnlyMoves(e) /\ AlertsKept /\ pc[e] = "create" /\ pc'[e] = "conflict"
    BY <2>1, GotoKeeps
  <2>3. TypeOK'
    BY <1>0, <2>1 DEF TypeOK, Goto, EventEnded
  <2>4. DedupeKey(e)' = DedupeKey(e)
    BY <2>1 DEF DedupeKey
  <2>5. Tracked(e)'
    BY <1>0, <2>1, <2>2 DEF Tracked, Times
  <2>6. \A k \in alerts' : k \in alerts /\ raised[k] # e
    BY <2>1, <2>2, RaisersAreCounted
  <2>7. \A S \in SUBSET Events : e \in S => SeenBy(S)'
    BY <1>1, <2>1, <2>4 DEF SeenBy
  <2> QED
    BY <2>1, <2>2, <2>3, <2>5, <2>6, <2>7, EventMoves
<1>2. CASE DedupeKey(e) \notin alerts
  <2>1. /\ pc[e] = "create" /\ pc' = [pc EXCEPT ![e] = "audit"]
        /\ alerts' = alerts \cup {DedupeKey(e)}
        /\ raised' = [raised EXCEPT ![DedupeKey(e)] = e]
        /\ UNCHANGED <<clock, source, actor, stamp, recorded, at, status, audited,
                       review, subject, seen, dropped>>
    BY <1>2 DEF CreateAlert, Goto, reviewVars
  <2>2. DedupeKey(e) \in DedupeKeys /\ Reached(e) /\ at[e] \in Times
    BY <1>0, <2>1, KeysOfEvents DEF Tracked
  <2>3. TypeOK'
    BY <1>0, <2>1, <2>2 DEF TypeOK
  <2>4. Frozen /\ OnlyMoves(e) /\ pc'[e] = "audit" /\ raised'[DedupeKey(e)] = e
    BY <1>0, <2>1, <2>2 DEF TypeOK, Frozen, OnlyMoves
  <2>5. AlertsKept
    BY <1>0, <1>2, <2>1 DEF TypeOK, AlertsKept
  <2>6. (Reached(e)' <=> Reached(e)) /\ DedupeKey(e)' = DedupeKey(e)
    BY <2>1 DEF Reached, Matches, DedupeKey
  <2>7. Tracked(e)'
    BY <1>0, <2>1, <2>2, <2>4, <2>6 DEF Tracked, Times
  <2>8. \A k \in alerts : raised[k] # e
    BY <2>1, RaisersAreCounted
  <2>9. Founded(DedupeKey(e))'
    BY <2>1, <2>2, <2>4, <2>6 DEF Founded, Times
  <2>10. \A k \in alerts' : k \notin alerts \/ raised[k] = e => Founded(k)'
    <3>1. \A k \in alerts' : k \notin alerts \/ raised[k] = e => k = DedupeKey(e)
      BY <2>1, <2>8
    <3> QED
      BY <2>6, <2>9, <3>1
  <2>11. \A S \in SUBSET Events : e \in S => SeenBy(S)'
    BY <2>1, <2>6 DEF SeenBy
  <2> QED
    BY <2>1, <2>3, <2>4, <2>5, <2>7, <2>10, <2>11, EventMoves
<1> QED
  BY <1>1, <1>2

LEMMA AuditInv ==
  ASSUME Inv, NEW e \in Events, AuditAlert(e)
  PROVE  Inv'
<1>1. /\ pc[e] = "audit" /\ pc' = [pc EXCEPT ![e] = "done"]
      /\ audited' = audited \cup {DedupeKey(e)}
      /\ UNCHANGED <<clock, source, actor, stamp, recorded, at, alerts, raised, status,
                     review, subject, seen, dropped>>
  BY DEF AuditAlert, Goto, reviewVars
<1>2. TypeOK /\ Tracked(e) /\ DedupeKey(e) \in alerts /\ raised[DedupeKey(e)] = e
  BY <1>1 DEF Inv, Tracked
<1>3. TypeOK'
  BY <1>1, <1>2 DEF TypeOK, EventEnded
<1>4. Frozen /\ OnlyMoves(e) /\ AlertsKept /\ pc'[e] = "done"
  BY <1>1, <1>2 DEF TypeOK, Frozen, OnlyMoves, AlertsKept
<1>5. (Reached(e)' <=> Reached(e)) /\ DedupeKey(e)' = DedupeKey(e)
  BY <1>1 DEF Reached, Matches, DedupeKey
<1>6. Tracked(e)'
  BY <1>1, <1>2, <1>4 DEF Tracked, Times
<1>7. ASSUME NEW k \in alerts', k \notin alerts \/ raised[k] = e PROVE Founded(k)'
  <2>1. k \in alerts /\ raised[k] = e /\ Founded(k)
    BY <1>1, <1>7 DEF Inv
  <2>2. k = DedupeKey(e) /\ Reached(e)
    BY <2>1 DEF Founded
  <2> QED
    BY <1>1, <1>4, <1>5, <2>1, <2>2 DEF Founded
<1>8. \A S \in SUBSET Events : e \in S => SeenBy(S)'
  BY <1>1, <1>2, <1>5 DEF SeenBy
<1> QED
  BY <1>1, <1>3, <1>4, <1>6, <1>7, <1>8, EventMoves

LEMMA DropInv ==
  ASSUME Inv, Drop
  PROVE  Inv'
<1>1. /\ dropped < Dropped /\ dropped' = dropped + 1
      /\ UNCHANGED <<clock, source, actor, stamp, recorded, at, alerts, raised, status, audited,
                     subject, seen>>
      /\ TypeOK
  BY DEF Drop, alertVars, Inv
<1>2. dropped' \in 0..Dropped
  BY <1>1, DroppedAssumption DEF TypeOK
<1>3. CASE \E e \in Events : /\ pc[e] \notin EventEnded
                             /\ pc' = [pc EXCEPT ![e] = "failed"]
                             /\ UNCHANGED review
  <2>1. PICK e \in Events : /\ pc[e] \notin EventEnded
                            /\ pc' = [pc EXCEPT ![e] = "failed"]
                            /\ UNCHANGED review
    BY <1>3
  <2>2. TypeOK'
    BY <1>1, <1>2, <2>1 DEF TypeOK, EventEnded
  <2>3. Frozen /\ OnlyMoves(e) /\ AlertsKept /\ pc'[e] = "failed"
    BY <1>1, <2>1 DEF TypeOK, Frozen, OnlyMoves, AlertsKept
  <2>4. Tracked(e)'
    BY <1>1, <2>3 DEF Inv, Tracked, Times
  <2>5. (Reached(e)' <=> Reached(e)) /\ DedupeKey(e)' = DedupeKey(e)
    BY <1>1 DEF Reached, Matches, DedupeKey
  <2>6. ASSUME NEW k \in alerts', k \notin alerts \/ raised[k] = e PROVE Founded(k)'
    <3>1. k \in alerts /\ raised[k] = e /\ Founded(k)
      BY <1>1, <2>6 DEF Inv
    <3>2. k = DedupeKey(e) /\ Reached(e)
      BY <3>1 DEF Founded
    <3> QED
      BY <1>1, <2>3, <2>5, <3>1, <3>2 DEF Founded
  <2> QED
    BY <1>1, <2>2, <2>3, <2>4, <2>6, EventMoves DEF Past
<1>4. CASE \E v \in Reviews : /\ review[v] \notin ReviewEnded
                              /\ review' = [review EXCEPT ![v] = "failed"]
                              /\ UNCHANGED pc
  <2>1. TypeOK' /\ UNCHANGED pc
    BY <1>1, <1>2, <1>4 DEF TypeOK, ReviewEnded
  <2> QED
    BY <1>1, <2>1, QuietInv DEF eventVars
<1> QED
  BY <1>3, <1>4 DEF Drop

LEMMA ReviewInv ==
  ASSUME Inv, NEW v \in Reviews, ReviewStep(v)
  PROVE  Inv'
<1>1. TypeOK
  BY DEF Inv
<1>2. CASE LoadAlert(v)
  <2>1. TypeOK'
    BY <1>1, <1>2 DEF LoadAlert, TypeOK, eventVars, alertVars, ReviewEnded
  <2> QED
    BY <1>2, <2>1, QuietInv DEF LoadAlert, alertVars
<1>3. CASE WriteStatus(v)
  <2>1. TypeOK'
    BY <1>1, <1>3 DEF WriteStatus, TypeOK, eventVars
  <2> QED
    BY <1>3, <2>1, QuietInv DEF WriteStatus
<1>4. CASE AuditReview(v)
  <2>1. TypeOK'
    BY <1>1, <1>4 DEF AuditReview, TypeOK, eventVars, alertVars, ReviewEnded
  <2> QED
    BY <1>4, <2>1, QuietInv DEF AuditReview, alertVars
<1> QED
  BY <1>2, <1>3, <1>4 DEF ReviewStep

-----------------------------------------------------------------------------
LEMMA Start == Init => Inv
<1> SUFFICES ASSUME Init PROVE Inv
  OBVIOUS
<1>1. TypeOK
  BY MaxTimeAssumption, DroppedAssumption DEF Init, TypeOK, Times, Statuses
<1>2. /\ \A e \in Events : pc[e] = "stamp"
      /\ recorded = {} /\ alerts = {}
  BY DEF Init
<1>3. \A e \in Events : Tracked(e)
  BY <1>2 DEF Tracked
<1>4. \A S \in SUBSET {e \in Events : pc[e] \in Past} : ~Burst(S)
  BY <1>2 DEF Past, Burst
<1> QED
  BY <1>1, <1>2, <1>3, <1>4 DEF Inv

LEMMA StepInv == Inv /\ [Next]_vars => Inv'
<1> SUFFICES ASSUME Inv, [Next]_vars PROVE Inv'
  OBVIOUS
<1>1. ASSUME NEW e \in Events, EventStep(e) PROVE Inv'
  BY <1>1, StampInv, CommitInv, ObserveInv, CountInv, LookupInv, CreateInv, AuditInv DEF EventStep
<1>2. ASSUME NEW v \in Reviews, ReviewStep(v) PROVE Inv'
  BY <1>2, ReviewInv
<1>3. CASE Drop
  BY <1>3, DropInv
<1>4. CASE Tick
  <2>1. TypeOK'
    BY <1>4, MaxTimeAssumption DEF Inv, TypeOK, Tick, Times, eventVars, alertVars, reviewVars
  <2> QED
    BY <1>4, <2>1, QuietInv DEF Tick, alertVars
<1>5. CASE UNCHANGED vars
  <2>1. TypeOK'
    BY <1>5 DEF Inv, TypeOK, Times, vars, eventVars, alertVars, reviewVars
  <2> QED
    BY <1>5, <2>1, QuietInv DEF vars, alertVars
<1> QED
  BY <1>1, <1>2, <1>3, <1>4, <1>5 DEF Next

\* Every reachable state satisfies the invariant.
LEMMA AlwaysInv == Spec => []Inv
BY Start, StepInv, PTL DEF Spec

-----------------------------------------------------------------------------
(* What it says of the monitoring.                                         *)

\* The tables, the events and the reviews have their types.
THEOREM TypesHold == Spec => []TypeOK
<1>1. Inv => TypeOK
  BY DEF Inv
<1> QED
  BY <1>1, AlwaysInv, PTL

\* No alert stands on less than a burst of its own stream.
THEOREM AlertsAreFounded == Spec => []NoFalseAlert
<1>1. Inv => NoFalseAlert
  <2> SUFFICES ASSUME Inv, NEW k \in alerts
               PROVE  /\ k = DedupeKey(raised[k])
                      /\ Cardinality({f \in recorded : /\ SameStream(raised[k], f)
                                                       /\ stamp[f] >= at[raised[k]] - Window})
                           >= Threshold
    BY DEF NoFalseAlert
  <2>1. k = DedupeKey(raised[k]) /\ Reached(raised[k])
    BY DEF Inv, Founded
  <2>2. {f \in recorded : SameStream(raised[k], f) /\ stamp[f] >= at[raised[k]] - Window}
          = Matches(raised[k])
    BY DEF Matches, SameStream
  <2> QED
    BY <2>1, <2>2 DEF Reached
<1> QED
  BY <1>1, AlwaysInv, PTL

\* However many events overlap, whatever the threshold and the window, the
\* event of a burst that is counted last raises the alert or finds it.
THEOREM BurstsAreSeen == Spec => []NoMissedBurst
<1>1. Inv => NoMissedBurst
  <2> SUFFICES ASSUME Inv, NEW S \in SUBSET {e \in Events : pc[e] \in {"done", "conflict"}}, Burst(S)
               PROVE  \E e \in S : DedupeKey(e) \in alerts
    BY DEF NoMissedBurst
  <2>1. S \in SUBSET {e \in Events : pc[e] \in Past}
    BY DEF Past
  <2>2. SeenBy(S)
    BY <2>1 DEF Inv
  <2> QED
    BY <2>2 DEF SeenBy
<1> QED
  BY <1>1, AlwaysInv, PTL

\* Multiples of a window that are less than a window apart are the same.
LEMMA MultiplesAreApart ==
  ASSUME NEW w \in Nat \ {0}, NEW i \in Int, NEW j \in Int, i * w - j * w \in (1 - w)..(w - 1)
  PROVE  i = j
<1> DEFINE d == i - j
<1>1. d \in Int /\ d * w = i * w - j * w
  OBVIOUS
<1>2. d * w \in Int /\ 1 - w <= d * w /\ d * w <= w - 1
  BY <1>1
<1> HIDE DEF d
<1>3. CASE d >= 1
  <2>1. d * w >= w
    BY <1>1, <1>3
  <2> QED
    BY <1>2, <2>1
<1>4. CASE d <= -1
  <2>1. d * w <= -w
    BY <1>1, <1>4
  <2> QED
    BY <1>2, <2>1
<1>5. d = 0
  BY <1>1, <1>3, <1>4
<1> QED
  BY <1>5 DEF d

\* A bucket is a multiple of the window, since the window divides the hour.
LEMMA BucketsAreMultiples ==
  ASSUME NEW time \in Times
  PROVE  \E i \in Int : Bucket(time) = i * Window
<1> DEFINE q == Hour \div Window
           h == time \div Hour
           r == (time % Hour) \div Window
<1>1. Window \in Nat \ {0} /\ Hour \in Nat \ {0} /\ time \in Nat
  BY WindowAssumption, MaxTimeAssumption DEF Times
<1>2. q \in Int /\ h \in Int /\ r \in Int
  BY <1>1
<1>3. Hour = q * Window
  BY <1>1, WindowAssumption
<1>4. Bucket(time) = h * Hour + r * Window
  BY DEF Bucket
<1> HIDE DEF q, h, r
<1>5. h * Hour = (h * q) * Window
  BY <1>1, <1>2, <1>3
<1>6. h * q + r \in Int /\ (h * q + r) * Window = (h * q) * Window + r * Window
  BY <1>1, <1>2
<1> QED
  BY <1>4, <1>5, <1>6

\* The alerts of one stream are at least a window apart, for any window that
\* divides the hour.
THEOREM AlertsDoNotCrowd == Spec => []AlertsAreApart
<1>1. Inv => AlertsAreApart
  <2> SUFFICES ASSUME Inv, NEW k \in alerts, NEW l \in alerts,
                      SameStream(raised[k], raised[l]), k # l, k[3] - l[3] \in (1 - Window)..(Window - 1)
               PROVE  FALSE
    BY DEF AlertsAreApart
  <2>1. /\ k = DedupeKey(raised[k]) /\ l = DedupeKey(raised[l])
        /\ at[raised[k]] \in Times /\ at[raised[l]] \in Times
    BY DEF Inv, Founded
  <2>2. k[3] = Bucket(at[raised[k]]) /\ l[3] = Bucket(at[raised[l]])
    BY <2>1 DEF DedupeKey
  <2>3. PICK i \in Int, j \in Int : k[3] = i * Window /\ l[3] = j * Window
    BY <2>1, <2>2, BucketsAreMultiples
  <2>4. i = j
    BY <2>3, MultiplesAreApart, WindowAssumption
  <2> QED
    BY <2>1, <2>2, <2>3, <2>4 DEF DedupeKey, SameStream
<1> QED
  BY <1>1, AlwaysInv, PTL

\* An alert that is not on record betrays a request that failed.
THEOREM AlertsAreOnRecord == Spec => []UnauditedMeansFailed
<1>1. Inv => UnauditedMeansFailed
  BY DEF Inv, Founded, UnauditedMeansFailed
<1> QED
  BY <1>1, AlwaysInv, PTL

\* No event undoes what a reviewer made of an alert.
THEOREM ReviewsLast == Spec => ReviewsSurviveEvents
<1> DEFINE Survives ==
      \A k \in alerts :
        /\ k \in alerts' /\ raised'[k] = raised[k]
        /\ status'[k] # status[k] => \E v \in Reviews : subject[v] = k /\ WriteStatus(v)
<1>1. Inv /\ [Next]_vars => [Survives]_vars
  <2> SUFFICES ASSUME Inv, Next PROVE Survives
    BY DEF vars
  <2>1. TypeOK
    BY DEF Inv
  <2>2. ASSUME NEW e \in Events, CreateAlert(e) PROVE Survives
    <3>1. UNCHANGED status /\ alerts \subseteq alerts' /\ \A k \in alerts : raised'[k] = raised[k]
      BY <2>1, <2>2 DEF CreateAlert, alertVars, TypeOK
    <3> QED
      BY <3>1
  <2>3. ASSUME NEW e \in Events,
               StampEntry(e) \/ CommitEntry(e) \/ Observe(e) \/ CountEvents(e) \/ LookupAlert(e)
                 \/ AuditAlert(e)
        PROVE  Survives
    <3>1. UNCHANGED <<alerts, raised, status>>
      BY <2>3 DEF StampEntry, CommitEntry, Observe, CountEvents, LookupAlert, AuditAlert, alertVars
    <3> QED
      BY <3>1
  <2>4. ASSUME NEW v \in Reviews, WriteStatus(v) PROVE Survives
    <3>1. UNCHANGED <<alerts, raised>> /\ \A k \in alerts : k # subject[v] => status'[k] = status[k]
      BY <2>1, <2>4 DEF WriteStatus, TypeOK
    <3> QED
      BY <2>4, <3>1
  <2>5. ASSUME NEW v \in Reviews, LoadAlert(v) \/ AuditReview(v) PROVE Survives
    <3>1. UNCHANGED <<alerts, raised, status>>
      BY <2>5 DEF LoadAlert, AuditReview, alertVars
    <3> QED
      BY <3>1
  <2>6. CASE Drop \/ Tick
    <3>1. UNCHANGED <<alerts, raised, status>>
      BY <2>6 DEF Drop, Tick, alertVars
    <3> QED
      BY <3>1
  <2> QED
    BY <2>2, <2>3, <2>4, <2>5, <2>6 DEF Next, EventStep, ReviewStep
<1> QED
  BY <1>1, AlwaysInv, PTL DEF Spec, ReviewsSurviveEvents
=============================================================================
