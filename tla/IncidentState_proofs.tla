------------------------ MODULE IncidentState_proofs ------------------------
(***************************************************************************)
(* Proofs about IncidentState for any number of requests and rows.  The    *)
(* level is the row that counts after all others, whatever the order in    *)
(* which rows were appended: first, that there always is one.              *)
(***************************************************************************)
EXTENDS IncidentState, TLAPS

\* Row i counts after all others.
Counts(i) == \A j \in DOMAIN history \ {i} : CountsAfter(i, j)

\* What is known of a request.
RequestOK(r) ==
  /\ r \in Escalations => target[r] = "LOCKDOWN"
  /\ pc[r] = "check" => r \in Escalations
  /\ pc[r] = "append" => target[r] \in Allowed(current[r])

Inv ==
  /\ TypeOK
  /\ history # <<>> => \E i \in DOMAIN history : Counts(i)
  /\ \A r \in Requests : RequestOK(r)

-----------------------------------------------------------------------------
\* A row has its type.
LEMMA RowTypes ==
  ASSUME TypeOK, NEW i \in DOMAIN history
  PROVE  history[i].level \in Levels /\ history[i].changed_at \in Nat
<1> DEFINE Row == [level : Levels, changed_at : Nat, by : Requests]
<1>1. history \in Seq(Row)
  BY DEF TypeOK
<1>2. \A row \in Row : row.level \in Levels /\ row.changed_at \in Nat
  OBVIOUS
<1> HIDE DEF Row
<1>3. history[i] \in Row
  BY <1>1
<1> QED
  BY <1>2, <1>3

\* The level is the one of a row or the default.
LEMMA LevelOfARow ==
  ASSUME Inv
  PROVE  \/ history = <<>> /\ CurrentLevel = DefaultLevel
         \/ \E i \in DOMAIN history : CurrentLevel = history[i].level
<1>1. CASE history = <<>>
  BY <1>1 DEF CurrentLevel
<1>2. CASE history # <<>>
  <2> DEFINE i == CHOOSE i \in DOMAIN history : \A j \in DOMAIN history \ {i} : CountsAfter(i, j)
  <2>1. i \in DOMAIN history
    BY <1>2 DEF Inv, Counts
  <2>2. CurrentLevel = history[i].level
    BY <1>2 DEF CurrentLevel
  <2> QED
    BY <2>1, <2>2
<1> QED
  BY <1>1, <1>2

LEMMA LevelIsALevel == Inv => CurrentLevel \in Levels
<1> SUFFICES ASSUME Inv PROVE CurrentLevel \in Levels
  OBVIOUS
<1>1. \A i \in DOMAIN history : history[i].level \in Levels
  BY RowTypes DEF Inv
<1> QED
  BY <1>1, LevelOfARow, DefaultLevelAssumption

\* What an append does to the rows.
LEMMA Appended ==
  ASSUME TypeOK, NEW row \in [level : Levels, changed_at : Nat, by : Requests],
         history' = Append(history, row)
  PROVE  /\ history' \in Seq([level : Levels, changed_at : Nat, by : Requests])
         /\ Len(history') = Len(history) + 1 /\ Len(history) \in Nat
         /\ DOMAIN history = 1..Len(history) /\ DOMAIN history' = 1..(Len(history) + 1)
         /\ \A i \in DOMAIN history : history'[i] = history[i]
         /\ history'[Len(history) + 1] = row
BY DEF TypeOK

\* Rows are as before in their order among themselves.
LEMMA OrderStays ==
  ASSUME NEW i \in DOMAIN history, NEW j \in DOMAIN history,
         history'[i] = history[i], history'[j] = history[j]
  PROVE  CountsAfter(i, j)' <=> CountsAfter(i, j)
BY DEF CountsAfter

\* Either the new row counts or the one that did.
LEMMA SomeRowCounts ==
  ASSUME Inv, NEW row \in [level : Levels, changed_at : Nat, by : Requests],
         history' = Append(history, row)
  PROVE  \E i \in DOMAIN history' : Counts(i)'
<1> DEFINE n == Len(history)
<1>1. /\ n \in Nat /\ DOMAIN history = 1..n /\ DOMAIN history' = 1..(n + 1)
      /\ \A i \in 1..n : history'[i] = history[i]
      /\ history'[n + 1] = row
  BY Appended DEF Inv
<1>2. \A i \in 1..n : history[i].changed_at \in Nat
  BY <1>1, RowTypes DEF Inv
<1>3. row.changed_at \in Nat
  OBVIOUS
<1>4. PICK m \in Nat : m = n
  BY <1>1
<1> HIDE DEF n
<1>5. CASE history = <<>>
  <2>1. m = 0
    BY <1>4, <1>5 DEF n
  <2> QED
    BY <1>1, <1>4, <2>1 DEF Counts
<1>6. CASE history # <<>>
  <2>1. PICK i \in DOMAIN history : Counts(i)
    BY <1>6 DEF Inv
  <2>2. i \in 1..m /\ \A j \in 1..m \ {i} : CountsAfter(i, j)
    BY <1>1, <1>4, <2>1 DEF Counts
  <2>3. \A j \in 1..m : history[j].changed_at <= history[i].changed_at
    BY <1>2, <1>4, <2>2 DEF CountsAfter
  <2>4. CASE row.changed_at >= history[i].changed_at
    <3>1. \A j \in 1..m : CountsAfter(m + 1, j)'
      <4> SUFFICES ASSUME NEW j \in 1..m PROVE CountsAfter(m + 1, j)'
        OBVIOUS
      <4>1. history'[m + 1].changed_at >= history'[j].changed_at
        BY <1>1, <1>2, <1>3, <1>4, <2>2, <2>3, <2>4
      <4>2. history'[m + 1].changed_at \in Nat /\ history'[j].changed_at \in Nat /\ m + 1 > j
        BY <1>1, <1>2, <1>3, <1>4
      <4>3. PICK a \in Nat, b \in Nat : a = history'[m + 1].changed_at /\ b = history'[j].changed_at
        BY <4>2
      <4>4. a >= b
        BY <4>1, <4>3
      <4>5. a > b \/ a = b
        BY <4>4
      <4> QED
        BY <4>2, <4>3, <4>5 DEF CountsAfter
    <3>2. m + 1 \in DOMAIN history' /\ DOMAIN history' \ {m + 1} \subseteq 1..m
      BY <1>1, <1>4
    <3> QED
      BY <3>1, <3>2 DEF Counts
  <2>5. CASE row.changed_at < history[i].changed_at
    <3>1. CountsAfter(i, m + 1)'
      BY <1>1, <1>2, <1>3, <1>4, <2>2, <2>5 DEF CountsAfter
    <3>2. \A j \in 1..m \ {i} : CountsAfter(i, j)'
      BY <1>1, <1>4, <2>2, OrderStays
    <3>3. i \in DOMAIN history' /\ DOMAIN history' \ {i} \subseteq (1..m \ {i}) \cup {m + 1}
      BY <1>1, <1>4, <2>2
    <3>4. Counts(i)'
      BY <3>1, <3>2, <3>3 DEF Counts
    <3> QED
      BY <3>3, <3>4
  <2> QED
    BY <1>2, <1>3, <1>4, <2>2, <2>4, <2>5
<1> QED
  BY <1>5, <1>6

-----------------------------------------------------------------------------
\* A step that leaves the rows alone, and moves one request.
LEMMA RowsStay ==
  ASSUME Inv, NEW r \in Requests, TypeOK', UNCHANGED <<history, target>>, RequestOK(r)',
         \A q \in Requests \ {r} : pc'[q] = pc[q] /\ current'[q] = current[q]
  PROVE  Inv'
<1>1. \A i : Counts(i)' <=> Counts(i)
  BY DEF Counts, CountsAfter
<1>2. \A q \in Requests \ {r} : RequestOK(q)'
  BY <1>1 DEF Inv, RequestOK
<1> QED
  BY <1>1, <1>2 DEF Inv

LEMMA StepInv == Inv /\ [Next]_vars => Inv'
<1> SUFFICES ASSUME Inv, [Next]_vars PROVE Inv'
  OBVIOUS
<1>1. TypeOK
  BY DEF Inv
<1>2. ASSUME NEW r \in Requests, Begin(r) PROVE Inv'
  <2>1. TypeOK' /\ UNCHANGED <<history, target, current, effect>> /\ pc'[r] = FirstStep(r)
        /\ \A q \in Requests \ {r} : pc'[q] = pc[q]
    BY <1>1, <1>2 DEF Begin, TypeOK, FirstStep
  <2>2. RequestOK(r)'
    BY <2>1 DEF Inv, RequestOK, FirstStep
  <2> QED
    BY <2>1, <2>2, RowsStay
<1>3. ASSUME NEW r \in Requests, CheckLockdown(r) PROVE Inv'
  <2>1. /\ pc[r] = "check" /\ UNCHANGED <<history, clock, target, began, current, dropped>>
        /\ \/ /\ CurrentLevel = "LOCKDOWN"
              /\ effect' = [effect EXCEPT ![r] = "already_lockdown"]
              /\ pc' = [pc EXCEPT ![r] = "audit"]
           \/ pc' = [pc EXCEPT ![r] = "read"] /\ UNCHANGED effect
    BY <1>3 DEF CheckLockdown
  <2>2. r \in Escalations /\ r \notin Changes
    BY <2>1, RequestsAssumption DEF Inv, RequestOK
  <2>3. TypeOK'
    BY <1>1, <2>1, <2>2 DEF TypeOK, Requests
  <2>4. pc'[r] \in {"audit", "read"} /\ \A q \in Requests \ {r} : pc'[q] = pc[q]
    BY <1>1, <2>1 DEF TypeOK
  <2>5. RequestOK(r)'
    BY <2>1, <2>2, <2>4 DEF Inv, RequestOK
  <2> QED
    BY <2>1, <2>3, <2>4, <2>5, RowsStay
<1>4. ASSUME NEW r \in Requests, ReadLevel(r) PROVE Inv'
  <2>1. /\ pc[r] = "read" /\ UNCHANGED <<history, clock, target, began, dropped>>
        /\ current' = [current EXCEPT ![r] = CurrentLevel]
        /\ \/ /\ target[r] # CurrentLevel /\ target[r] \in Allowed(CurrentLevel)
              /\ pc' = [pc EXCEPT ![r] = "append"]
              /\ UNCHANGED effect
           \/ /\ target[r] = CurrentLevel \/ target[r] \notin Allowed(CurrentLevel)
              /\ pc' = [pc EXCEPT ![r] = AfterDenial(r)]
              /\ effect' = [effect EXCEPT ![r] = "transition_denied"]
    BY <1>4 DEF ReadLevel
  <2>2. CurrentLevel \in Levels
    BY LevelIsALevel
  <2>3. TypeOK'
    BY <1>1, <2>1, <2>2 DEF TypeOK, AfterDenial, Ended, Requests
  <2>4. /\ current'[r] = CurrentLevel
        /\ \A q \in Requests \ {r} : pc'[q] = pc[q] /\ current'[q] = current[q]
        /\ \/ pc'[r] = "append" /\ target[r] \in Allowed(CurrentLevel)
           \/ pc'[r] \in {"audit", "done"}
    BY <1>1, <2>1 DEF TypeOK, AfterDenial
  <2>5. RequestOK(r)'
    BY <2>1, <2>4 DEF Inv, RequestOK
  <2> QED
    BY <2>1, <2>3, <2>4, <2>5, RowsStay
<1>5. ASSUME NEW r \in Requests, AppendTransition(r) PROVE Inv'
  <2> DEFINE row == [level |-> target[r], changed_at |-> began[r], by |-> r]
  <2>1. /\ pc[r] = "append" /\ UNCHANGED <<clock, target, began, current, dropped>>
        /\ history' = Append(history, row)
        /\ effect' = [effect EXCEPT ![r] = "changed"]
        /\ pc' = [pc EXCEPT ![r] = "audit"]
    BY <1>5 DEF AppendTransition
  <2>2. row \in [level : Levels, changed_at : Nat, by : Requests]
    BY <1>1 DEF TypeOK
  <2> HIDE DEF row
  <2>4. /\ history' \in Seq([level : Levels, changed_at : Nat, by : Requests])
        /\ Len(history) \in Nat
        /\ DOMAIN history = 1..Len(history) /\ DOMAIN history' = 1..(Len(history) + 1)
        /\ \A i \in DOMAIN history : history'[i] = history[i]
        /\ history'[Len(history) + 1] = row
    BY <1>1, <2>1, <2>2, Appended
  <2>5. TypeOK'
    BY <1>1, <2>1, <2>4 DEF TypeOK
  <2>6. \E i \in DOMAIN history' : Counts(i)'
    BY <2>1, <2>2, SomeRowCounts
  <2>7. \A q \in Requests : RequestOK(q)'
    BY <1>1, <2>1 DEF Inv, RequestOK, TypeOK
  <2> QED
    BY <2>5, <2>6, <2>7 DEF Inv
<1>6. ASSUME NEW r \in Requests, Audit(r) \/ Drop(r) PROVE Inv'
  <2>1. /\ UNCHANGED <<history, target, current, effect>>
        /\ pc' \in {[pc EXCEPT ![r] = "done"], [pc EXCEPT ![r] = "failed"]}
    BY <1>6 DEF Audit, Drop
  <2>2. dropped' \in 0..Dropped /\ UNCHANGED <<clock, began>>
    BY <1>1, <1>6, DroppedAssumption DEF Audit, Drop, TypeOK
  <2>3. TypeOK' /\ pc'[r] \in Ended /\ \A q \in Requests \ {r} : pc'[q] = pc[q]
    BY <1>1, <2>1, <2>2 DEF TypeOK, Ended
  <2>4. RequestOK(r)'
    BY <2>1, <2>3 DEF Inv, RequestOK, Ended
  <2> QED
    BY <2>1, <2>3, <2>4, RowsStay
<1>7. ASSUME UNCHANGED vars PROVE Inv'
  <2>1. UNCHANGED <<history, clock, pc, target, began, current, effect, dropped>>
    BY <1>7 DEF vars
  <2>2. \A i : Counts(i)' <=> Counts(i)
    BY <2>1 DEF Counts, CountsAfter
  <2>3. TypeOK' /\ \A q \in Requests : RequestOK(q)'
    BY <2>1, <2>2 DEF Inv, TypeOK, RequestOK
  <2> QED
    BY <2>1, <2>2, <2>3 DEF Inv
<1> QED
  BY <1>2, <1>3, <1>4, <1>5, <1>6, <1>7 DEF Next, Step

LEMMA Start == Init => Inv
<1> SUFFICES ASSUME Init PROVE Inv
  OBVIOUS
<1>1. TypeOK
  BY DefaultLevelAssumption, DroppedAssumption DEF Init, TypeOK, Requests
<1>2. \A r \in Requests : RequestOK(r)
  BY DEF Init, RequestOK, Requests
<1> QED
  BY <1>1, <1>2 DEF Inv, Init

\* Every reachable state satisfies the invariant.
LEMMA AlwaysInv == Spec => []Inv
BY Start, StepInv, PTL DEF Spec

-----------------------------------------------------------------------------
\* A row that was not overtaken counts once it is appended, also after rows
\* that bear its time.
LEMMA NotOvertakenCounts ==
  ASSUME Inv, NEW r \in Requests, AppendTransition(r), ~Overtaken(r)
  PROVE  CurrentLevel' = target[r]
<1> DEFINE row == [level |-> target[r], changed_at |-> began[r], by |-> r]
<1>1. pc[r] = "append" /\ history' = Append(history, row) /\ TypeOK
  BY DEF AppendTransition, Inv
<1>2. row \in [level : Levels, changed_at : Nat, by : Requests]
  BY <1>1 DEF TypeOK
<1>3. row.level = target[r] /\ row.changed_at = began[r] /\ began[r] \in Nat
  BY <1>1 DEF TypeOK
<1> HIDE DEF row
<1>4. PICK n \in Nat : n = Len(history)
  BY <1>1, <1>2, Appended
<1>5. /\ DOMAIN history = 1..n /\ DOMAIN history' = 1..(n + 1)
      /\ \A i \in 1..n : history'[i] = history[i]
      /\ history'[n + 1] = row
  BY <1>1, <1>2, <1>4, Appended
<1>6. \A i \in 1..n : history'[i].changed_at \in Nat /\ history'[i].changed_at <= began[r]
  BY <1>1, <1>3, <1>5, RowTypes DEF Overtaken
<1>7. \A i \in 1..n : CountsAfter(n + 1, i)' /\ ~CountsAfter(i, n + 1)'
  <2> SUFFICES ASSUME NEW i \in 1..n PROVE CountsAfter(n + 1, i)' /\ ~CountsAfter(i, n + 1)'
    OBVIOUS
  <2>1. history'[n + 1].changed_at = began[r] /\ n + 1 > i
    BY <1>3, <1>4, <1>5
  <2> QED
    BY <1>3, <1>6, <2>1 DEF CountsAfter
<1>8. \A i \in DOMAIN history' : (\A j \in DOMAIN history' \ {i} : CountsAfter(i, j)') <=> i = n + 1
  <2>1. n + 1 \in DOMAIN history' /\ n + 1 \notin 1..n /\ DOMAIN history' = 1..n \cup {n + 1}
    BY <1>4, <1>5
  <2> QED
    BY <1>7, <2>1
<1>9. CurrentLevel' = history'[n + 1].level
  <2>1. n + 1 \in DOMAIN history' /\ history' # <<>>
    BY <1>4, <1>5
  <2>2. (CHOOSE i \in DOMAIN history' : \A j \in DOMAIN history' \ {i} : CountsAfter(i, j)') = n + 1
    BY <1>8, <2>1
  <2> QED
    BY <2>1, <2>2 DEF CurrentLevel
<1> QED
  BY <1>3, <1>5, <1>9

\* The level is the default or that of a row: it changes with the rows alone.
LEMMA LevelStays == UNCHANGED history => CurrentLevel' = CurrentLevel
BY DEF CurrentLevel, CountsAfter

-----------------------------------------------------------------------------
\* The rows and the requests have their types.
THEOREM TypesHold == Spec => []TypeOK
<1>1. Inv => TypeOK
  BY DEF Inv
<1> QED
  BY <1>1, AlwaysInv, PTL

\* However changes of the level overtake each other, LOCKDOWN is in force when
\* a crypto-shred settles what it reports of it, unless it reports a row of its
\* own that a change begun later had overtaken.
THEOREM ShredLocksDown == Spec => ShredLocksDownUnlessOvertaken
<1> DEFINE Settles == \A r \in Escalations :
                        effect'[r] # effect[r] =>
                          \/ CurrentLevel' = "LOCKDOWN"
                          \/ effect'[r] = "changed" /\ Overtaken(r)
<1>1. Inv /\ [Next]_vars => [Settles]_vars
  <2> SUFFICES ASSUME Inv, Next, NEW r \in Escalations, effect'[r] # effect[r]
               PROVE  \/ CurrentLevel' = "LOCKDOWN"
                      \/ effect'[r] = "changed" /\ Overtaken(r)
    OBVIOUS
  <2>1. r \in Requests /\ target[r] = "LOCKDOWN" /\ TypeOK
    BY DEF Inv, RequestOK, Requests
  <2>2. PICK q \in Requests : Step(q) \/ Drop(q)
    BY DEF Next
  <2>3. \A x : [effect EXCEPT ![q] = x][r] # effect[r] => q = r
    BY <2>1, <2>2 DEF TypeOK
  <2>4. q = r /\ (CheckLockdown(r) \/ ReadLevel(r) \/ AppendTransition(r))
    <3>1. ~Begin(q) /\ ~Audit(q) /\ ~Drop(q)
      BY DEF Begin, Audit, Drop
    <3>2. CheckLockdown(q) \/ ReadLevel(q) \/ AppendTransition(q)
      BY <2>2, <3>1 DEF Step
    <3>3. q = r
      BY <2>3, <3>2 DEF CheckLockdown, ReadLevel, AppendTransition
    <3> QED
      BY <3>2, <3>3
  <2>5. CASE CheckLockdown(r)
    BY <2>5, LevelStays DEF CheckLockdown
  <2>6. CASE ReadLevel(r)
    <3>1. CurrentLevel = "LOCKDOWN" \/ target[r] \notin Allowed(CurrentLevel)
      BY <2>1, <2>6 DEF ReadLevel
    <3>2. "LOCKDOWN" \in Allowed("NORMAL") /\ "LOCKDOWN" \in Allowed("QUARANTINE")
      BY DEF Allowed
    <3>3. CurrentLevel = "LOCKDOWN"
      BY <2>1, <3>1, <3>2, LevelIsALevel DEF Levels
    <3> QED
      BY <2>6, <3>3, LevelStays DEF ReadLevel
  <2>7. CASE AppendTransition(r)
    <3>1. effect'[r] = "changed"
      BY <2>1, <2>7 DEF AppendTransition, TypeOK
    <3> QED
      BY <2>1, <2>7, <3>1, NotOvertakenCounts
  <2> QED
    BY <2>4, <2>5, <2>6, <2>7
<1> QED
  BY <1>1, AlwaysInv, PTL DEF Spec, ShredLocksDownUnlessOvertaken

\* A change that nobody overtook is the level from its commit on, and one the
\* rules allow, however many rows bear its time.
THEOREM UncontestedChangeWins == Spec => UncontestedChangeTakesEffect
<1> DEFINE Wins == \A r \in Requests :
                     AppendTransition(r) /\ Uncontested(r) =>
                       /\ CurrentLevel' = target[r]
                       /\ CurrentLevel' \in Allowed(CurrentLevel)
<1>1. Inv /\ [Next]_vars => [Wins]_vars
  <2> SUFFICES ASSUME Inv, NEW r \in Requests, AppendTransition(r), Uncontested(r)
               PROVE  CurrentLevel' = target[r] /\ CurrentLevel' \in Allowed(CurrentLevel)
    OBVIOUS
  <2>1. CurrentLevel' = target[r]
    BY NotOvertakenCounts DEF Uncontested
  <2>2. target[r] \in Allowed(CurrentLevel)
    BY DEF Inv, RequestOK, Uncontested, AppendTransition
  <2> QED
    BY <2>1, <2>2
<1> QED
  BY <1>1, AlwaysInv, PTL DEF Spec, UncontestedChangeTakesEffect
=============================================================================
