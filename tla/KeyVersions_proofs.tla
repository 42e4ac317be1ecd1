-------------------------- MODULE KeyVersions_proofs --------------------------
(***************************************************************************)
(* Proofs about KeyVersions for any versions and any finite sets of        *)
(* requests.  What a commit may assume of its row was seen when the row    *)
(* was loaded, with other commits since: the invariant says which of it    *)
(* is still true.                                                          *)
(***************************************************************************)
EXTENDS KeyVersions, TLAPS

\* A row that is about to be written is there.
WrittenRowsExist ==
  \A r \in Requests :
    /\ pc[r] \in {"seed_select", "seed_commit"} => keys[SeedVersion].registered
    /\ pc[r] \in {"select", "commit"} => keys[target[r]].registered
    /\ \A v \in actives[r].found : keys[v].registered

\* A rotation goes on only with a target it loaded undestroyed.
TargetsLoadedAlive ==
  \A r \in Rotations : pc[r] \in {"select", "commit"} => ~loaded[r].destroyed

\* The inductive invariant.
Inv == TypeOK /\ WrittenRowsExist /\ TargetsLoadedAlive

\* A table after a commit: well typed, and no row or destruction is lost.
TableKept ==
  /\ keys' \in [Versions -> KeyRows]
  /\ \A v \in Versions : ~keys'[v].registered => keys'[v] = NoRow
  /\ \A v \in Versions : keys[v].registered => keys'[v].registered
  /\ \A v \in Versions : keys[v].destroyed => keys'[v].destroyed

\* The end of set_active keeps the table, however old the object it writes is.
LEMMA SetActiveKeeps ==
  ASSUME Inv, NEW r \in Requests, NEW v \in Versions, keys[v].registered,
         keys' = AfterSetActive(r, v)
  PROVE  TableKept
<1>1. \A w \in Versions : keys[w] \in KeyRows
  BY DEF Inv, TypeOK
<1>2. loaded[r] \in KeyRows /\ actives[r] \in [found : SUBSET Versions, now : Nat]
  BY DEF Inv, TypeOK
<1>3. ASSUME NEW w \in Versions
      PROVE  /\ keys'[w] \in KeyRows
             /\ keys'[w].registered = keys[w].registered
             /\ keys'[w].destroyed = keys[w].destroyed
             /\ ~keys[w].registered => keys'[w] = keys[w]
  <2>1. CASE w = v
    <3>1. keys'[w] = [keys[w] EXCEPT !.active = IF loaded[r].active THEN keys[w].active ELSE TRUE,
                                     !.activated_at = actives[r].now]
      BY <2>1 DEF AfterSetActive
    <3> QED
      BY <1>1, <1>2, <2>1, <3>1 DEF KeyRows
  <2>2. CASE w # v /\ w \in SwitchedOff(r)
    <3>1. keys'[w] = [keys[w] EXCEPT !.active = FALSE]
      BY <2>2 DEF AfterSetActive
    <3>2. keys[w].registered
      BY <2>2 DEF Inv, WrittenRowsExist, SwitchedOff
    <3> QED
      BY <1>1, <3>1, <3>2 DEF KeyRows
  <2>3. CASE w # v /\ w \notin SwitchedOff(r)
    BY <1>1, <2>3 DEF AfterSetActive
  <2> QED
    BY <2>1, <2>2, <2>3
<1>4. keys' \in [Versions -> KeyRows]
  BY <1>3 DEF AfterSetActive
<1> QED
  BY <1>3, <1>4 DEF Inv, TypeOK, TableKept

\* So does the end of mark_destroyed.
LEMMA MarkDestroyedKeeps ==
  ASSUME Inv, NEW r \in Requests, NEW v \in Versions, keys[v].registered,
         keys' = AfterMarkDestroyed(r, v)
  PROVE  TableKept
<1>1. keys \in [Versions -> KeyRows] /\ loaded[r] \in KeyRows
  BY DEF Inv, TypeOK
<1>2. DOMAIN keys' = Versions /\ \A w \in Versions \ {v} : keys'[w] = keys[w]
  BY <1>1 DEF AfterMarkDestroyed
<1>3. keys'[v] = [keys[v] EXCEPT !.destroyed = TRUE,
                                 !.active = IF loaded[r].active THEN FALSE ELSE keys[v].active]
  BY <1>1 DEF AfterMarkDestroyed, KeyRows
<1>4. /\ keys'[v] \in KeyRows
      /\ keys'[v].registered
      /\ keys'[v].destroyed
  BY <1>1, <1>3 DEF KeyRows
<1>5. keys' \in [Versions -> KeyRows]
  BY <1>1, <1>2, <1>4 DEF AfterMarkDestroyed
<1> QED
  BY <1>2, <1>4, <1>5 DEF Inv, TypeOK, TableKept

\* A new row takes the place of none.
LEMMA CreateKeeps ==
  ASSUME Inv, NEW v \in Versions, ~keys[v].registered,
         keys' = [keys EXCEPT ![v] = NewRow]
  PROVE  TableKept
BY DEF Inv, TypeOK, TableKept, KeyRows, NoRow, NewRow

LEMMA UnchangedKeeps == Inv /\ UNCHANGED keys => TableKept
BY DEF Inv, TypeOK, TableKept

LEMMA InitInv == Init => Inv
<1> SUFFICES ASSUME Init PROVE Inv
  OBVIOUS
<1> USE VersionsAssumption, DroppedAssumption DEF Init
<1>1. keys \in [Versions -> KeyRows] /\ \A v \in Versions : ~keys[v].registered => keys[v] = NoRow
  <2>1. \A v \in Registered : keys[v] = [NewRow EXCEPT !.active = (v = SeedVersion)]
    OBVIOUS
  <2>2. \A v \in Versions \ Registered : keys[v] = NoRow
    OBVIOUS
  <2>3. NoRow \in KeyRows /\ NewRow \in KeyRows /\ NewRow.registered
    BY DEF NoRow, NewRow, KeyRows
  <2>4. \A v \in Registered : keys[v] \in KeyRows /\ keys[v].registered
    BY <2>1, <2>3 DEF KeyRows
  <2> QED
    BY <2>2, <2>3, <2>4
<1>2. TypeOK
  <2>1. NoRow \in KeyRows
    BY DEF NoRow, KeyRows
  <2> QED
    BY <1>1, <2>1 DEF TypeOK, Results, NoCurrent, NotSelected
<1>3. WrittenRowsExist /\ TargetsLoadedAlive
  BY DEF WrittenRowsExist, TargetsLoadedAlive, Requests, NotSelected
<1> QED
  BY <1>2, <1>3 DEF Inv

\* A request that forgets what it read holds nothing it could write wrongly.
LEMMA ForgetKeeps ==
  ASSUME Inv, NEW r \in Requests, Forget(r)
  PROVE  /\ loaded' \in [Requests -> KeyRows]
         /\ actives' \in [Requests -> [found : SUBSET Versions, now : Nat]]
         /\ actives'[r].found = {}
         /\ \A q \in Requests \ {r} : loaded'[q] = loaded[q] /\ actives'[q] = actives[q]
<1>1. NoRow \in KeyRows
  BY DEF NoRow, KeyRows
<1>2. NotSelected \in [found : SUBSET Versions, now : Nat] /\ NotSelected.found = {}
  BY DEF NotSelected
<1> QED
  BY <1>1, <1>2 DEF Forget, Inv, TypeOK

\* What a step of r changes of the requests is r's alone.
OnlyMoves(r) ==
  /\ \A q \in Requests \ {r} :
       pc'[q] = pc[q] /\ loaded'[q] = loaded[q] /\ actives'[q] = actives[q]
  /\ UNCHANGED target

\* What the invariant asks of r alone, after its step.
ReadyAfter(r) ==
  /\ pc'[r] \in {"seed_select", "seed_commit"} => keys'[SeedVersion].registered
  /\ pc'[r] \in {"select", "commit"} => keys'[target[r]].registered
  /\ \A v \in actives'[r].found : keys'[v].registered
  /\ r \in Rotations /\ pc'[r] \in {"select", "commit"} => ~loaded'[r].destroyed

\* Rows stay, so what the invariant says of the other requests stays true.
LEMMA Advance ==
  ASSUME Inv, TypeOK', TableKept, NEW r \in Requests, OnlyMoves(r), ReadyAfter(r)
  PROVE  Inv'
<1>1. WrittenRowsExist'
  <2> SUFFICES ASSUME NEW q \in Requests
               PROVE  /\ pc'[q] \in {"seed_select", "seed_commit"} => keys'[SeedVersion].registered
                      /\ pc'[q] \in {"select", "commit"} => keys'[target'[q]].registered
                      /\ \A w \in actives'[q].found : keys'[w].registered
    BY DEF WrittenRowsExist
  <2>1. CASE q = r
    BY <2>1 DEF OnlyMoves, ReadyAfter
  <2>2. CASE q # r
    BY <2>2, VersionsAssumption
    DEF Inv, TypeOK, WrittenRowsExist, TableKept, OnlyMoves
  <2> QED
    BY <2>1, <2>2
<1>2. TargetsLoadedAlive'
  BY DEF Inv, TargetsLoadedAlive, OnlyMoves, ReadyAfter, Requests
<1> QED
  BY <1>1, <1>2 DEF Inv

\* A request that ends leaves a table as good as it found it.
LEMMA EndStep ==
  ASSUME Inv, TableKept, NEW r \in Requests, NEW res \in Results, End(r, res),
         current' \in [Requests -> [version : Versions \cup {NoVersion}, active : BOOLEAN]],
         dropped' \in 0..Dropped, UNCHANGED <<clock, target>>
  PROVE  Inv'
<1>1. /\ pc' = [pc EXCEPT ![r] = "end"]
      /\ result' = [result EXCEPT ![r] = res]
      /\ Forget(r)
  BY DEF End
<1>2. TypeOK'
  BY <1>1, ForgetKeeps DEF Inv, TypeOK, TableKept
<1>3. OnlyMoves(r) /\ ReadyAfter(r)
  BY <1>1, ForgetKeeps DEF Inv, TypeOK, OnlyMoves, ReadyAfter
<1> QED
  BY <1>2, <1>3, Advance

\* So does one that goes on with nothing to write, except a row it will look
\* at first.
LEMMA MoveStep ==
  ASSUME Inv, TableKept, NEW r \in Requests,
         NEW place \in {"lookup", "seed_lookup", "seed_create", "create"}, Move(r, place),
         current' \in [Requests -> [version : Versions \cup {NoVersion}, active : BOOLEAN]],
         UNCHANGED <<clock, target, dropped>>
  PROVE  Inv'
<1>1. /\ pc' = [pc EXCEPT ![r] = place]
      /\ UNCHANGED <<result, loaded, actives>>
  BY DEF Move, Goto
<1>2. TypeOK'
  BY <1>1 DEF Inv, TypeOK, TableKept
<1>3. OnlyMoves(r) /\ ReadyAfter(r)
  BY <1>1 DEF Inv, TypeOK, WrittenRowsExist, TableKept, OnlyMoves, ReadyAfter
<1> QED
  BY <1>2, <1>3, Advance

\* And one that has committed the switch to a version.
LEMMA CommitStep ==
  ASSUME Inv, TableKept, NEW r \in Requests, NEW place \in {"seed_refresh", "audit"},
         Goto(r, place), Forget(r), UNCHANGED <<clock, target, current, dropped>>
  PROVE  Inv'
<1>1. pc' = [pc EXCEPT ![r] = place] /\ UNCHANGED result
  BY DEF Goto
<1>2. TypeOK'
  BY <1>1, ForgetKeeps DEF Inv, TypeOK, TableKept
<1>3. OnlyMoves(r) /\ ReadyAfter(r)
  BY <1>1, ForgetKeeps DEF Inv, TypeOK, OnlyMoves, ReadyAfter
<1> QED
  BY <1>2, <1>3, Advance

\* A request that has found its active version goes on, or ends.
LEMMA AfterSeedKeeps ==
  ASSUME Inv, NEW r \in Requests, NEW v \in Versions, AfterSeed(r, v),
         UNCHANGED <<keys, clock, target, dropped>>
  PROVE  Inv'
<1>1. TableKept
  BY UnchangedKeeps
<1>2. current' \in [Requests -> [version : Versions \cup {NoVersion}, active : BOOLEAN]]
  BY DEF AfterSeed, Inv, TypeOK, KeyRows
<1>3. dropped' \in 0..Dropped
  BY DEF Inv, TypeOK
<1>4. (\E res \in Results : End(r, res)) \/ Move(r, "lookup")
  BY DEF AfterSeed, SeedOutcome, Results
<1> QED
  BY <1>1, <1>2, <1>3, <1>4, EndStep, MoveStep

LEMMA GetActiveStep ==
  ASSUME Inv, NEW r \in Requests, GetActiveVersion(r), UNCHANGED dropped
  PROVE  Inv'
<1>1. TableKept /\ UNCHANGED <<keys, clock, target>> /\ dropped' \in 0..Dropped
  BY UnchangedKeeps DEF GetActiveVersion, Inv, TypeOK
<1>2. PICK v \in GetActive :
        IF v # NoVersion THEN AfterSeed(r, v)
        ELSE /\ IF SeedVersion \in KeyFiles THEN Move(r, "seed_lookup")
                ELSE End(r, "server_error")
             /\ UNCHANGED current
  BY DEF GetActiveVersion
<1>3. CASE v # NoVersion
  <2>1. v \in Versions
    BY <1>3 DEF GetActive, ActiveVersions
  <2> QED
    BY <1>1, <1>2, <1>3, <2>1, AfterSeedKeeps
<1>4. CASE v = NoVersion
  <2>1. current' \in [Requests -> [version : Versions \cup {NoVersion}, active : BOOLEAN]]
    BY <1>2, <1>4 DEF Inv, TypeOK
  <2>2. "server_error" \in Results
    BY DEF Results
  <2> QED
    BY <1>1, <1>2, <1>4, <2>1, <2>2, EndStep, MoveStep
<1> QED
  BY <1>3, <1>4

\* A request that loads a row goes on to write it only if it is there.
LEMMA LookupStep ==
  ASSUME Inv, NEW r \in Requests, UNCHANGED dropped,
         NEW v \in Versions, NEW here, NEW create, NEW write,
         \/ v = SeedVersion /\ create = "seed_create" /\ write = "seed_select"
         \/ v = target[r] /\ create = "create" /\ write = "select" /\ ~keys[v].destroyed,
         Lookup(r, v, here, create, write)
  PROVE  Inv'
<1>1. TableKept
  BY UnchangedKeeps DEF Lookup
<1>2. /\ pc' = [pc EXCEPT ![r] = IF keys[v].registered THEN write ELSE create]
      /\ loaded' = [loaded EXCEPT ![r] = keys[v]]
      /\ UNCHANGED <<keys, clock, target, current, actives, result, dropped>>
  BY DEF Lookup, Goto
<1>3. TypeOK'
  BY <1>2 DEF Inv, TypeOK
<1>4. OnlyMoves(r) /\ ReadyAfter(r)
  BY <1>2 DEF Inv, TypeOK, WrittenRowsExist, OnlyMoves, ReadyAfter
<1> QED
  BY <1>1, <1>3, <1>4, Advance

\* A request that creates its row goes back to look it up.
LEMMA CreateStep ==
  ASSUME Inv, NEW r \in Requests, UNCHANGED dropped,
         NEW v \in Versions, NEW here, NEW back \in {"seed_lookup", "lookup"},
         Create(r, v, here, back)
  PROVE  Inv' /\ TableKept
<1>1. /\ UNCHANGED <<clock, target, dropped>> /\ dropped' \in 0..Dropped
      /\ current' \in [Requests -> [version : Versions \cup {NoVersion}, active : BOOLEAN]]
  BY DEF Create, Inv, TypeOK
<1>2. CASE keys[v].registered
  <2>1. End(r, "server_error") /\ "server_error" \in Results /\ TableKept
    BY <1>2, UnchangedKeeps DEF Create, Results
  <2> QED
    BY <1>1, <2>1, EndStep
<1>3. CASE ~keys[v].registered
  <2>1. Move(r, back) /\ TableKept
    BY <1>3, CreateKeeps DEF Create
  <2> QED
    BY <1>1, <2>1, MoveStep
<1> QED
  BY <1>2, <1>3

\* A request that selects the active versions has rows for all of them.
LEMMA SelectStep ==
  ASSUME Inv, NEW r \in Requests, UNCHANGED dropped, NEW here, NEW commit,
         \/ here = "seed_select" /\ commit = "seed_commit"
         \/ here = "select" /\ commit = "commit",
         SelectActives(r, here, commit)
  PROVE  Inv'
<1>1. /\ pc[r] = here
      /\ pc' = [pc EXCEPT ![r] = commit]
      /\ actives' = [actives EXCEPT ![r] = [found |-> ActiveVersions, now |-> clock]]
      /\ clock' = clock + 1
      /\ UNCHANGED <<keys, target, current, loaded, result, dropped>>
  BY DEF SelectActives, Goto
<1>2. ActiveVersions \subseteq Versions /\ \A v \in ActiveVersions : keys[v].registered
  BY DEF ActiveVersions
<1>3. TypeOK'
  BY <1>1, <1>2 DEF Inv, TypeOK
<1>4. OnlyMoves(r) /\ ReadyAfter(r)
  BY <1>1, <1>2
  DEF Inv, TypeOK, WrittenRowsExist, TargetsLoadedAlive, OnlyMoves, ReadyAfter
<1> QED
  BY <1>1, <1>3, <1>4, UnchangedKeeps, Advance

\* A step of a request keeps the invariant and what the table has recorded.
LEMMA StepInv ==
  ASSUME Inv, NEW r \in Requests, Step(r)
  PROVE  Inv' /\ TableKept
<1> USE VersionsAssumption
<1>1. /\ target[r] \in Versions
      /\ current \in [Requests -> [version : Versions \cup {NoVersion}, active : BOOLEAN]]
      /\ UNCHANGED dropped /\ dropped \in 0..Dropped
  BY DEF Inv, TypeOK, Step
<1>2. \A v \in Versions : keys[v] \in KeyRows
  BY DEF Inv, TypeOK
<1>3. CASE GetActiveVersion(r)
  BY <1>1, <1>3, GetActiveStep, UnchangedKeeps DEF GetActiveVersion
<1>4. CASE LookupSeed(r)
  BY <1>1, <1>4, LookupStep, UnchangedKeeps DEF LookupSeed, Lookup
<1>5. CASE CreateSeed(r)
  BY <1>1, <1>5, CreateStep DEF CreateSeed
<1>6. CASE SelectSeedActives(r)
  BY <1>1, <1>6, SelectStep, UnchangedKeeps DEF SelectSeedActives, SelectActives
<1>7. CASE CommitSeed(r)
  <2>1. keys[SeedVersion].registered
    BY <1>7 DEF CommitSeed, Inv, WrittenRowsExist
  <2>2. TableKept
    BY <1>7, <2>1, SetActiveKeeps DEF CommitSeed
  <2> QED
    BY <1>1, <1>7, <2>2, CommitStep DEF CommitSeed
<1>8. CASE RefreshSeed(r)
  BY <1>1, <1>8, AfterSeedKeeps, UnchangedKeeps DEF RefreshSeed
<1>9. CASE LookupTarget(r)
  <2>1. TableKept
    BY <1>9, UnchangedKeeps DEF LookupTarget, Lookup
  <2>2. CASE keys[target[r]].destroyed
    <3>1. End(r, "target_destroyed") /\ "target_destroyed" \in Results
      BY <1>9, <2>2 DEF LookupTarget, Results
    <3>2. UNCHANGED <<clock, target, current>>
      BY <1>9, <2>2 DEF LookupTarget
    <3> QED
      BY <1>1, <2>1, <3>1, <3>2, EndStep
  <2>3. CASE ~keys[target[r]].destroyed
    BY <1>1, <1>9, <2>1, <2>3, LookupStep DEF LookupTarget
  <2> QED
    BY <2>1, <2>2, <2>3
<1>10. CASE CreateTarget(r)
  BY <1>1, <1>10, CreateStep DEF CreateTarget
<1>11. CASE SelectTargetActives(r)
  BY <1>1, <1>11, SelectStep, UnchangedKeeps DEF SelectTargetActives, SelectActives
<1>12. CASE CommitRotation(r)
  <2>1. TableKept
    BY <1>1, <1>12, SetActiveKeeps DEF CommitRotation, Inv, WrittenRowsExist
  <2> QED
    BY <1>1, <1>12, <2>1, CommitStep DEF CommitRotation
<1>13. CASE RecordRotation(r)
  <2>1. PICK outcome \in {"ok", "server_error"} : End(r, outcome)
    BY <1>13 DEF RecordRotation
  <2>2. outcome \in Results /\ UNCHANGED <<keys, clock, target, current>>
    BY <1>13 DEF RecordRotation, Results
  <2> QED
    BY <1>1, <2>1, <2>2, EndStep, UnchangedKeeps
<1>14. CASE LookupVictim(r)
  <2>1. TableKept /\ UNCHANGED <<keys, clock, target, current>>
    BY <1>14, UnchangedKeeps DEF LookupVictim
  <2>2. CASE keys[target[r]].registered /\ ~keys[target[r]].destroyed
    <3>1. r \notin Rotations
      BY <1>14, RequestsAssumption DEF LookupVictim
    <3>2. /\ pc' = [pc EXCEPT ![r] = "commit"]
          /\ loaded' = [loaded EXCEPT ![r] = keys[target[r]]]
          /\ UNCHANGED <<result, actives>>
      BY <1>14, <2>2 DEF LookupVictim, Goto
    <3>3. TypeOK'
      BY <1>1, <1>2, <2>1, <3>2 DEF Inv, TypeOK
    <3>4. OnlyMoves(r) /\ ReadyAfter(r)
      BY <2>1, <2>2, <3>1, <3>2 DEF Inv, TypeOK, WrittenRowsExist, OnlyMoves, ReadyAfter
    <3> QED
      BY <2>1, <3>3, <3>4, Advance
  <2>3. CASE ~(keys[target[r]].registered /\ ~keys[target[r]].destroyed)
    <3>1. \E res \in Results : End(r, res)
      BY <1>14, <2>3 DEF LookupVictim, Results
    <3> QED
      BY <1>1, <2>1, <3>1, EndStep
  <2> QED
    BY <2>1, <2>2, <2>3
<1>15. CASE CommitDestruction(r)
  <2>1. TableKept
    BY <1>1, <1>15, MarkDestroyedKeeps DEF CommitDestruction, Inv, WrittenRowsExist
  <2>2. End(r, "ok") /\ "ok" \in Results /\ UNCHANGED <<clock, target, current>>
    BY <1>15 DEF CommitDestruction, Results
  <2> QED
    BY <1>1, <2>1, <2>2, EndStep
<1> QED
  BY <1>3, <1>4, <1>5, <1>6, <1>7, <1>8, <1>9, <1>10, <1>11, <1>12, <1>13, <1>14, <1>15
  DEF Step, EnsureActiveSeed, Rotate, Destroy

\* A request that fails half-way leaves what it has committed.
LEMMA DropInv ==
  ASSUME Inv, NEW r \in Requests, Drop(r)
  PROVE  Inv' /\ TableKept
<1>1. current' \in [Requests -> [version : Versions \cup {NoVersion}, active : BOOLEAN]]
  BY DEF Drop, Inv, TypeOK
<1>2. dropped' \in 0..Dropped
  BY DroppedAssumption DEF Drop, Inv, TypeOK
<1>3. "server_error" \in Results
  BY DEF Results
<1> QED
  BY <1>1, <1>2, <1>3, UnchangedKeeps, EndStep DEF Drop

LEMMA NextInv == Inv /\ [Next]_vars => Inv' /\ TableKept
<1> SUFFICES ASSUME Inv, [Next]_vars PROVE Inv' /\ TableKept
  OBVIOUS
<1>1. CASE Next
  BY <1>1, StepInv, DropInv DEF Next
<1>2. CASE UNCHANGED vars
  BY <1>2, UnchangedKeeps DEF vars, Inv, TypeOK, WrittenRowsExist, TargetsLoadedAlive
<1> QED
  BY <1>1, <1>2

\* Inv holds of every reachable state.
THEOREM Invariance == Spec => []Inv
BY InitInv, NextInv, PTL DEF Spec

\* Type correctness; no commit writes to a row that is not there.
THEOREM TypeCorrect == Spec => []TypeOK
<1>1. Inv => TypeOK
  BY DEF Inv
<1> QED
  BY <1>1, Invariance, PTL

\* No stale row object, of any number of overlapping requests, revives a
\* destroyed version.
THEOREM DestructionIsForever == Spec => DestroyedIsForever
<1> DEFINE Kept == \A v \in Versions : keys[v].destroyed => keys'[v].destroyed
<1>1. Inv /\ [Next]_vars => [Kept]_vars
  BY NextInv DEF TableKept
<1> QED
  BY <1>1, Invariance, PTL DEF Spec, DestroyedIsForever

\* The outcome of a backup is that of the row it ends with.
LEMMA BackupOutcome ==
  ASSUME Inv, NEW b \in Backups, NEW v \in Versions, AfterSeed(b, v), UNCHANGED keys,
         result'[b] = "ok"
  PROVE  ~keys'[current'[b].version].destroyed
<1>1. result'[b] = SeedOutcome(v) /\ current'[b].version = v
  BY DEF AfterSeed, End, Inv, TypeOK, Requests
<1> QED
  BY <1>1 DEF SeedOutcome

\* Handed to a backup, a version's material is that of a version which is not
\* destroyed at that moment, however its row came to be the active one.
THEOREM NoDestroyedMaterial == Spec => MaterialNeverDestroyed
<1> DEFINE Good == \A b \in Backups :
             result[b] # "ok" /\ result'[b] = "ok" => ~keys'[current'[b].version].destroyed
<1>1. Inv /\ [Next]_vars => [Good]_vars
  <2> SUFFICES ASSUME Inv, Next, NEW b \in Backups, result[b] # "ok", result'[b] = "ok"
               PROVE  ~keys'[current'[b].version].destroyed
    BY DEF vars
  <2>1. b \in Requests /\ b \notin Rotations /\ b \notin Shreds
    BY RequestsAssumption DEF Requests
  <2>2. PICK r \in Requests : Step(r) \/ Drop(r)
    BY DEF Next
  <2>3. result \in [Requests -> Results]
    BY DEF Inv, TypeOK
  <2>4. r = b
    BY <2>1, <2>2, <2>3
    DEF Step, EnsureActiveSeed, Rotate, Destroy, Drop, GetActiveVersion, LookupSeed, Lookup,
        CreateSeed, Create, SelectSeedActives, SelectActives, CommitSeed, RefreshSeed,
        LookupTarget, CreateTarget, SelectTargetActives, CommitRotation, RecordRotation,
        LookupVictim, CommitDestruction, AfterSeed, End, Move, Goto
  <2>5. GetActiveVersion(b) \/ RefreshSeed(b)
    BY <2>1, <2>2, <2>3, <2>4
    DEF Step, EnsureActiveSeed, Rotate, Destroy, Drop, LookupSeed, Lookup, CreateSeed, Create,
        SelectSeedActives, SelectActives, CommitSeed, LookupTarget, CreateTarget,
        SelectTargetActives, CommitRotation, RecordRotation, LookupVictim, CommitDestruction,
        End, Move, Goto
  <2>6. CASE GetActiveVersion(b)
    <3>1. PICK v \in GetActive : v # NoVersion /\ AfterSeed(b, v)
      BY <2>3, <2>6 DEF GetActiveVersion, End, Move, Goto
    <3>2. v \in Versions
      BY <3>1 DEF GetActive, ActiveVersions
    <3> QED
      BY <2>6, <3>1, <3>2, BackupOutcome DEF GetActiveVersion
  <2>7. CASE RefreshSeed(b)
    BY <2>7, BackupOutcome, VersionsAssumption DEF RefreshSeed
  <2> QED
    BY <2>5, <2>6, <2>7
<1> QED
  BY <1>1, Invariance, PTL DEF Spec, MaterialNeverDestroyed

\* A rotation that nobody interfered with between its reads and its commit
\* ends with its target as the one active version, and that not destroyed.
THEOREM RotationWins == Spec => UncontestedRotationWins
<1> DEFINE Wins == \A r \in Rotations :
             CommitRotation(r) /\ Undisturbed(r) =>
               /\ ActiveVersions' = {target[r]}
               /\ ~keys'[target[r]].destroyed
               /\ GetActive' = {target[r]}
<1>1. Inv /\ [Next]_vars => [Wins]_vars
  <2> SUFFICES ASSUME Inv, NEW r \in Rotations, CommitRotation(r), Undisturbed(r)
               PROVE  /\ ActiveVersions' = {target[r]}
                      /\ ~keys'[target[r]].destroyed
                      /\ GetActive' = {target[r]}
    OBVIOUS
  <2> DEFINE v == target[r]
  <2>1. /\ v \in Versions
        /\ actives[r].now \in Nat
        /\ keys \in [Versions -> KeyRows]
    <3>1. r \in Requests
      BY DEF Requests
    <3> QED
      BY <3>1 DEF Inv, TypeOK
  <2>2. keys[v].registered /\ ~keys[v].destroyed
    <3>1. keys[v].registered
      BY DEF Inv, WrittenRowsExist, CommitRotation, Requests
    <3>2. ~loaded[r].destroyed
      BY DEF Inv, TargetsLoadedAlive, CommitRotation
    <3> QED
      BY <3>1, <3>2 DEF Undisturbed
  <2>3. keys'[v] = [keys[v] EXCEPT !.active = IF keys[v].active THEN keys[v].active ELSE TRUE,
                                   !.activated_at = actives[r].now]
    BY <2>1 DEF CommitRotation, AfterSetActive, Undisturbed
  <2>4. /\ keys'[v].registered
        /\ keys'[v].active
        /\ ~keys'[v].destroyed
        /\ keys'[v].activated_at = actives[r].now
    BY <2>1, <2>2, <2>3 DEF KeyRows
  <2>5. ASSUME NEW w \in Versions, w # v, keys'[w].registered, keys'[w].active
        PROVE  FALSE
    <3>1. CASE w \in ActiveVersions
      <4>1. keys'[w] = [keys[w] EXCEPT !.active = FALSE]
        BY <2>5, <3>1 DEF CommitRotation, AfterSetActive, SwitchedOff, Undisturbed, ActiveVersions
      <4> QED
        BY <2>1, <2>5, <4>1 DEF KeyRows
    <3>2. CASE w \notin ActiveVersions
      <4>1. keys'[w] = keys[w]
        BY <2>5, <3>2 DEF CommitRotation, AfterSetActive, SwitchedOff, Undisturbed, ActiveVersions
      <4> QED
        BY <2>5, <3>2, <4>1 DEF ActiveVersions
    <3> QED
      BY <3>1, <3>2
  <2>6. ActiveVersions' = {v}
    BY <2>1, <2>4, <2>5 DEF ActiveVersions
  <2>7. GetActive' = {v}
    <3>1. GetActive' = {x \in {v} : \A w \in {v} : keys'[w].activated_at <= keys'[x].activated_at}
      BY <2>6 DEF GetActive
    <3> QED
      BY <2>1, <2>4, <3>1
  <2> QED
    BY <2>4, <2>6, <2>7
<1> QED
  BY <1>1, Invariance, PTL DEF Spec, UncontestedRotationWins
=============================================================================
