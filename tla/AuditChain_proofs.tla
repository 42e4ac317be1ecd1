------------------------- MODULE AuditChain_proofs -------------------------
(***************************************************************************)
(* Proofs about AuditChain for any finite set of calls and any number of   *)
(* attempts.  The properties are not inductive: a stale cursor must be     *)
(* known to name a row that is still there, and a conflict must be known   *)
(* to stand for a row of another call.  Inv says so.                       *)
(***************************************************************************)
EXTENDS AuditChain, FiniteSetTheorems, TLAPS

\* Every place before a row is taken: the chain has no gap.
Gapless == \A r \in rows : \A i \in 1..r.chain_index : IndexTaken(i)

\* A call that may still commit has no row; one that did commit has one.
RowsOfCalls ==
  /\ \A r \in rows : pc[r.event.call] \notin {"read", "commit"}
  /\ \A c \in Calls : pc[c] \in {"refresh", "returned"} => \E r \in rows : r.event.call = c

\* Each conflict of a call stands for one more row of the table, before its own
\* row if it has one; a call that will try again has attempts left.
ConflictsCounted ==
  /\ \A c \in Calls :
       /\ conflicts[c] # 0 => IndexTaken(conflicts[c])
       /\ pc[c] = "commit" => conflicts[c] <= cursor[c].chain_index
       /\ pc[c] \in {"read", "commit"} => conflicts[c] < MaxAttempts
  /\ \A r \in rows : conflicts[r.event.call] < r.chain_index

\* A cursor is the empty one or that of a row of the table.
CursorsSound ==
  \A c \in Calls : \/ cursor[c] = EmptyCursor
                   \/ \E r \in rows : cursor[c] = CursorOf(r)

\* The inductive invariant.
Inv ==
  /\ TypeOK
  /\ ChainContinuity
  /\ Gapless
  /\ CursorsSound
  /\ RowsOfCalls
  /\ RecordedAtMostOnce
  /\ ConflictsCounted

\* The initial state satisfies the invariant.
LEMMA InitInv == Init => Inv
<1> SUFFICES ASSUME Init PROVE Inv
  OBVIOUS
<1> USE MaxAttemptsAssumption DEF Init
<1>1. TypeOK
  BY DEF TypeOK, Cursors, EmptyCursor, Running, Ended
<1>2. ChainContinuity /\ Gapless /\ RecordedAtMostOnce
  BY DEF ChainContinuity, Gapless, RecordedAtMostOnce
<1>3. CursorsSound /\ RowsOfCalls /\ ConflictsCounted
  BY DEF CursorsSound, RowsOfCalls, ConflictsCounted
<1> QED
  BY <1>1, <1>2, <1>3 DEF Inv

\* A call is refused as raised or suppressed, never anything else.
LEMMA RefusalEnds == \A c \in Calls : Refusal(c) \in {"raised", "suppressed"}
BY DEF Refusal

\* A step that leaves the table and the cursors alone, and moves no call to a
\* place that asks anything of the table, keeps the invariant.
LEMMA QuietStep ==
  ASSUME Inv, NEW c \in Calls, NEW p \in Ended,
         pc[c] \in Running,
         p = "returned" => pc[c] = "refresh",
         pc' = [pc EXCEPT ![c] = p],
         UNCHANGED <<rows, conflicts, cursor>>
  PROVE  Inv'
<1> USE DEF Inv
<1>1. TypeOK'
  BY DEF TypeOK, Cursors, Running, Ended
<1>2. ChainContinuity' /\ Gapless' /\ RecordedAtMostOnce' /\ CursorsSound'
  BY DEF ChainContinuity, Gapless, RecordedAtMostOnce, CursorsSound, IndexTaken
<1>3. RowsOfCalls'
  BY DEF RowsOfCalls, TypeOK, Ended
<1>4. ConflictsCounted'
  BY DEF ConflictsCounted, IndexTaken, TypeOK, Ended
<1> QED
  BY <1>1, <1>2, <1>3, <1>4

\* Reading the newest row keeps the invariant.
LEMMA ReadStep ==
  ASSUME Inv, NEW c \in Calls, GetLatestChainCursor(c)
  PROVE  Inv'
<1> USE DEF Inv, GetLatestChainCursor
<1>1. PICK latest \in LatestChainCursors : cursor' = [cursor EXCEPT ![c] = latest]
  OBVIOUS
<1>2. \/ rows = {} /\ latest = EmptyCursor
      \/ \E r \in rows : Newest(r) /\ latest = CursorOf(r)
  BY DEF LatestChainCursors
<1>3. latest \in Cursors
  BY <1>2 DEF Cursors, EmptyCursor, CursorOf, TypeOK
<1>4. TypeOK'
  BY <1>1, <1>3 DEF TypeOK, Cursors, Running, Ended
<1>5. ChainContinuity' /\ Gapless' /\ RecordedAtMostOnce'
  BY DEF ChainContinuity, Gapless, RecordedAtMostOnce, IndexTaken
<1>6. CursorsSound'
  BY <1>1, <1>2 DEF CursorsSound, TypeOK
<1>7. RowsOfCalls'
  BY DEF RowsOfCalls, TypeOK
<1>8. conflicts[c] <= latest.chain_index
  <2>1. CASE rows = {}
    BY <2>1, <1>2 DEF ConflictsCounted, IndexTaken, EmptyCursor, TypeOK
  <2>2. CASE rows # {}
    <3>1. PICK r \in rows : Newest(r) /\ latest = CursorOf(r)
      BY <1>2, <2>2
    <3>2. CASE conflicts[c] = 0
      BY <3>1, <3>2 DEF CursorOf, TypeOK
    <3>3. CASE conflicts[c] # 0
      BY <3>1, <3>3 DEF ConflictsCounted, IndexTaken, Newest, CursorOf, TypeOK
    <3> QED
      BY <3>2, <3>3
  <2> QED
    BY <2>1, <2>2
<1>9. ConflictsCounted'
  BY <1>1, <1>8 DEF ConflictsCounted, IndexTaken, TypeOK
<1> QED
  BY <1>4, <1>5, <1>6, <1>7, <1>9

\* The row a commit adds is just after the row its cursor names, which is the
\* newest: by Gapless nothing lies beyond a free place.
LEMMA CommittedRowIsNewest ==
  ASSUME Inv, NEW c \in Calls, CommitEntry(c)
  PROVE  /\ rows' = rows \cup {NextRow(c)}
         /\ NextRow(c).chain_index = cursor[c].chain_index + 1
         /\ NextRow(c).event = EventOf(c)
         /\ cursor[c].chain_index \in Nat
         /\ \A s \in rows : s.chain_index <= cursor[c].chain_index
<1> USE DEF Inv, CommitEntry
<1>1. rows' = rows \cup {NextRow(c)}
  OBVIOUS
<1>2. /\ NextRow(c).chain_index = cursor[c].chain_index + 1
      /\ NextRow(c).event = EventOf(c)
  BY DEF NextRow, Row
<1>3. cursor[c].chain_index \in Nat
  BY DEF TypeOK, Cursors
<1>4. ASSUME NEW s \in rows, ~ s.chain_index <= cursor[c].chain_index
      PROVE  FALSE
  <2>1. cursor[c].chain_index + 1 \in 1..s.chain_index
    BY <1>3, <1>4 DEF TypeOK
  <2> QED
    BY <2>1 DEF Gapless, IndexTaken
<1> QED
  BY <1>1, <1>2, <1>3, <1>4

\* A successful commit keeps the invariant.
LEMMA CommitStep ==
  ASSUME Inv, NEW c \in Calls, CommitEntry(c)
  PROVE  Inv'
<1> DEFINE new == NextRow(c)
           i   == cursor[c].chain_index
<1> USE DEF Inv
<1>1. /\ rows' = rows \cup {new}
      /\ new = Row(i + 1, cursor[c].entry_hash, EventOf(c))
      /\ new.chain_index = i + 1
      /\ new.prev_hash = cursor[c].entry_hash
      /\ new.event = EventOf(c)
      /\ new.event.call = c
      /\ i \in Nat
      /\ \A s \in rows : s.chain_index <= i
  BY CommittedRowIsNewest DEF NextRow, Row, EventOf
<1>2. /\ pc[c] = "commit"
      /\ pc' = [pc EXCEPT ![c] = "refresh"]
      /\ UNCHANGED <<conflicts, cursor>>
  BY DEF CommitEntry
<1> HIDE DEF new, i
<1>3. new.event \in [call : Calls, attempt : 0..MaxAttempts]
  BY <1>1 DEF EventOf, TypeOK
<1>4. TypeOK'
  <2>1. \A r \in rows' : /\ r = Row(r.chain_index, r.prev_hash, r.event)
                         /\ r.chain_index \in Nat \ {0}
                         /\ r.event \in [call : Calls, attempt : 0..MaxAttempts]
    BY <1>1, <1>3 DEF TypeOK
  <2>2. cursor' \in [Calls -> Cursors']
    BY <1>1, <1>2 DEF TypeOK, Cursors
  <2> QED
    BY <1>2, <2>1, <2>2 DEF TypeOK, Running, Ended
<1>5. \/ i = 0 /\ cursor[c].entry_hash = NoHash
      \/ \E s \in rows : s.chain_index = i /\ s.entry_hash = cursor[c].entry_hash
  <2>1. CASE cursor[c] = EmptyCursor
    BY <2>1 DEF EmptyCursor, i
  <2>2. CASE cursor[c] # EmptyCursor
    <3>1. PICK s \in rows : cursor[c] = CursorOf(s)
      BY <2>2 DEF CursorsSound
    <3> QED
      BY <3>1 DEF CursorOf, i
  <2> QED
    BY <2>1, <2>2
<1>6. ChainContinuity'
  <2> SUFFICES ASSUME NEW r \in rows'
               PROVE  /\ \A s \in rows' : s.chain_index = r.chain_index => s = r
                      /\ IF r.chain_index = 1
                         THEN r.prev_hash = NoHash
                         ELSE \E s \in rows' : /\ s.chain_index = r.chain_index - 1
                                               /\ r.prev_hash = s.entry_hash
    BY DEF ChainContinuity
  <2>1. CASE r \in rows
    BY <1>1, <2>1 DEF ChainContinuity, TypeOK
  <2>2. CASE r = new
    <3>1. \A s \in rows' : s.chain_index = r.chain_index => s = r
      BY <1>1, <2>2 DEF TypeOK
    <3>2. CASE i = 0
      BY <1>1, <1>5, <2>2, <3>1, <3>2 DEF TypeOK
    <3>3. CASE i # 0
      <4>1. PICK s \in rows : s.chain_index = i /\ s.entry_hash = cursor[c].entry_hash
        BY <1>5, <3>3
      <4> QED
        BY <1>1, <2>2, <3>1, <3>3, <4>1
    <3> QED
      BY <3>2, <3>3
  <2> QED
    BY <1>1, <2>1, <2>2
<1>7. Gapless'
  <2> SUFFICES ASSUME NEW r \in rows', NEW k \in 1..r.chain_index
               PROVE  IndexTaken(k)'
    BY DEF Gapless
  <2>1. CASE r \in rows
    BY <1>1, <2>1 DEF Gapless, IndexTaken
  <2>2. CASE r = new /\ k = i + 1
    BY <1>1, <2>2 DEF IndexTaken
  <2>3. CASE r = new /\ k # i + 1
    <3>1. k \in 1..i
      BY <1>1, <2>3
    <3>2. PICK s \in rows : s.chain_index = i
      BY <1>1, <1>5, <3>1
    <3> QED
      BY <1>1, <3>1, <3>2 DEF Gapless, IndexTaken
  <2> QED
    BY <1>1, <2>1, <2>2, <2>3
<1>8. CursorsSound'
  BY <1>1, <1>2 DEF CursorsSound, TypeOK
<1>9. RowsOfCalls'
  BY <1>1, <1>2 DEF RowsOfCalls, TypeOK
<1>10. RecordedAtMostOnce'
  BY <1>1, <1>2 DEF RecordedAtMostOnce, RowsOfCalls
<1>11. ConflictsCounted'
  BY <1>1, <1>2 DEF ConflictsCounted, IndexTaken, TypeOK
<1> QED
  BY <1>4, <1>6, <1>7, <1>8, <1>9, <1>10, <1>11

\* A refused commit keeps the invariant: the place it wanted is taken, and it
\* lies beyond the conflicts counted so far.
LEMMA ConflictStep ==
  ASSUME Inv, NEW c \in Calls, CommitConflict(c)
  PROVE  Inv'
<1> USE DEF Inv, CommitConflict
<1>1. conflicts[c] \in Nat /\ conflicts[c] < MaxAttempts
  BY DEF ConflictsCounted, TypeOK
<1>2. AfterConflict(c) \in {"read", "raised", "suppressed"}
  BY RefusalEnds DEF AfterConflict
<1>3. AfterConflict(c) = "read" => conflicts[c] + 1 < MaxAttempts
  BY RefusalEnds DEF AfterConflict
<1>4. IndexTaken(conflicts[c] + 1)
  <2>1. PICK r \in rows : r.chain_index = cursor[c].chain_index + 1
    BY DEF IndexTaken
  <2>2. conflicts[c] + 1 \in 1..r.chain_index
    BY <1>1, <2>1 DEF ConflictsCounted, TypeOK, Cursors
  <2> QED
    BY <2>2 DEF Gapless
<1>5. TypeOK'
  BY <1>1, <1>2, MaxAttemptsAssumption DEF TypeOK, Cursors, Running, Ended
<1>6. ChainContinuity' /\ Gapless' /\ RecordedAtMostOnce' /\ CursorsSound'
  BY DEF ChainContinuity, Gapless, RecordedAtMostOnce, CursorsSound, IndexTaken
<1>7. RowsOfCalls'
  BY <1>2 DEF RowsOfCalls, TypeOK
<1>8. ConflictsCounted'
  <2>1. \A r \in rows : r.event.call # c
    BY DEF RowsOfCalls
  <2> QED
    BY <1>1, <1>2, <1>3, <1>4, <2>1 DEF ConflictsCounted, IndexTaken, TypeOK
<1> QED
  BY <1>5, <1>6, <1>7, <1>8

\* Every step keeps the invariant.
LEMMA NextInv == Inv /\ [Next]_vars => Inv'
<1> SUFFICES ASSUME Inv, [Next]_vars PROVE Inv'
  OBVIOUS
<1>1. ASSUME NEW c \in Calls, GetLatestChainCursor(c) PROVE Inv'
  BY <1>1, ReadStep
<1>2. ASSUME NEW c \in Calls, CommitEntry(c) PROVE Inv'
  BY <1>2, CommitStep
<1>3. ASSUME NEW c \in Calls, CommitConflict(c) PROVE Inv'
  BY <1>3, ConflictStep
<1>4. ASSUME NEW c \in Calls, RefreshEntry(c) PROVE Inv'
  BY <1>4, QuietStep DEF RefreshEntry, Running, Ended
<1>5. ASSUME NEW c \in Calls, DatabaseError(c) PROVE Inv'
  BY <1>5, QuietStep, RefusalEnds DEF DatabaseError, Ended
<1>6. ASSUME NEW c \in Calls, Crash(c) PROVE Inv'
  BY <1>6, QuietStep DEF Crash, Ended
<1>7. CASE UNCHANGED vars
  BY <1>7 DEF vars, Inv, TypeOK, Cursors, ChainContinuity, Gapless, CursorsSound,
              RowsOfCalls, RecordedAtMostOnce, ConflictsCounted, IndexTaken
<1> QED
  BY <1>1, <1>2, <1>3, <1>4, <1>5, <1>6, <1>7 DEF Next, PersistEntry

\* Inv holds of every reachable state.
THEOREM Invariance == Spec => []Inv
BY InitInv, NextInv, PTL DEF Spec

\* Type correctness, for any calls and any number of attempts.
THEOREM TypeCorrect == Spec => []TypeOK
<1>1. Inv => TypeOK
  BY DEF Inv
<1> QED
  BY <1>1, Invariance, PTL

\* Concurrent appends never fork the chain or leave a gap in it.
THEOREM ChainIsContinuous == Spec => []ChainContinuity
<1>1. Inv => ChainContinuity
  BY DEF Inv
<1> QED
  BY <1>1, Invariance, PTL

\* Retries never record a call twice.
THEOREM AtMostOnce == Spec => []RecordedAtMostOnce
<1>1. Inv => RecordedAtMostOnce
  BY DEF Inv
<1> QED
  BY <1>1, Invariance, PTL

\* A call that returns normally is recorded.
THEOREM ReturnedMeansRecorded == Spec => []ReturnedIsRecorded
<1>1. Inv => ReturnedIsRecorded
  BY DEF Inv, RowsOfCalls, ReturnedIsRecorded
<1> QED
  BY <1>1, Invariance, PTL

\* The rows of the calls other than c.
RivalRows(c) == {r \in rows : r.event.call # c}

\* There are no more rows of others than other calls.
LEMMA RivalRowsBounded ==
  ASSUME Inv, NEW c \in Calls
  PROVE  /\ IsFiniteSet(RivalRows(c))
         /\ Cardinality(RivalRows(c)) <= Cardinality(Calls) - 1
<1> DEFINE others == Calls \ {c}
           f == [r \in RivalRows(c) |-> r.event.call]
<1>1. f \in Injection(RivalRows(c), others)
  <2>1. f \in [RivalRows(c) -> others]
    BY DEF RivalRows, Inv, TypeOK
  <2>2. ASSUME NEW r \in RivalRows(c), NEW s \in RivalRows(c), f[r] = f[s]
        PROVE  r = s
    BY <2>2 DEF RivalRows, Inv, RecordedAtMostOnce
  <2> HIDE DEF f, others
  <2> QED
    BY <2>1, <2>2 DEF Injection, IsInjective
<1>2. IsFiniteSet(others) /\ Cardinality(others) = Cardinality(Calls) - 1
  BY CallsFinite, FS_RemoveElement
<1> HIDE DEF f, others
<1> QED
  BY <1>1, <1>2, FS_Injection

\* Every place up to the number of its conflicts is held by a row of another.
LEMMA ConflictsHaveRivals ==
  ASSUME Inv, NEW c \in Calls
  PROVE  conflicts[c] <= Cardinality(RivalRows(c))
<1> DEFINE n == conflicts[c]
           f == [i \in 1..n |-> CHOOSE r \in rows : r.chain_index = i]
<1>1. n \in Nat
  BY MaxAttemptsAssumption DEF Inv, TypeOK
<1>2. \A i \in 1..n : IndexTaken(i)
  <2> SUFFICES ASSUME NEW i \in 1..n PROVE IndexTaken(i)
    OBVIOUS
  <2>1. PICK r \in rows : r.chain_index = n
    BY <1>1 DEF Inv, ConflictsCounted, IndexTaken
  <2> QED
    BY <2>1 DEF Inv, Gapless
<1>3. \A i \in 1..n : f[i] \in rows /\ f[i].chain_index = i
  BY <1>2 DEF IndexTaken
<1>4. f \in Injection(1..n, RivalRows(c))
  <2>1. \A r \in rows : r.event.call = c => n < r.chain_index
    BY DEF Inv, ConflictsCounted
  <2>2. f = [i \in 1..n |-> f[i]]
    OBVIOUS
  <2> HIDE DEF f
  <2>3. ASSUME NEW i \in 1..n PROVE f[i] \in RivalRows(c)
    BY <1>1, <1>3, <2>1 DEF RivalRows
  <2>4. f \in [1..n -> RivalRows(c)]
    BY <2>2, <2>3
  <2> QED
    BY <1>3, <2>4 DEF Injection, IsInjective
<1>5. Cardinality(1..n) = n
  BY <1>1, FS_Interval
<1> HIDE DEF f, n
<1>6. n <= Cardinality(RivalRows(c))
  BY <1>4, <1>5, RivalRowsBounded, FS_Injection
<1> QED
  BY <1>6 DEF n

\* Each conflict of a call means that another call got its entry in.
THEOREM ConflictsAreProgress == Spec => []ConflictsMeanProgress
<1>1. Inv => ConflictsMeanProgress
  BY ConflictsHaveRivals DEF ConflictsMeanProgress, RivalRows
<1> QED
  BY <1>1, Invariance, PTL

NoCallExhausted ==
  Cardinality(Calls) <= MaxAttempts => \A c \in Calls : conflicts[c] < MaxAttempts

\* As long as there are no more concurrent calls than attempts, contention
\* alone never makes a call give up: the ten attempts of _persist_entry are
\* enough for ten calls at once.
THEOREM NoExhaustion == Spec => []NoCallExhausted
<1>1. Inv => NoCallExhausted
  <2> SUFFICES ASSUME Inv, Cardinality(Calls) <= MaxAttempts, NEW c \in Calls
               PROVE  conflicts[c] < MaxAttempts
    BY DEF NoCallExhausted
  <2>1. Cardinality(Calls) \in Nat /\ Cardinality(RivalRows(c)) \in Nat
    BY CallsFinite, RivalRowsBounded, FS_CardinalityType
  <2>2. conflicts[c] \in 0..MaxAttempts
    BY DEF Inv, TypeOK
  <2> QED
    BY <2>1, <2>2, ConflictsHaveRivals, RivalRowsBounded, MaxAttemptsAssumption
<1> QED
  BY <1>1, Invariance, PTL

\* The table is append-only, in chain order.
THEOREM AppendsOnly == Spec => AppendOnly
<1> DEFINE Grows == /\ rows \subseteq rows'
                    /\ \A r \in rows' \ rows : \A s \in rows : s.chain_index < r.chain_index
<1>1. Inv /\ [Next]_vars => [Grows]_vars
  <2> SUFFICES ASSUME Inv, Next PROVE Grows
    BY DEF vars
  <2>1. ASSUME NEW c \in Calls, CommitEntry(c) PROVE Grows
    BY <2>1, CommittedRowIsNewest DEF Inv, TypeOK
  <2>2. ASSUME NEW c \in Calls,
               GetLatestChainCursor(c) \/ CommitConflict(c) \/ RefreshEntry(c)
                 \/ DatabaseError(c) \/ Crash(c)
        PROVE  Grows
    BY <2>2 DEF GetLatestChainCursor, CommitConflict, RefreshEntry, DatabaseError, Crash
  <2> QED
    BY <2>1, <2>2 DEF Next, PersistEntry
<1> QED
  BY <1>1, Invariance, PTL DEF Spec, AppendOnly
=============================================================================
