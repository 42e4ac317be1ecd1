------------------------- MODULE AuditChain_refines -------------------------
(***************************************************************************)
(* AuditChain implements AuditLog step by step, for any finite set of      *)
(* calls and any number of attempts.  The log of the abstract state is     *)
(* read off the places of the rows, so the proof is about these: they are  *)
(* the numbers from 1 to the number of rows.                               *)
(***************************************************************************)
EXTENDS AuditChain_proofs, SequenceTheorems

\* The table has a newest row, unless it is empty.
HasNewest == rows = {} \/ \E r \in rows : Newest(r)

\* The places of the rows are 1..n for n the number of rows.
PlacesAreCounted ==
  /\ Cardinality(rows) \in Nat
  /\ \A r \in rows : r.chain_index \in 1..Cardinality(rows)
  /\ \A i \in 1..Cardinality(rows) : IndexTaken(i)

LEMMA HasNewestInit == Init => HasNewest
BY DEF Init, HasNewest

LEMMA HasNewestNext == Inv /\ HasNewest /\ [Next]_vars => HasNewest'
<1> SUFFICES ASSUME Inv, HasNewest, [Next]_vars PROVE HasNewest'
  OBVIOUS
<1>1. ASSUME NEW c \in Calls, CommitEntry(c) PROVE HasNewest'
  <2>1. \A s \in rows' : s.chain_index <= NextRow(c).chain_index
    BY <1>1, CommittedRowIsNewest DEF Inv, TypeOK
  <2> QED
    BY <1>1, <2>1, CommittedRowIsNewest DEF HasNewest, Newest
<1>2. CASE UNCHANGED rows
  BY <1>2 DEF HasNewest, Newest
<1> QED
  BY <1>1, <1>2 DEF Next, PersistEntry, GetLatestChainCursor, CommitConflict,
                    RefreshEntry, DatabaseError, Crash, vars

\* There are as many rows as places.
LEMMA CountPlaces == Inv /\ HasNewest => PlacesAreCounted
<1> SUFFICES ASSUME Inv, HasNewest PROVE PlacesAreCounted
  OBVIOUS
<1>1. CASE rows = {}
  BY <1>1, FS_EmptySet DEF PlacesAreCounted
<1>2. CASE rows # {}
  <2>1. PICK last \in rows : Newest(last)
    BY <1>2 DEF HasNewest
  <2> DEFINE n == last.chain_index
             At(i) == CHOOSE r \in rows : r.chain_index = i
             f == [i \in 1..n |-> At(i)]
  <2>2. n \in Nat /\ \A r \in rows : r.chain_index \in 1..n
    BY <2>1 DEF Inv, TypeOK, Newest
  <2>3. \A i \in 1..n : IndexTaken(i)
    BY DEF Inv, Gapless
  <2>4. \A i \in 1..n : At(i) \in rows /\ At(i).chain_index = i
    BY <2>3 DEF IndexTaken
  <2>5. \A r \in rows : r = At(r.chain_index)
    BY <2>2, <2>4 DEF Inv, ChainContinuity
  <2>6. f \in Bijection(1..n, rows)
    <3> HIDE DEF At
    <3>1. f \in [1..n -> rows]
      BY <2>4
    <3>2. f \in Injection(1..n, rows)
      BY <2>4, <3>1 DEF Injection, IsInjective
    <3>3. f \in Surjection(1..n, rows)
      BY <2>2, <2>5, <3>1 DEF Surjection
    <3> QED
      BY <3>2, <3>3 DEF Bijection
  <2>7. IsFiniteSet(1..n) /\ Cardinality(1..n) = n
    BY <2>2, FS_Interval
  <2>8. Cardinality(rows) = n
    BY <2>6, <2>7, FS_Bijection DEF ExistsBijection
  <2> QED
    BY <2>2, <2>3, <2>8 DEF PlacesAreCounted
<1> QED
  BY <1>1, <1>2

\* The abstract log is a sequence of calls, with that of each row at its place.
LogMatches ==
  /\ ChainOrder \in Seq(Calls)
  /\ Len(ChainOrder) = Cardinality(rows)
  /\ \A r \in rows : ChainOrder[r.chain_index] = r.event.call

LEMMA LogAt == Inv /\ PlacesAreCounted => LogMatches
<1> SUFFICES ASSUME Inv, PlacesAreCounted PROVE LogMatches
  OBVIOUS
<1> DEFINE At(i) == CHOOSE r \in rows : r.chain_index = i
           e(i) == At(i).event.call
<1>1. \A i \in 1..Cardinality(rows) : At(i) \in rows /\ At(i).chain_index = i
  BY DEF PlacesAreCounted, IndexTaken
<1>2. ChainOrder = [i \in 1..Cardinality(rows) |-> e(i)]
  BY DEF ChainOrder
<1>3. \A r \in rows : r = At(r.chain_index)
  BY <1>1 DEF PlacesAreCounted, Inv, ChainContinuity
<1> HIDE DEF At
<1>4. \A i \in 1..Cardinality(rows) : e(i) \in Calls
  BY <1>1 DEF Inv, TypeOK
<1> HIDE DEF e
<1>5. ChainOrder \in Seq(Calls) /\ Len(ChainOrder) = Cardinality(rows)
  <2>1. [i \in 1..Cardinality(rows) |-> e(i)] \in Seq(Calls)
    BY <1>4, IsASeq DEF PlacesAreCounted
  <2> QED
    BY <1>2, <2>1 DEF PlacesAreCounted
<1>6. \A r \in rows : ChainOrder[r.chain_index] = r.event.call
  BY <1>2, <1>3 DEF PlacesAreCounted, e
<1> QED
  BY <1>5, <1>6 DEF LogMatches

LEMMA LogAtNext == Inv' /\ PlacesAreCounted' => LogMatches'
BY LogAt, PTL

\* A call is in the abstract log when it has a row.
LEMMA RecordedIffRow ==
  ASSUME Inv, PlacesAreCounted, NEW c \in Calls
  PROVE  c \in Abstract!Recorded <=> \E r \in rows : r.event.call = c
<1>1. Abstract!Recorded = {ChainOrder[i] : i \in 1..Cardinality(rows)}
  BY LogAt DEF LogMatches, Abstract!Recorded
<1>2. \A i \in 1..Cardinality(rows) : \E r \in rows : ChainOrder[i] = r.event.call
  BY LogAt DEF LogMatches, PlacesAreCounted, IndexTaken
<1> QED
  BY <1>1, <1>2, LogAt DEF LogMatches, PlacesAreCounted

\* A commit appends its call to the log.
LEMMA CommitAppends ==
  ASSUME Inv, PlacesAreCounted, Inv', PlacesAreCounted', NEW c \in Calls, CommitEntry(c)
  PROVE  ChainOrder' = Append(ChainOrder, c)
<1> DEFINE n == Cardinality(rows)
           new == NextRow(c)
<1>1. /\ rows' = rows \cup {new}
      /\ new.chain_index = cursor[c].chain_index + 1
      /\ new.event = EventOf(c)
      /\ \A s \in rows : s.chain_index <= cursor[c].chain_index
  BY CommittedRowIsNewest
<1>2. n \in Nat /\ Cardinality(rows') = n + 1
  <2>1. IsFiniteSet(rows)
    <3> DEFINE f == [r \in rows |-> r.event.call]
    <3>1. f \in [rows -> Calls]
      BY DEF Inv, TypeOK
    <3>2. \A r, s \in rows : f[r] = f[s] => r = s
      BY DEF Inv, RecordedAtMostOnce
    <3> HIDE DEF f
    <3>3. f \in Injection(rows, Calls)
      BY <3>1, <3>2 DEF Injection, IsInjective
    <3> QED
      BY <3>3, CallsFinite, FS_Injection
  <2>2. new \notin rows
    BY <1>1 DEF Inv, TypeOK, Cursors
  <2> HIDE DEF new
  <2> QED
    BY <1>1, <2>1, <2>2, FS_AddElement, FS_CardinalityType
<1>3. new.chain_index = n + 1
  <2>1. PICK s \in rows' : s.chain_index = n + 1
    BY <1>2 DEF PlacesAreCounted, IndexTaken
  <2>2. s \notin rows
    BY <1>2, <2>1 DEF PlacesAreCounted
  <2> QED
    BY <1>1, <2>1, <2>2
<1>4. LogMatches /\ LogMatches'
  BY LogAt, LogAtNext
<1>5. /\ Append(ChainOrder, c) \in Seq(Calls)
      /\ Len(Append(ChainOrder, c)) = n + 1
      /\ \A i \in 1..n : Append(ChainOrder, c)[i] = ChainOrder[i]
      /\ Append(ChainOrder, c)[n + 1] = c
  BY <1>4, AppendProperties DEF LogMatches
<1>6. ASSUME NEW i \in 1..(n + 1) PROVE ChainOrder'[i] = Append(ChainOrder, c)[i]
  <2>1. CASE i = n + 1
    <3>1. new \in rows' /\ new.event.call = c
      BY <1>1 DEF EventOf
    <3>2. ChainOrder'[new.chain_index] = new.event.call
      BY <1>4, <3>1 DEF LogMatches
    <3> HIDE DEF new
    <3> QED
      BY <1>3, <1>5, <2>1, <3>1, <3>2
  <2>2. CASE i \in 1..n
    <3>1. PICK r \in rows : r.chain_index = i
      BY <2>2 DEF PlacesAreCounted, IndexTaken
    <3> QED
      BY <1>1, <1>4, <1>5, <2>2, <3>1 DEF LogMatches
  <2> HIDE DEF n
  <2>3. i = n + 1 \/ i \in 1..n
    BY <1>2
  <2> QED
    BY <2>1, <2>2, <2>3
<1> QED
  BY <1>2, <1>4, <1>5, <1>6, SeqEqual DEF LogMatches

\* The log and the outcomes depend on the rows and on where the calls are.
LEMMA LogUnchanged == UNCHANGED rows => UNCHANGED ChainOrder
BY DEF ChainOrder

\* The abstract log starts empty, with every call pending.
LEMMA InitRefines == Init => Abstract!Init
<1> SUFFICES ASSUME Init PROVE Abstract!Init
  OBVIOUS
<1>1. Cardinality(rows) = 0
  BY FS_EmptySet DEF Init
<1>2. ChainOrder = <<>>
  BY <1>1 DEF ChainOrder
<1>3. Outcome = [c \in Calls |-> "pending"]
  BY DEF Init, Outcome, Running
<1> QED
  BY <1>2, <1>3 DEF Abstract!Init

\* Every step is one of the abstract log, or leaves it as it is.
LEMMA NextRefines ==
  ASSUME Inv, PlacesAreCounted, Inv', PlacesAreCounted', [Next]_vars
  PROVE  [Abstract!Next]_(Abstract!vars)
<1>1. ASSUME NEW c \in Calls, CommitEntry(c) PROVE Abstract!Record(c)
  <2>1. ~ \E r \in rows : r.event.call = c
    BY <1>1 DEF Inv, RowsOfCalls, CommitEntry
  <2>2. UNCHANGED Outcome
    BY <1>1 DEF CommitEntry, Outcome, Running, Inv, TypeOK
  <2>3. Outcome[c] = "pending"
    BY <1>1 DEF CommitEntry, Outcome, Running
  <2> QED
    BY <1>1, <2>1, <2>2, <2>3, RecordedIffRow, CommitAppends DEF Abstract!Record
<1>2. ASSUME NEW c \in Calls, RefreshEntry(c) PROVE Abstract!Return(c)
  <2>1. \E r \in rows : r.event.call = c
    BY <1>2 DEF Inv, RowsOfCalls, RefreshEntry
  <2>2. Outcome[c] = "pending" /\ Outcome' = [Outcome EXCEPT ![c] = "returned"]
    BY <1>2 DEF RefreshEntry, Outcome, Running, Inv, TypeOK
  <2> QED
    BY <1>2, <2>1, <2>2, RecordedIffRow, LogUnchanged DEF Abstract!Return, RefreshEntry
<1>3. ASSUME NEW c \in Calls, DatabaseError(c) PROVE Abstract!Refuse(c)
  <2>1. Outcome[c] = "pending" /\ Outcome' = [Outcome EXCEPT ![c] = Refusal(c)]
    BY <1>3 DEF DatabaseError, Outcome, Refusal, Running, Inv, TypeOK
  <2> QED
    BY <1>3, <2>1, LogUnchanged DEF Abstract!Refuse, Abstract!Refusal, Refusal, DatabaseError
<1>4. ASSUME NEW c \in Calls, Crash(c) PROVE Abstract!Crash(c)
  <2>1. Outcome[c] = "pending" /\ Outcome' = [Outcome EXCEPT ![c] = "crashed"]
    BY <1>4 DEF Crash, Outcome, Running, Inv, TypeOK
  <2> QED
    BY <1>4, <2>1, LogUnchanged DEF Abstract!Crash, Crash
<1>5. ASSUME NEW c \in Calls, GetLatestChainCursor(c) PROVE UNCHANGED Abstract!vars
  <2>1. UNCHANGED Outcome
    BY <1>5 DEF GetLatestChainCursor, Outcome, Running, Inv, TypeOK
  <2> QED
    BY <1>5, <2>1, LogUnchanged DEF Abstract!vars, GetLatestChainCursor
<1>6. ASSUME NEW c \in Calls, CommitConflict(c)
      PROVE  Abstract!Refuse(c) \/ UNCHANGED Abstract!vars
  <2>1. UNCHANGED ChainOrder
    BY <1>6, LogUnchanged DEF CommitConflict
  <2>2. CASE conflicts[c] + 1 < MaxAttempts
    <3>1. UNCHANGED Outcome
      BY <1>6, <2>2 DEF CommitConflict, AfterConflict, Outcome, Running, Inv, TypeOK
    <3> QED
      BY <2>1, <3>1 DEF Abstract!vars
  <2>3. CASE ~(conflicts[c] + 1 < MaxAttempts)
    <3>1. Outcome[c] = "pending" /\ Outcome' = [Outcome EXCEPT ![c] = Refusal(c)]
      BY <1>6, <2>3 DEF CommitConflict, AfterConflict, Refusal, Outcome, Running, Inv, TypeOK
    <3> QED
      BY <2>1, <3>1 DEF Abstract!Refuse, Abstract!Refusal, Refusal
  <2> QED
    BY <2>2, <2>3
<1>7. CASE UNCHANGED vars
  BY <1>7, LogUnchanged DEF vars, Abstract!vars, Outcome
<1> QED
  BY <1>1, <1>2, <1>3, <1>4, <1>5, <1>6, <1>7
  DEF Next, PersistEntry, Abstract!Next

\* The append path implements the log its callers rely on: whatever the
\* conflicts, errors and crashes, no call observes more than AuditLog allows.
THEOREM ImplementsLog == Spec => Abstract!Init /\ [][Abstract!Next]_(Abstract!vars)
<1>1. Spec => []HasNewest
  BY HasNewestInit, HasNewestNext, Invariance, PTL DEF Spec
<1>2. Spec => []PlacesAreCounted
  BY <1>1, Invariance, CountPlaces, PTL
<1>3. Inv /\ PlacesAreCounted /\ Inv' /\ PlacesAreCounted' /\ [Next]_vars
        => [Abstract!Next]_(Abstract!vars)
  BY NextRefines
<1> QED
  BY <1>2, <1>3, Invariance, InitRefines, PTL DEF Spec
=============================================================================
