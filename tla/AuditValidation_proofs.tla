----------------------- MODULE AuditValidation_proofs -----------------------
(***************************************************************************)
(* Proofs about AuditValidation for any calls, any page length and any     *)
(* number of damages.  While nothing is damaged the invariant of the       *)
(* append path holds.  Afterwards what remains is that a damaged table     *)
(* stays damaged, whatever is appended to it, and that the scan has seen   *)
(* exactly the rows up to its offset.                                      *)
(***************************************************************************)
EXTENDS AuditValidation, AuditChain_proofs

-----------------------------------------------------------------------------
(* The inductive invariant.                                                *)

\* Damage or not: rows have places, no two the same, and cursors are typed.
TableOK ==
  /\ IsFiniteSet(rows)
  /\ \A r \in rows : /\ r = [chain_index |-> r.chain_index, prev_hash |-> r.prev_hash,
                             event |-> r.event, entry_hash |-> r.entry_hash]
                     /\ r.chain_index \in Nat \ {0}
  /\ \A r, s \in rows : s.chain_index = r.chain_index => s = r
  /\ pc \in [Calls -> Running \cup Ended]
  /\ DOMAIN cursor = Calls
  /\ \A c \in Calls : /\ cursor[c] = [chain_index |-> cursor[c].chain_index,
                                      entry_hash  |-> cursor[c].entry_hash]
                      /\ cursor[c].chain_index \in Nat

\* Every hash in use is that of a row some call has committed already.
Settled(h) == \/ h \in {NoHash, Garbage}
              \/ h[3].call \in Calls /\ pc[h[3].call] \notin {"read", "commit"}

HashesSettled ==
  /\ \A r \in rows : Settled(r.prev_hash) /\ Settled(r.entry_hash)
  /\ \A c \in Calls : Settled(cursor[c].entry_hash)

WellFormed(r) == r.entry_hash = EntryHash(r.chain_index, r.prev_hash, r.event)

\* A row once digested what it holds, and a damage leaves Garbage behind.
\* So a row can be damaged further but never repaired.
RowsTraceable ==
  \A r \in rows :
    \/ r.entry_hash = Garbage
    \/ \E p, e : /\ r.entry_hash = EntryHash(r.chain_index, p, e)
                 /\ r.prev_hash \in {p, Garbage}
                 /\ r.event \in {e, Garbage}

\* What every damage leaves in the table: a row that does not hash to its
\* entry_hash, a row missing from the middle, or one that does not follow
\* the row before it.
Defect ==
  \/ \E r \in rows : ~WellFormed(r)
  \/ \E r \in rows : \E i \in 1..r.chain_index : ~IndexTaken(i)
  \/ \E r, s \in rows : r.chain_index = s.chain_index + 1 /\ r.prev_hash # s.entry_hash

\* A row is what the checks expect of it.
Linked(r) ==
  /\ WellFormed(r)
  /\ IF r.chain_index = 1
     THEN r.prev_hash = NoHash
     ELSE \E s \in rows : s.chain_index = r.chain_index - 1 /\ s.entry_hash = r.prev_hash

\* The scan has seen the rows up to its offset, all there and all linked.
Scanned ==
  /\ expected.chain_index = offset + 1
  /\ \A i \in 1..offset : IndexTaken(i)
  /\ \A r \in rows : r.chain_index <= offset => Linked(r)
  /\ IF offset = 0
     THEN expected.prev_hash = NoHash
     ELSE \E s \in rows : s.chain_index = offset /\ s.entry_hash = expected.prev_hash

\* The validation's own variables.
ScanTypeOK ==
  /\ phase \in {"idle", "scan"} \cup Verdicts
  /\ offset \in Nat
  /\ damages \in Nat
  /\ baseline.size \in Nat
  /\ baseline.damages \in Nat
  /\ baseline.damages <= damages

\* The inductive invariant of the scan.
ScanInv ==
  /\ TableOK
  /\ ScanTypeOK
  /\ damages = 0 => Inv
  /\ phase = "scan" /\ damages = baseline.damages => Scanned
  /\ damages = 0 => baseline.size <= Cardinality(rows)
  /\ NoFalseAlarm
  /\ ValidCoversBaseline

\* What is added to it for damage to be found.
DamageInv ==
  /\ HashesSettled
  /\ RowsTraceable
  /\ damages > 0 => Defect
  /\ DamageIsFound

\* No content digests to h: the NULL of the first row, a damaged column.
NoDigest(h) == \A i, p, e : h # EntryHash(i, p, e)

-----------------------------------------------------------------------------
(* Pages.                                                                  *)

\* A row's place in chain order lies between 1 and the number of rows.
LEMMA PositionBounds ==
  ASSUME TableOK, NEW r \in rows
  PROVE  Position(r) \in 1..Cardinality(rows)
<1> DEFINE upTo == {s \in rows : s.chain_index <= r.chain_index}
<1>1. IsFiniteSet(rows) /\ upTo \in SUBSET rows /\ r \in upTo
  BY DEF TableOK
<1> HIDE DEF upTo
<1>2. IsFiniteSet(upTo) /\ Cardinality(upTo) <= Cardinality(rows)
  BY <1>1, FS_Subset
<1>3. Cardinality(upTo) \in Nat /\ Cardinality(rows) \in Nat
  BY <1>1, <1>2, FS_CardinalityType
<1>4. Cardinality(upTo) # 0
  BY <1>1, <1>2, FS_EmptySet
<1>5. Position(r) = Cardinality(upTo)
  BY DEF Position, upTo
<1> QED
  BY <1>2, <1>3, <1>4, <1>5

\* A later row has another place.
LEMMA LaterPositionDiffers ==
  ASSUME TableOK, NEW r \in rows, NEW s \in rows, r.chain_index < s.chain_index
  PROVE  Position(r) # Position(s)
<1> DEFINE upTo(t) == {u \in rows : u.chain_index <= t.chain_index}
<1>1. IsFiniteSet(rows) /\ upTo(s) \in SUBSET rows
  BY DEF TableOK
<1>2. upTo(r) \in SUBSET upTo(s) /\ s \in upTo(s) /\ s \notin upTo(r)
  BY DEF TableOK
<1>3. Position(r) = Cardinality(upTo(r)) /\ Position(s) = Cardinality(upTo(s))
  BY DEF Position
<1> HIDE DEF upTo
<1>4. IsFiniteSet(upTo(s))
  BY <1>1, FS_Subset
<1>5. Cardinality(upTo(s)) = Cardinality(upTo(r)) => upTo(s) = upTo(r)
  BY <1>2, <1>4, FS_Subset
<1> QED
  BY <1>2, <1>3, <1>5

\* Every place is a row's.
LEMMA EveryPosition ==
  ASSUME TableOK, NEW n \in 1..Cardinality(rows)
  PROVE  \E r \in rows : Position(r) = n
<1> DEFINE size == Cardinality(rows)
           f == [r \in rows |-> Position(r)]
<1>1. IsFiniteSet(rows) /\ size \in Nat
  BY FS_CardinalityType DEF TableOK
<1>2. f \in [rows -> 1..size]
  BY PositionBounds
<1>3. ASSUME NEW r \in rows, NEW s \in rows, f[r] = f[s]
      PROVE  r = s
  <2>1. ~ r.chain_index < s.chain_index /\ ~ s.chain_index < r.chain_index
    BY <1>3, LaterPositionDiffers
  <2> QED
    BY <2>1 DEF TableOK
<1>4. IsFiniteSet(1..size) /\ Cardinality(1..size) = size
  BY <1>1, FS_Interval
<1>5. \A r \in rows : f[r] = Position(r)
  OBVIOUS
<1> HIDE DEF f
<1>6. f \in Injection(rows, 1..size)
  BY <1>2, <1>3 DEF Injection, IsInjective
<1>7. f \in Surjection(rows, 1..size)
  BY <1>4, <1>6, FS_Injection
<1> QED
  BY <1>5, <1>7 DEF Surjection

\* If the places up to n are taken, that many rows have them.
LEMMA PrefixCount ==
  ASSUME TableOK, NEW n \in Nat, \A i \in 1..n : IndexTaken(i)
  PROVE  Cardinality({s \in rows : s.chain_index <= n}) = n
<1> DEFINE upTo == {s \in rows : s.chain_index <= n}
           f == [i \in 1..n |-> CHOOSE r \in rows : r.chain_index = i]
<1>1. \A i \in 1..n : f[i] \in rows /\ f[i].chain_index = i
  BY DEF IndexTaken
<1>2. f = [i \in 1..n |-> f[i]]
  OBVIOUS
<1> HIDE DEF f
<1>3. f \in [1..n -> upTo]
  <2>1. \A i \in 1..n : f[i] \in upTo
    BY <1>1
  <2> HIDE DEF upTo
  <2> QED
    BY <1>2, <2>1
<1>4. f \in Injection(1..n, upTo)
  BY <1>1, <1>3 DEF Injection, IsInjective
<1>5. \A s \in upTo : \E i \in 1..n : f[i] = s
  <2> SUFFICES ASSUME NEW s \in upTo PROVE \E i \in 1..n : f[i] = s
    OBVIOUS
  <2>1. s.chain_index \in 1..n
    BY DEF TableOK
  <2>2. f[s.chain_index] = s
    BY <1>1, <2>1 DEF TableOK
  <2> QED
    BY <2>1, <2>2
<1> HIDE DEF upTo
<1>6. f \in Surjection(1..n, upTo)
  BY <1>3, <1>5 DEF Surjection
<1>7. IsFiniteSet(1..n) /\ Cardinality(1..n) = n
  BY FS_Interval
<1>8. Cardinality(upTo) = n
  BY <1>4, <1>6, <1>7, FS_Surjection
<1> QED
  BY <1>8 DEF upTo

\* The page at offset holds the rows at the places behind it, in order; it is
\* empty when there are none.
LEMMA PageRows ==
  ASSUME TableOK, ScanTypeOK
  PROVE  LET page == ListEntries(offset, PageSize)
         IN  /\ Len(page) \in Nat
             /\ page = <<>> <=> Cardinality(rows) <= offset
             /\ page # <<>> => Len(page) > 0
             /\ \A k \in 1..Len(page) : /\ page[k] \in rows
                                         /\ Position(page[k]) = offset + k
<1> DEFINE size == Cardinality(rows)
           n == PageLength(offset, PageSize)
           page == ListEntries(offset, PageSize)
<1>1. size \in Nat /\ offset \in Nat
  BY FS_CardinalityType DEF TableOK, ScanTypeOK
<1>2. n \in Nat /\ (n = 0 <=> size <= offset) /\ (n > 0 => offset + n <= size)
  BY <1>1, PageSizeAssumption DEF PageLength
<1>3. page = [k \in 1..n |-> CHOOSE r \in rows : Position(r) = offset + k]
  BY DEF ListEntries
<1> HIDE DEF n, page, size
<1>4. Len(page) = n /\ (page = <<>> <=> n = 0)
  BY <1>2, <1>3
<1>5. ASSUME NEW k \in 1..n
      PROVE  page[k] \in rows /\ Position(page[k]) = offset + k
  <2>1. offset + k \in 1..Cardinality(rows)
    BY <1>1, <1>2 DEF size
  <2>2. \E r \in rows : Position(r) = offset + k
    BY <2>1, EveryPosition
  <2>3. page[k] = CHOOSE r \in rows : Position(r) = offset + k
    BY <1>3
  <2> QED
    BY <2>2, <2>3
<1>6. Len(page) > 0 <=> n # 0
  BY <1>2, <1>4
<1> QED
  BY <1>2, <1>4, <1>5, <1>6 DEF size, page

-----------------------------------------------------------------------------
(* What a page shows.                                                      *)

\* An empty page: the scan has seen every row, and none is damaged.
LEMMA EmptyPageNoDefect ==
  ASSUME TableOK, ScanTypeOK, Scanned, ListEntries(offset, PageSize) = <<>>
  PROVE  ~Defect
<1> DEFINE seen == {s \in rows : s.chain_index <= offset}
<1>1. offset \in Nat /\ IsFiniteSet(rows) /\ seen \in SUBSET rows
  BY DEF ScanTypeOK, TableOK
<1>2. Cardinality(seen) = offset
  BY <1>1, PrefixCount DEF Scanned
<1>3. Cardinality(rows) <= offset
  BY PageRows
<1>4. Cardinality(seen) <= Cardinality(rows)
      /\ (Cardinality(rows) = Cardinality(seen) => rows = seen)
  <2> HIDE DEF seen
  <2> QED
    BY <1>1, FS_Subset
<1>5. Cardinality(rows) \in Nat
  BY <1>1, FS_CardinalityType
<1>6. rows = seen
  <2> HIDE DEF seen
  <2> QED
    BY <1>1, <1>2, <1>3, <1>4, <1>5
<1>7. \A r \in rows : r.chain_index \in Nat \ {0} /\ r.chain_index <= offset /\ Linked(r)
  BY <1>6 DEF Scanned, TableOK
<1>8. \A r \in rows : WellFormed(r)
  BY <1>7 DEF Linked
<1>9. \A r \in rows : \A i \in 1..r.chain_index : IndexTaken(i)
  BY <1>1, <1>7 DEF Scanned
<1>10. ASSUME NEW r \in rows, NEW s \in rows, r.chain_index = s.chain_index + 1
       PROVE  r.prev_hash = s.entry_hash
  <2>1. r.chain_index # 1
    BY <1>7, <1>10
  <2>2. PICK t \in rows : t.chain_index = r.chain_index - 1 /\ t.entry_hash = r.prev_hash
    BY <1>7, <2>1 DEF Linked
  <2>3. t = s
    BY <1>7, <1>10, <2>2 DEF TableOK
  <2> QED
    BY <2>2, <2>3
<1> QED
  BY <1>8, <1>9, <1>10 DEF Defect

\* A page whose rows all continue the chain: the scan has seen them too.
LEMMA NextPageScanned ==
  ASSUME TableOK, ScanTypeOK, Scanned,
         NEW page, page = ListEntries(offset, PageSize), page # <<>>,
         \A k \in 1..Len(page) : Continues(page, k),
         offset' = NextOffset(page),
         expected' = [chain_index |-> expected.chain_index + Len(page),
                      prev_hash |-> page[Len(page)].entry_hash],
         UNCHANGED vars
  PROVE  Scanned'
<1> DEFINE n == Len(page)
<1>1. /\ n \in Nat /\ n > 0 /\ offset \in Nat
      /\ \A k \in 1..n : page[k] \in rows
  BY PageRows DEF ScanTypeOK
<1>2. offset' = offset + n
  BY DEF NextOffset
<1>3. expected.chain_index = offset + 1
  BY DEF Scanned
<1>4. \A k \in 1..n : /\ page[k].chain_index = offset + k
                      /\ WellFormed(page[k])
  BY <1>1, <1>3 DEF Continues, WellFormed
<1>5. \A k \in 1..n :
        page[k].prev_hash = IF k = 1 THEN expected.prev_hash ELSE page[k - 1].entry_hash
  BY DEF Continues
<1> HIDE DEF n
<1>6. \A k \in 1..n : Linked(page[k])
  <2> SUFFICES ASSUME NEW k \in 1..n PROVE Linked(page[k])
    OBVIOUS
  <2>1. CASE k = 1 /\ offset = 0
    BY <1>1, <1>4, <1>5, <2>1 DEF Linked, Scanned
  <2>2. CASE k = 1 /\ offset # 0
    <3>1. PICK s \in rows : s.chain_index = offset /\ s.entry_hash = expected.prev_hash
      BY <2>2 DEF Scanned
    <3>2. page[k].chain_index = offset + 1 /\ page[k].prev_hash = s.entry_hash
      BY <1>4, <1>5, <2>2, <3>1
    <3>3. page[k].chain_index # 1 /\ s.chain_index = page[k].chain_index - 1
      BY <1>1, <2>2, <3>1, <3>2
    <3> QED
      BY <1>4, <3>2, <3>3 DEF Linked
  <2>3. CASE k # 1
    <3>1. k - 1 \in 1..n
      BY <1>1, <2>3
    <3>2. page[k].prev_hash = page[k - 1].entry_hash
      BY <1>5, <2>3
    <3>3. page[k - 1] \in rows /\ page[k - 1].chain_index = page[k].chain_index - 1
          /\ page[k].chain_index # 1
      <4>1. page[k - 1].chain_index = offset + (k - 1) /\ page[k].chain_index = offset + k
        BY <1>4, <3>1
      <4>2. k \in Nat /\ k > 1
        BY <1>1, <2>3
      <4> QED
        BY <1>1, <3>1, <4>1, <4>2
    <3> QED
      BY <1>4, <3>2, <3>3 DEF Linked
  <2> QED
    BY <2>1, <2>2, <2>3
<1>7. \A i \in 1..(offset + n) : IndexTaken(i)
  <2> SUFFICES ASSUME NEW i \in 1..(offset + n) PROVE IndexTaken(i)
    OBVIOUS
  <2>1. CASE i <= offset
    BY <1>1, <2>1 DEF Scanned
  <2>2. CASE i > offset
    <3>1. i - offset \in 1..n
      BY <1>1, <2>2
    <3>2. page[i - offset] \in rows /\ page[i - offset].chain_index = i
      BY <1>1, <1>4, <3>1
    <3> QED
      BY <3>2 DEF IndexTaken
  <2> QED
    BY <1>1, <2>1, <2>2
<1>8. ASSUME NEW r \in rows, r.chain_index <= offset + n
      PROVE  Linked(r)
  <2>1. CASE r.chain_index <= offset
    BY <2>1 DEF Scanned
  <2>2. CASE r.chain_index > offset
    <3>1. r.chain_index - offset \in 1..n
      BY <1>1, <1>8, <2>2 DEF TableOK
    <3>2. page[r.chain_index - offset] = r
      BY <1>1, <1>4, <3>1 DEF TableOK
    <3> QED
      BY <1>6, <3>1, <3>2
  <2> QED
    BY <1>1, <2>1, <2>2 DEF TableOK
<1>9. n \in 1..n
  BY <1>1
<1>10. page[n] \in rows /\ page[n].chain_index = offset + n /\ offset + n # 0
  BY <1>1, <1>4, <1>9
<1>11. expected'.chain_index = offset' + 1 /\ expected'.prev_hash = page[n].entry_hash
  BY <1>1, <1>2, <1>3 DEF n
<1>12. rows' = rows
  BY DEF vars
<1> QED
  BY <1>2, <1>7, <1>8, <1>10, <1>11, <1>12 DEF Scanned, IndexTaken, Linked

\* On an undamaged table every page continues the chain.
LEMMA CleanPageContinues ==
  ASSUME TableOK, ScanTypeOK, Scanned, Inv,
         NEW page, page = ListEntries(offset, PageSize), NEW k \in 1..Len(page)
  PROVE  Continues(page, k)
<1>1. /\ Len(page) \in Nat /\ offset \in Nat
      /\ \A j \in 1..Len(page) : page[j] \in rows /\ Position(page[j]) = offset + j
  BY PageRows DEF ScanTypeOK
<1>2. \A r \in rows : Position(r) = r.chain_index
  <2> SUFFICES ASSUME NEW r \in rows PROVE Position(r) = r.chain_index
    OBVIOUS
  <2>1. r.chain_index \in Nat /\ \A i \in 1..r.chain_index : IndexTaken(i)
    BY DEF TableOK, Inv, Gapless
  <2> QED
    BY <2>1, PrefixCount DEF Position
<1>3. \A j \in 1..Len(page) : page[j] \in rows /\ page[j].chain_index = offset + j
  BY <1>1, <1>2
<1>4. expected.chain_index = offset + 1
  BY DEF Scanned
<1>5. WellFormed(page[k])
  <2>1. page[k] = Row(page[k].chain_index, page[k].prev_hash, page[k].event)
    BY <1>3 DEF Inv, TypeOK
  <2> QED
    BY <2>1 DEF WellFormed, Row
<1>6. IF page[k].chain_index = 1
      THEN page[k].prev_hash = NoHash
      ELSE \E s \in rows : s.chain_index = page[k].chain_index - 1
                         /\ page[k].prev_hash = s.entry_hash
  BY <1>3 DEF Inv, ChainContinuity
<1>7. page[k].prev_hash = IF k = 1 THEN expected.prev_hash ELSE page[k - 1].entry_hash
  <2>1. CASE k = 1 /\ offset = 0
    BY <1>1, <1>3, <1>6, <2>1 DEF Scanned
  <2>2. CASE k = 1 /\ offset # 0
    <3>1. PICK s \in rows : s.chain_index = offset /\ s.entry_hash = expected.prev_hash
      BY <2>2 DEF Scanned
    <3>2. PICK t \in rows : t.chain_index = offset /\ page[k].prev_hash = t.entry_hash
      <4>1. page[k].chain_index = offset + 1
        BY <1>3, <2>2
      <4>2. page[k].chain_index # 1 /\ page[k].chain_index - 1 = offset
        BY <1>1, <2>2, <4>1
      <4> QED
        BY <1>6, <4>2
    <3>3. s = t
      BY <3>1, <3>2 DEF TableOK
    <3> QED
      BY <2>2, <3>1, <3>2, <3>3
  <2>3. CASE k # 1
    <3>1. k - 1 \in 1..Len(page)
      BY <1>1, <2>3
    <3>2. page[k - 1] \in rows /\ page[k - 1].chain_index = page[k].chain_index - 1
          /\ page[k].chain_index # 1
      BY <1>1, <1>3, <2>3, <3>1
    <3>3. PICK t \in rows : t.chain_index = page[k].chain_index - 1
                           /\ page[k].prev_hash = t.entry_hash
      BY <1>6, <3>2
    <3>4. page[k - 1] = t
      BY <3>2, <3>3 DEF TableOK
    <3> QED
      BY <2>3, <3>3, <3>4
  <2> QED
    BY <2>1, <2>2, <2>3
<1>8. page[k].chain_index = expected.chain_index + k - 1
  BY <1>1, <1>3, <1>4
<1> QED
  BY <1>5, <1>7, <1>8 DEF Continues, WellFormed

-----------------------------------------------------------------------------
(* The steps and the invariant of the scan.                                *)

\* A step of a call leaves the table as it is or adds one row at a free place.
LEMMA PersistEntryTable ==
  ASSUME TableOK, NEW c \in Calls, PersistEntry(c)
  PROVE  /\ TableOK'
         /\ \/ rows' = rows
            \/ /\ CommitEntry(c)
               /\ rows' = rows \cup {NextRow(c)}
               /\ NextRow(c).chain_index \in Nat \ {0}
               /\ \A s \in rows : s.chain_index # NextRow(c).chain_index
<1> USE DEF TableOK
<1>1. CASE GetLatestChainCursor(c)
  <2>1. PICK latest \in LatestChainCursors : cursor' = [cursor EXCEPT ![c] = latest]
    BY <1>1 DEF GetLatestChainCursor
  <2>2. rows' = rows /\ pc' = [pc EXCEPT ![c] = "commit"]
    BY <1>1 DEF GetLatestChainCursor
  <2>3. latest = EmptyCursor \/ \E r \in rows : latest = CursorOf(r)
    BY DEF LatestChainCursors
  <2>4. latest = [chain_index |-> latest.chain_index, entry_hash |-> latest.entry_hash]
        /\ latest.chain_index \in Nat
    BY <2>3 DEF EmptyCursor, CursorOf
  <2>5. DOMAIN cursor' = Calls /\ \A d \in Calls : cursor'[d] = latest \/ cursor'[d] = cursor[d]
    BY <2>1
  <2>6. pc' \in [Calls -> Running \cup Ended]
    BY <2>2 DEF Running
  <2> QED
    BY <2>2, <2>4, <2>5, <2>6
<1>2. CASE CommitEntry(c)
  <2> DEFINE new == NextRow(c)
             i == cursor[c].chain_index + 1
  <2>1. /\ rows' = rows \cup {new}
        /\ pc' = [pc EXCEPT ![c] = "refresh"]
        /\ cursor' = cursor
        /\ ~IndexTaken(i)
    BY <1>2 DEF CommitEntry
  <2>2. i \in Nat \ {0}
    OBVIOUS
  <2>3. /\ new = [chain_index |-> new.chain_index, prev_hash |-> new.prev_hash,
                  event |-> new.event, entry_hash |-> new.entry_hash]
        /\ new.chain_index = i
    BY DEF NextRow, Row
  <2> HIDE DEF new, i
  <2>4. \A s \in rows : s.chain_index # i
    BY <2>1 DEF IndexTaken
  <2>5. IsFiniteSet(rows')
    BY <2>1, FS_AddElement
  <2>6. \A r \in rows' : /\ r = [chain_index |-> r.chain_index, prev_hash |-> r.prev_hash,
                                event |-> r.event, entry_hash |-> r.entry_hash]
                        /\ r.chain_index \in Nat \ {0}
    BY <2>1, <2>2, <2>3
  <2>7. \A r, s \in rows' : s.chain_index = r.chain_index => s = r
    BY <2>1, <2>3, <2>4
  <2>8. pc' \in [Calls -> Running \cup Ended]
    BY <2>1 DEF Running
  <2>9. TableOK'
    BY <2>1, <2>5, <2>6, <2>7, <2>8
  <2> QED
    BY <1>2, <2>1, <2>2, <2>3, <2>4, <2>9 DEF new
<1>3. CASE CommitConflict(c)
  <2>1. AfterConflict(c) \in Running \cup Ended
    BY RefusalEnds DEF AfterConflict, Running, Ended
  <2> QED
    BY <1>3, <2>1 DEF CommitConflict
<1>4. CASE RefreshEntry(c)
  BY <1>4 DEF RefreshEntry, Ended
<1> QED
  BY <1>1, <1>2, <1>3, <1>4 DEF PersistEntry

\* What the scan has seen stays as it was seen when a row is added: there is
\* no free place among the rows seen.
LEMMA ScannedStable ==
  ASSUME TableOK, ScanTypeOK, Scanned, NEW new,
         rows' = rows \cup {new},
         new.chain_index \in Nat \ {0},
         \A s \in rows : s.chain_index # new.chain_index,
         UNCHANGED <<offset, expected>>
  PROVE  Scanned'
<1>1. offset \in Nat
  BY DEF ScanTypeOK
<1>2. ~ new.chain_index <= offset
  <2> SUFFICES ASSUME new.chain_index <= offset PROVE FALSE
    OBVIOUS
  <2>1. new.chain_index \in 1..offset
    BY <1>1
  <2> QED
    BY <2>1 DEF Scanned, IndexTaken
<1>3. \A i \in 1..offset : \E s \in rows' : s.chain_index = i
  BY DEF Scanned, IndexTaken
<1>4. \A r \in rows' : r.chain_index <= offset => r \in rows /\ Linked(r)
  BY <1>2 DEF Scanned
<1>5. \A r \in rows : Linked(r) => Linked(r)'
  BY DEF Linked, WellFormed
<1>6. \A r \in rows' : r.chain_index <= offset => Linked(r)'
  BY <1>4, <1>5
<1> QED
  BY <1>3, <1>6 DEF Scanned, IndexTaken

\* A step of a call keeps the invariant of the scan.
LEMMA PersistEntryScanInv ==
  ASSUME ScanInv, NEW c \in Calls, PersistEntry(c), UNCHANGED valVars
  PROVE  ScanInv'
<1> USE DEF ScanInv, valVars
<1>1. TableOK'
  BY PersistEntryTable
<1>2. ScanTypeOK' /\ NoFalseAlarm' /\ ValidCoversBaseline'
  BY DEF ScanTypeOK, NoFalseAlarm, ValidCoversBaseline
<1>3. damages' = 0 => Inv'
  <2>1. Next
    BY DEF Next
  <2> QED
    BY <2>1, NextInv
<1>4. ASSUME phase' = "scan", damages' = baseline'.damages
      PROVE  Scanned'
  <2>1. Scanned
    BY <1>4
  <2>2. CASE rows' = rows
    BY <2>1, <2>2 DEF Scanned, IndexTaken, Linked, WellFormed
  <2>3. CASE rows' # rows
    BY <2>1, <2>3, PersistEntryTable, ScannedStable
  <2> QED
    BY <2>2, <2>3
<1>5. damages' = 0 => baseline'.size <= Cardinality(rows')
  <2>1. IsFiniteSet(rows') /\ IsFiniteSet(rows)
    BY <1>1 DEF TableOK
  <2>2. rows \in SUBSET rows'
    BY PersistEntryTable
  <2>3. Cardinality(rows) <= Cardinality(rows')
    BY <2>1, <2>2, FS_Subset
  <2>4. Cardinality(rows) \in Nat /\ Cardinality(rows') \in Nat /\ baseline.size \in Nat
    BY <2>1, FS_CardinalityType DEF ScanTypeOK
  <2> QED
    BY <2>3, <2>4
<1> QED
  BY <1>1, <1>2, <1>3, <1>4, <1>5

\* The parts that speak of the table alone.
LEMMA TableUnchanged ==
  ASSUME UNCHANGED vars
  PROVE  /\ TableOK => TableOK'
         /\ Inv => Inv'
         /\ HashesSettled => HashesSettled'
         /\ RowsTraceable => RowsTraceable'
         /\ Defect => Defect'
<1> USE DEF vars
<1>1. TableOK => TableOK'
  BY DEF TableOK
<1>2. Inv => Inv'
  BY NextInv
<1>3. (HashesSettled => HashesSettled') /\ (RowsTraceable => RowsTraceable')
  BY DEF HashesSettled, Settled, RowsTraceable
<1>4. Defect => Defect'
  BY DEF Defect, WellFormed, IndexTaken
<1> QED
  BY <1>1, <1>2, <1>3, <1>4

\* The start of a validation: nothing is seen yet.
LEMMA StartScanInv ==
  ASSUME ScanInv, Start
  PROVE  ScanInv'
<1> USE DEF ScanInv, Start
<1>1. TableOK' /\ (damages' = 0 => Inv')
  BY TableUnchanged
<1>2. Cardinality(rows) \in Nat /\ rows' = rows
  BY FS_CardinalityType DEF TableOK, vars
<1>3. baseline'.size = Cardinality(rows) /\ baseline'.damages = damages
  OBVIOUS
<1>4. ScanTypeOK'
  BY <1>2, <1>3 DEF ScanTypeOK
<1>5. Scanned'
  <2>1. /\ offset' = 0
        /\ expected'.chain_index = 1
        /\ expected'.prev_hash = NoHash
    OBVIOUS
  <2>2. \A r \in rows' : ~ r.chain_index <= 0
    BY <1>2 DEF TableOK
  <2> QED
    BY <2>1, <2>2 DEF Scanned
<1>6. NoFalseAlarm' /\ ValidCoversBaseline'
  BY DEF NoFalseAlarm, ValidCoversBaseline
<1> QED
  BY <1>1, <1>2, <1>3, <1>4, <1>5, <1>6

\* The three outcomes of a page.
LEMMA ScanPageCases ==
  ASSUME ScanPage
  PROVE  LET page == ListEntries(offset, PageSize)
         IN  /\ phase = "scan"
             /\ UNCHANGED <<vars, damages, baseline>>
             /\ \/ page = <<>> /\ phase' = "valid" /\ UNCHANGED <<offset, expected>>
                \/ /\ page # <<>>
                   /\ \A k \in 1..Len(page) : Continues(page, k)
                   /\ offset' = NextOffset(page)
                   /\ expected' = [chain_index |-> expected.chain_index + Len(page),
                                    prev_hash |-> page[Len(page)].entry_hash]
                   /\ phase' = phase
                \/ /\ \E k \in 1..Len(page) : ~Continues(page, k)
                   /\ phase' = "invalid"
                   /\ UNCHANGED <<offset, expected>>
BY DEF ScanPage, EndOfTable, Mismatch

\* Reading a page keeps the invariant of the scan.
LEMMA ScanPageScanInv ==
  ASSUME ScanInv, ScanPage
  PROVE  ScanInv'
<1> DEFINE page == ListEntries(offset, PageSize)
<1> USE DEF ScanInv
<1>1. phase = "scan" /\ UNCHANGED <<vars, damages, baseline>>
  BY ScanPageCases
<1>2. TableOK' /\ (damages' = 0 => Inv') /\ rows' = rows
  BY <1>1, TableUnchanged DEF vars
<1>3. damages' = 0 => baseline'.size <= Cardinality(rows')
  BY <1>1, <1>2
<1>4. damages = 0 => damages = baseline.damages
  BY DEF ScanTypeOK
<1>5. Len(page) \in Nat /\ offset \in Nat
  BY PageRows DEF ScanTypeOK
<1> HIDE DEF page
<1>6. CASE page = <<>> /\ phase' = "valid" /\ UNCHANGED <<offset, expected>>
  <2>1. ScanTypeOK' /\ NoFalseAlarm'
    BY <1>1, <1>6 DEF ScanTypeOK, NoFalseAlarm, Verdicts
  <2>2. ValidCoversBaseline'
    <3> SUFFICES ASSUME damages = 0 PROVE expected.chain_index - 1 >= baseline.size
      BY <1>1, <1>6 DEF ValidCoversBaseline
    <3>1. expected.chain_index = offset + 1
      BY <1>1, <1>4 DEF Scanned
    <3>2. Cardinality(rows) <= offset /\ Cardinality(rows) \in Nat
      BY <1>6, PageRows, FS_CardinalityType DEF TableOK, page
    <3> QED
      BY <1>5, <3>1, <3>2 DEF ScanTypeOK
  <2> QED
    BY <1>2, <1>3, <1>6, <2>1, <2>2
<1>7. CASE /\ page # <<>>
           /\ \A k \in 1..Len(page) : Continues(page, k)
           /\ offset' = NextOffset(page)
           /\ expected' = [chain_index |-> expected.chain_index + Len(page),
                            prev_hash |-> page[Len(page)].entry_hash]
           /\ phase' = phase
  <2>1. offset' \in Nat
    BY <1>5, <1>7 DEF NextOffset
  <2>2. ScanTypeOK' /\ NoFalseAlarm' /\ ValidCoversBaseline'
    BY <1>1, <1>7, <2>1 DEF ScanTypeOK, NoFalseAlarm, ValidCoversBaseline
  <2>3. damages' = baseline'.damages => Scanned'
    BY <1>1, <1>7, NextPageScanned DEF page
  <2> QED
    BY <1>2, <1>3, <2>2, <2>3
<1>8. CASE /\ \E k \in 1..Len(page) : ~Continues(page, k)
           /\ phase' = "invalid"
           /\ UNCHANGED <<offset, expected>>
  <2>1. damages # 0
    <3> SUFFICES ASSUME damages = 0 PROVE FALSE
      OBVIOUS
    <3>1. Inv /\ Scanned
      BY <1>1, <1>4
    <3> QED
      BY <1>8, <3>1, CleanPageContinues DEF page
  <2>2. ScanTypeOK' /\ NoFalseAlarm' /\ ValidCoversBaseline'
    BY <1>1, <1>8, <2>1 DEF ScanTypeOK, NoFalseAlarm, ValidCoversBaseline, Verdicts
  <2> QED
    BY <1>2, <1>3, <1>8, <2>2
<1> QED
  BY <1>6, <1>7, <1>8, ScanPageCases DEF page

\* The table with the row new in the place of r, one column of it Garbage now
\* that was not.
Altered(r, new) ==
  /\ rows' = (rows \ {r}) \cup {new}
  /\ new = [chain_index |-> new.chain_index, prev_hash |-> new.prev_hash,
            event |-> new.event, entry_hash |-> new.entry_hash]
  /\ new.chain_index = r.chain_index
  /\ \/ /\ r.prev_hash # Garbage /\ new.prev_hash = Garbage
        /\ new.event = r.event /\ new.entry_hash = r.entry_hash
     \/ /\ r.event # Garbage /\ new.event = Garbage
        /\ new.prev_hash = r.prev_hash /\ new.entry_hash = r.entry_hash
     \/ /\ r.entry_hash # Garbage /\ new.entry_hash = Garbage
        /\ new.prev_hash = r.prev_hash /\ new.event = r.event

\* That is what AlterRow does.
LEMMA AlteredRow ==
  ASSUME TableOK, NEW r \in rows, AlterRow(r)
  PROVE  \E new : Altered(r, new)
<1>1. r = [chain_index |-> r.chain_index, prev_hash |-> r.prev_hash,
           event |-> r.event, entry_hash |-> r.entry_hash]
  BY DEF TableOK
<1>2. PICK field \in {"prev_hash", "event", "entry_hash"} :
        rows' = (rows \ {r}) \cup {[r EXCEPT ![field] = Garbage]}
  BY DEF AlterRow
<1> DEFINE new == [r EXCEPT ![field] = Garbage]
<1>3. rows' = (rows \ {r}) \cup {new} /\ rows' # rows
  BY <1>2 DEF AlterRow
<1>4. new # r
  <2> HIDE DEF new
  <2> QED
    BY <1>3
<1>5. CASE field = "prev_hash"
  <2>1. new = [chain_index |-> r.chain_index, prev_hash |-> Garbage,
               event |-> r.event, entry_hash |-> r.entry_hash]
    <3>1. new = [r EXCEPT !.prev_hash = Garbage]
      BY <1>5
    <3> HIDE DEF new
    <3> QED
      BY <1>1, <3>1
  <2> HIDE DEF new
  <2>2. r.prev_hash # Garbage
    BY <1>1, <1>4, <2>1
  <2>3. /\ new = [chain_index |-> new.chain_index, prev_hash |-> new.prev_hash,
                  event |-> new.event, entry_hash |-> new.entry_hash]
        /\ new.chain_index = r.chain_index
        /\ new.prev_hash = Garbage
        /\ new.event = r.event /\ new.entry_hash = r.entry_hash
    BY <2>1
  <2>4. Altered(r, new)
    BY <1>3, <2>2, <2>3 DEF Altered
  <2> QED
    BY <2>4
<1>6. CASE field = "event"
  <2>1. new = [chain_index |-> r.chain_index, prev_hash |-> r.prev_hash,
               event |-> Garbage, entry_hash |-> r.entry_hash]
    <3>1. new = [r EXCEPT !.event = Garbage]
      BY <1>6
    <3> HIDE DEF new
    <3> QED
      BY <1>1, <3>1
  <2> HIDE DEF new
  <2>2. r.event # Garbage
    BY <1>1, <1>4, <2>1
  <2>3. /\ new = [chain_index |-> new.chain_index, prev_hash |-> new.prev_hash,
                  event |-> new.event, entry_hash |-> new.entry_hash]
        /\ new.chain_index = r.chain_index
        /\ new.event = Garbage
        /\ new.prev_hash = r.prev_hash /\ new.entry_hash = r.entry_hash
    BY <2>1
  <2>4. Altered(r, new)
    BY <1>3, <2>2, <2>3 DEF Altered
  <2> QED
    BY <2>4
<1>7. CASE field = "entry_hash"
  <2>1. new = [chain_index |-> r.chain_index, prev_hash |-> r.prev_hash,
               event |-> r.event, entry_hash |-> Garbage]
    <3>1. new = [r EXCEPT !.entry_hash = Garbage]
      BY <1>7
    <3> HIDE DEF new
    <3> QED
      BY <1>1, <3>1
  <2> HIDE DEF new
  <2>2. r.entry_hash # Garbage
    BY <1>1, <1>4, <2>1
  <2>3. /\ new = [chain_index |-> new.chain_index, prev_hash |-> new.prev_hash,
                  event |-> new.event, entry_hash |-> new.entry_hash]
        /\ new.chain_index = r.chain_index
        /\ new.entry_hash = Garbage
        /\ new.prev_hash = r.prev_hash /\ new.event = r.event
    BY <2>1
  <2>4. Altered(r, new)
    BY <1>3, <2>2, <2>3 DEF Altered
  <2> QED
    BY <2>4
<1> QED
  BY <1>5, <1>6, <1>7

\* A damage takes place in the table, and counts.
LEMMA DamageEffect ==
  ASSUME Damage
  PROVE  /\ \E r \in rows : AlterRow(r) \/ LoseRow(r)
         /\ damages' = damages + 1
         /\ UNCHANGED <<pc, conflicts, cursor, phase, offset, expected, baseline>>
BY DEF Damage

\* A damage leaves a table whose rows still have places of their own.
LEMMA DamageTableOK ==
  ASSUME TableOK, Damage
  PROVE  TableOK'
<1>1. pc' = pc /\ cursor' = cursor
  BY DamageEffect
<1>2. PICK r \in rows : AlterRow(r) \/ LoseRow(r)
  BY DamageEffect
<1>3. IsFiniteSet(rows \ {r})
  BY FS_RemoveElement DEF TableOK
<1>4. CASE AlterRow(r)
  <2>1. \E new : Altered(r, new)
    BY <1>4, AlteredRow
  <2>2. PICK new : /\ rows' = (rows \ {r}) \cup {new}
                   /\ new = [chain_index |-> new.chain_index, prev_hash |-> new.prev_hash,
                             event |-> new.event, entry_hash |-> new.entry_hash]
                   /\ new.chain_index = r.chain_index
    BY <2>1 DEF Altered
  <2>3. IsFiniteSet(rows')
    BY <1>3, <2>2, FS_AddElement
  <2>4. \A s, t \in rows' : t.chain_index = s.chain_index => t = s
    BY <2>2 DEF TableOK
  <2> QED
    BY <1>1, <2>2, <2>3, <2>4 DEF TableOK
<1>5. CASE LoseRow(r)
  <2>1. rows' = rows \ {r}
    BY <1>5 DEF LoseRow
  <2> QED
    BY <1>1, <1>3, <2>1 DEF TableOK
<1> QED
  BY <1>2, <1>4, <1>5

\* A damage keeps the invariant of the scan: it asks nothing of a scan during
\* which the table was damaged.
LEMMA DamageScanInv ==
  ASSUME ScanInv, Damage
  PROVE  ScanInv'
<1> USE DEF ScanInv
<1>1. /\ damages' = damages + 1
      /\ UNCHANGED <<phase, offset, expected, baseline>>
  BY DamageEffect
<1>2. TableOK'
  BY DamageTableOK
<1>3. ScanTypeOK'
  BY <1>1 DEF ScanTypeOK
<1>4. damages' # 0 /\ damages' # baseline'.damages
  BY <1>1 DEF ScanTypeOK
<1> QED
  BY <1>2, <1>3, <1>4 DEF NoFalseAlarm, ValidCoversBaseline

\* The initial state satisfies the invariant of the scan.
LEMMA InitScanInv == ValidationInit => ScanInv
<1> SUFFICES ASSUME ValidationInit PROVE ScanInv
  OBVIOUS
<1> USE DEF ValidationInit
<1>1. Inv
  BY InitInv
<1>2. TableOK
  BY FS_EmptySet DEF Init, TableOK, EmptyCursor, Running
<1>3. ScanTypeOK /\ NoFalseAlarm /\ ValidCoversBaseline
  BY DEF ScanTypeOK, NoFalseAlarm, ValidCoversBaseline
<1>4. baseline.size <= Cardinality(rows)
  BY FS_EmptySet DEF Init
<1> QED
  BY <1>1, <1>2, <1>3, <1>4 DEF ScanInv

\* Every step keeps the invariant of the scan.
LEMMA NextScanInv == ScanInv /\ [ValidationNext]_allVars => ScanInv'
<1> SUFFICES ASSUME ScanInv, [ValidationNext]_allVars PROVE ScanInv'
  OBVIOUS
<1>1. ASSUME NEW c \in Calls, PersistEntry(c), UNCHANGED valVars PROVE ScanInv'
  BY <1>1, PersistEntryScanInv
<1>2. CASE Start
  BY <1>2, StartScanInv
<1>3. CASE ScanPage
  BY <1>3, ScanPageScanInv
<1>4. CASE Damage
  BY <1>4, DamageScanInv
<1>5. CASE UNCHANGED allVars
  <2>1. UNCHANGED vars /\ UNCHANGED valVars /\ rows' = rows
    BY <1>5 DEF allVars, vars
  <2>2. TableOK' /\ (damages = 0 => Inv')
    BY <2>1, TableUnchanged DEF ScanInv
  <2>3. ScanTypeOK' /\ NoFalseAlarm' /\ ValidCoversBaseline'
    BY <2>1 DEF ScanInv, ScanTypeOK, NoFalseAlarm, ValidCoversBaseline, valVars
  <2>4. Scanned => Scanned'
    BY <2>1 DEF Scanned, IndexTaken, Linked, WellFormed, valVars
  <2> QED
    BY <2>1, <2>2, <2>3, <2>4 DEF ScanInv, valVars
<1> QED
  BY <1>1, <1>2, <1>3, <1>4, <1>5 DEF ValidationNext

\* The invariant of the scan holds of every reachable state.
THEOREM ScanInvariance == ValidationSpec => []ScanInv
BY InitScanInv, NextScanInv, PTL DEF ValidationSpec

\* validate_chain never takes appends for damage, however many calls append
\* while it runs and wherever its pages end.
THEOREM NoAlarmOnAppends == ValidationSpec => []NoFalseAlarm
<1>1. ScanInv => NoFalseAlarm
  BY DEF ScanInv
<1> QED
  BY <1>1, ScanInvariance, PTL

\* When validate_chain calls an undamaged table valid it has checked every row
\* that was there when it began.
THEOREM ValidVerdictIsComplete == ValidationSpec => []ValidCoversBaseline
<1>1. ScanInv => ValidCoversBaseline
  BY DEF ScanInv
<1> QED
  BY <1>1, ScanInvariance, PTL

-----------------------------------------------------------------------------
(* The steps and the damage.                                               *)

\* A hash of a committed row stays one: no call goes back to before its commit.
LEMMA SettledStable ==
  ASSUME TableOK, NEW c \in Calls, PersistEntry(c), NEW CONSTANT h, Settled(h)
  PROVE  Settled(h)'
<1>1. CASE h \in {NoHash, Garbage}
  BY <1>1 DEF Settled
<1>2. CASE h[3].call \in Calls /\ pc[h[3].call] \notin {"read", "commit"}
  <2>1. PICK d \in Calls : d = h[3].call
    BY <1>2
  <2>2. pc[d] \notin {"read", "commit"}
    BY <1>2, <2>1
  <2>3. CASE d = c
    <3>1. RefreshEntry(c)
      BY <2>2, <2>3 DEF PersistEntry, GetLatestChainCursor, CommitEntry, CommitConflict
    <3>2. pc'[d] = "returned"
      BY <2>3, <3>1 DEF RefreshEntry, TableOK
    <3> QED
      BY <2>1, <3>2 DEF Settled
  <2>4. CASE d # c
    <3>1. pc'[d] = pc[d]
      BY <2>2, <2>4 DEF PersistEntry, GetLatestChainCursor, CommitEntry, CommitConflict,
                        RefreshEntry, TableOK
    <3> QED
      BY <2>1, <2>2, <3>1 DEF Settled
  <2> QED
    BY <2>3, <2>4
<1> QED
  BY <1>1, <1>2 DEF Settled

\* What a commit adds.
LEMMA CommittedRow ==
  ASSUME TableOK, NEW c \in Calls, CommitEntry(c)
  PROVE  /\ rows' = rows \cup {NextRow(c)}
         /\ cursor' = cursor
         /\ pc[c] = "commit"
         /\ pc'[c] = "refresh"
         /\ NextRow(c).prev_hash = cursor[c].entry_hash
         /\ NextRow(c).entry_hash
              = EntryHash(NextRow(c).chain_index, NextRow(c).prev_hash, NextRow(c).event)
         /\ NextRow(c).event.call = c
BY DEF CommitEntry, NextRow, Row, EventOf, TableOK

\* A step of a call uses only hashes of rows some call has committed.
LEMMA PersistEntryHashes ==
  ASSUME TableOK, HashesSettled, NEW c \in Calls, PersistEntry(c)
  PROVE  HashesSettled'
<1>1. \A h : Settled(h) => Settled(h)'
  BY SettledStable
<1>2. Settled(NoHash)
  BY DEF Settled
<1>3. CASE GetLatestChainCursor(c)
  <2>1. PICK latest \in LatestChainCursors : cursor' = [cursor EXCEPT ![c] = latest]
    BY <1>3 DEF GetLatestChainCursor
  <2>2. rows' = rows
    BY <1>3 DEF GetLatestChainCursor
  <2>3. latest = EmptyCursor \/ \E r \in rows : latest = CursorOf(r)
    BY DEF LatestChainCursors
  <2>4. Settled(latest.entry_hash)
    BY <1>2, <2>3 DEF EmptyCursor, CursorOf, HashesSettled
  <2>5. \A d \in Calls : cursor'[d] = latest \/ cursor'[d] = cursor[d]
    BY <2>1 DEF TableOK
  <2>6. \A d \in Calls : Settled(cursor'[d].entry_hash)
    BY <2>4, <2>5 DEF HashesSettled
  <2> QED
    BY <1>1, <2>2, <2>6 DEF HashesSettled
<1>4. CASE CommitEntry(c)
  <2>1. PICK new : new = NextRow(c)
    OBVIOUS
  <2>2. /\ rows' = rows \cup {new}
        /\ cursor' = cursor
        /\ pc'[c] = "refresh"
        /\ new.prev_hash = cursor[c].entry_hash
        /\ new.entry_hash = EntryHash(new.chain_index, new.prev_hash, new.event)
        /\ new.event.call = c
    BY <1>4, <2>1, CommittedRow
  <2>3. new.entry_hash[3].call = c
    BY <2>2 DEF EntryHash
  <2>4. Settled(new.entry_hash)'
    BY <2>2, <2>3 DEF Settled
  <2>5. Settled(new.prev_hash)'
    BY <1>1, <2>2 DEF HashesSettled
  <2>6. \A r \in rows : Settled(r.prev_hash)' /\ Settled(r.entry_hash)'
    BY <1>1 DEF HashesSettled
  <2>7. \A d \in Calls : Settled(cursor[d].entry_hash)'
    <3> SUFFICES ASSUME NEW d \in Calls PROVE Settled(cursor[d].entry_hash)'
      OBVIOUS
    <3>1. PICK h : h = cursor[d].entry_hash
      OBVIOUS
    <3>2. Settled(h)'
      BY <1>1, <3>1 DEF HashesSettled
    <3>3. cursor'[d].entry_hash = h
      BY <2>2, <3>1
    <3> QED
      BY <3>2, <3>3
  <2> QED
    BY <2>2, <2>4, <2>5, <2>6, <2>7 DEF HashesSettled
<1>5. CASE CommitConflict(c) \/ RefreshEntry(c)
  <2>1. rows' = rows /\ cursor' = cursor
    BY <1>5 DEF CommitConflict, RefreshEntry
  <2> QED
    BY <1>1, <2>1 DEF HashesSettled
<1> QED
  BY <1>3, <1>4, <1>5 DEF PersistEntry

\* A committed row digests what it holds.
LEMMA PersistEntryTraceable ==
  ASSUME TableOK, RowsTraceable, NEW c \in Calls, PersistEntry(c)
  PROVE  RowsTraceable'
<1>1. CASE rows' = rows
  BY <1>1 DEF RowsTraceable
<1>2. CASE rows' # rows
  <2>1. PICK new : new = NextRow(c)
    OBVIOUS
  <2>2. /\ rows' = rows \cup {new}
        /\ new.entry_hash = EntryHash(new.chain_index, new.prev_hash, new.event)
    BY <1>2, <2>1, PersistEntryTable, CommittedRow
  <2>3. \E p, e : /\ new.entry_hash = EntryHash(new.chain_index, p, e)
                  /\ new.prev_hash \in {p, Garbage}
                  /\ new.event \in {e, Garbage}
    BY <2>2
  <2> QED
    BY <2>2, <2>3 DEF RowsTraceable
<1> QED
  BY <1>1, <1>2

\* A damaged table is damaged still after a commit.  The commit of a stale
\* cursor may fill the gap a lost row left, but not with what was there: the
\* row behind it carries the hash of a row committed earlier.
LEMMA PersistEntryDefect ==
  ASSUME TableOK, HashesSettled, NoDigest(NoHash), NoDigest(Garbage), Defect,
         NEW c \in Calls, PersistEntry(c)
  PROVE  Defect'
<1>1. CASE rows' = rows
  BY <1>1 DEF Defect, WellFormed, IndexTaken
<1>2. CASE rows' # rows
  <2>1. PICK new : new = NextRow(c)
    OBVIOUS
  <2>2. /\ CommitEntry(c)
        /\ rows' = rows \cup {new}
        /\ new.chain_index \in Nat \ {0}
        /\ \A s \in rows : s.chain_index # new.chain_index
    BY <1>2, <2>1, PersistEntryTable
  <2>3. /\ pc[c] = "commit"
        /\ new.entry_hash = EntryHash(new.chain_index, new.prev_hash, new.event)
        /\ new.event.call = c
    BY <2>1, <2>2, CommittedRow
  <2>4. CASE \E r \in rows : ~WellFormed(r)
    BY <2>2, <2>4 DEF Defect, WellFormed
  <2>5. CASE \E r, s \in rows : r.chain_index = s.chain_index + 1 /\ r.prev_hash # s.entry_hash
    BY <2>2, <2>5 DEF Defect
  <2>6. CASE \E r \in rows : \E i \in 1..r.chain_index : ~IndexTaken(i)
    <3>0. PICK r \in rows : \E i \in 1..r.chain_index : ~IndexTaken(i)
      BY <2>6
    <3>1. PICK i \in 1..r.chain_index : ~IndexTaken(i)
      BY <3>0
    <3>2. r \in rows' /\ r.chain_index \in Nat /\ i \in Nat /\ i # r.chain_index
      BY <2>2, <3>1 DEF TableOK, IndexTaken
    <3>3. CASE i # new.chain_index
      <4>1. ~IndexTaken(i)'
        BY <2>2, <3>1, <3>3 DEF IndexTaken
      <4> QED
        BY <3>1, <3>2, <4>1 DEF Defect
    <3>4. CASE i = new.chain_index /\ ~IndexTaken(i + 1)
      <4>1. ~IndexTaken(i + 1)'
        BY <2>2, <3>2, <3>4 DEF IndexTaken
      <4>2. i + 1 \in 1..r.chain_index
        BY <3>1, <3>2
      <4> QED
        BY <3>2, <4>1, <4>2 DEF Defect
    <3>5. CASE i = new.chain_index /\ IndexTaken(i + 1)
      <4>1. PICK s \in rows : s.chain_index = i + 1
        BY <3>5 DEF IndexTaken
      <4>2. Settled(s.prev_hash)
        BY DEF HashesSettled
      <4>3. new.entry_hash \notin {NoHash, Garbage}
        BY <2>3 DEF NoDigest
      <4>4. new.entry_hash[3].call = c
        BY <2>3 DEF EntryHash
      <4>5. ~Settled(new.entry_hash)
        BY <2>3, <4>3, <4>4 DEF Settled
      <4>6. s.prev_hash # new.entry_hash
        BY <4>2, <4>5
      <4>7. s \in rows' /\ new \in rows' /\ s.chain_index = new.chain_index + 1
        BY <2>2, <3>5, <4>1
      <4> QED
        BY <4>6, <4>7 DEF Defect
    <3> QED
      BY <3>3, <3>4, <3>5
  <2> QED
    BY <2>4, <2>5, <2>6 DEF Defect
<1> QED
  BY <1>1, <1>2

\* An altered row does not hash to its entry_hash any more, though it was
\* damaged before.
LEMMA AlteredMalformed ==
  ASSUME TableOK, RowsTraceable, NoDigest(Garbage),
         NEW r \in rows, NEW new, Altered(r, new)
  PROVE  /\ ~WellFormed(new)
         /\ \/ new.entry_hash = Garbage
            \/ \E p, e : /\ new.entry_hash = EntryHash(new.chain_index, p, e)
                         /\ new.prev_hash \in {p, Garbage}
                         /\ new.event \in {e, Garbage}
<1>1. CASE new.entry_hash = Garbage
  BY <1>1 DEF WellFormed, NoDigest
<1>2. CASE new.entry_hash # Garbage
  <2>1. new.entry_hash = r.entry_hash /\ new.chain_index = r.chain_index
    BY <1>2 DEF Altered
  <2>2. PICK p, e : /\ r.entry_hash = EntryHash(r.chain_index, p, e)
                    /\ r.prev_hash \in {p, Garbage}
                    /\ r.event \in {e, Garbage}
    BY <1>2, <2>1 DEF RowsTraceable
  <2>3. CASE r.prev_hash # Garbage /\ new.prev_hash = Garbage /\ new.event = r.event
    <3>1. new.prev_hash # p
      BY <2>2, <2>3
    <3>2. ~WellFormed(new)
      BY <2>1, <2>2, <3>1 DEF WellFormed, EntryHash
    <3> QED
      BY <2>1, <2>2, <2>3, <3>2
  <2>4. CASE r.event # Garbage /\ new.event = Garbage /\ new.prev_hash = r.prev_hash
    <3>1. new.event # e
      BY <2>2, <2>4
    <3>2. ~WellFormed(new)
      BY <2>1, <2>2, <3>1 DEF WellFormed, EntryHash
    <3> QED
      BY <2>1, <2>2, <2>4, <3>2
  <2> QED
    BY <1>2, <2>3, <2>4 DEF Altered
<1> QED
  BY <1>1, <1>2

\* Every damage leaves a defect, and rows that digested what they held.
LEMMA DamageDefect ==
  ASSUME TableOK, HashesSettled, RowsTraceable, NoDigest(Garbage), Damage
  PROVE  Defect' /\ RowsTraceable' /\ HashesSettled'
<1>1. pc' = pc /\ cursor' = cursor
  BY DamageEffect
<1>2. PICK r \in rows : AlterRow(r) \/ LoseRow(r)
  BY DamageEffect
<1>3. \A h : Settled(h) => Settled(h)'
  BY <1>1 DEF Settled
<1>4. \A c \in Calls : Settled(cursor'[c].entry_hash)
  BY <1>1 DEF HashesSettled
<1>5. CASE AlterRow(r)
  <2>1. PICK new : Altered(r, new)
    BY <1>5, AlteredRow
  <2>2. rows' = (rows \ {r}) \cup {new}
    BY <2>1 DEF Altered
  <2>3. Defect'
    BY <2>1, <2>2, AlteredMalformed DEF Defect, WellFormed
  <2>4. RowsTraceable'
    <3>1. \/ new.entry_hash = Garbage
          \/ \E p, e : /\ new.entry_hash = EntryHash(new.chain_index, p, e)
                       /\ new.prev_hash \in {p, Garbage}
                       /\ new.event \in {e, Garbage}
      BY <2>1, AlteredMalformed
    <3> QED
      BY <2>2, <3>1 DEF RowsTraceable
  <2>5. Settled(new.prev_hash) /\ Settled(new.entry_hash)
    <3>1. new.prev_hash \in {r.prev_hash, Garbage} /\ new.entry_hash \in {r.entry_hash, Garbage}
      BY <2>1 DEF Altered
    <3>2. Settled(Garbage) /\ Settled(r.prev_hash) /\ Settled(r.entry_hash)
      BY DEF Settled, HashesSettled
    <3> QED
      BY <3>1, <3>2
  <2>6. HashesSettled'
    BY <1>3, <1>4, <2>2, <2>5 DEF HashesSettled
  <2> QED
    BY <2>3, <2>4, <2>6
<1>6. CASE LoseRow(r)
  <2>1. rows' = rows \ {r}
    BY <1>6 DEF LoseRow
  <2>2. PICK s \in rows : ~ s.chain_index <= r.chain_index
    BY <1>6 DEF LoseRow, Newest
  <2>3. s \in rows' /\ r.chain_index \in 1..s.chain_index
    BY <2>1, <2>2 DEF TableOK
  <2>4. ~IndexTaken(r.chain_index)'
    BY <2>1 DEF IndexTaken, TableOK
  <2>5. Defect'
    BY <2>3, <2>4 DEF Defect
  <2>6. RowsTraceable' /\ HashesSettled'
    BY <1>3, <1>4, <2>1 DEF RowsTraceable, HashesSettled
  <2> QED
    BY <2>5, <2>6
<1> QED
  BY <1>2, <1>5, <1>6

\* The initial state has no hash and no damage.
LEMMA InitDamageInv == ValidationInit => DamageInv
<1> SUFFICES ASSUME ValidationInit PROVE DamageInv
  OBVIOUS
<1>1. HashesSettled
  BY DEF ValidationInit, Init, HashesSettled, Settled, EmptyCursor
<1> QED
  BY <1>1 DEF ValidationInit, Init, DamageInv, RowsTraceable, DamageIsFound

\* Every step keeps what makes damage visible.
LEMMA NextDamageInv ==
  ASSUME NoDigest(NoHash), NoDigest(Garbage),
         ScanInv, DamageInv, [ValidationNext]_allVars
  PROVE  DamageInv'
<1> USE DEF DamageInv
<1>1. ASSUME NEW c \in Calls, PersistEntry(c), UNCHANGED valVars PROVE DamageInv'
  <2>1. UNCHANGED <<phase, damages, baseline>>
    BY <1>1 DEF valVars
  <2>2. HashesSettled' /\ RowsTraceable'
    BY <1>1, PersistEntryHashes, PersistEntryTraceable DEF ScanInv
  <2>3. damages' > 0 => Defect'
    BY <1>1, <2>1, PersistEntryDefect DEF ScanInv
  <2> QED
    BY <2>1, <2>2, <2>3 DEF DamageIsFound
<1>2. CASE UNCHANGED vars /\ damages' = damages /\ DamageIsFound'
  BY <1>2, TableUnchanged
<1>3. CASE Start
  <2>1. DamageIsFound'
    BY <1>3 DEF Start, DamageIsFound
  <2> QED
    BY <1>2, <1>3, <2>1 DEF Start
<1>4. CASE ScanPage
  <2>1. phase = "scan" /\ UNCHANGED <<vars, damages, baseline>>
    BY <1>4, ScanPageCases
  <2>2. ASSUME baseline.damages > 0, damages = baseline.damages
        PROVE  phase' # "valid"
    <3>1. Defect /\ Scanned /\ TableOK /\ ScanTypeOK
      BY <2>1, <2>2 DEF ScanInv
    <3>2. ListEntries(offset, PageSize) # <<>>
      BY <3>1, EmptyPageNoDefect
    <3> QED
      BY <1>4, <2>1, <3>2, ScanPageCases
  <2>3. DamageIsFound'
    BY <2>1, <2>2 DEF DamageIsFound
  <2> QED
    BY <1>2, <2>1, <2>3
<1>5. CASE Damage
  <2>1. HashesSettled' /\ RowsTraceable' /\ Defect'
    BY <1>5, DamageDefect DEF ScanInv
  <2>2. damages' # baseline'.damages
    BY <1>5, DamageEffect DEF ScanInv, ScanTypeOK
  <2> QED
    BY <2>1, <2>2 DEF DamageIsFound
<1>6. CASE UNCHANGED allVars
  <2>1. UNCHANGED vars /\ UNCHANGED <<phase, damages, baseline>>
    BY <1>6 DEF allVars, valVars
  <2>2. DamageIsFound'
    BY <2>1 DEF DamageIsFound
  <2> QED
    BY <1>2, <2>1, <2>2
<1> QED
  BY <1>1, <1>3, <1>4, <1>5, <1>6 DEF ValidationNext

\* Provided that NULL and what a damage writes are not digests of anything, a
\* table damaged before validate_chain starts, and then left alone, never
\* passes: not by any appends during the scan, not by any page length, and
\* however often it was damaged.
THEOREM DamageNeverPasses ==
  ASSUME NoDigest(NoHash), NoDigest(Garbage)
  PROVE  ValidationSpec => []DamageIsFound
<1>1. ScanInv /\ DamageInv /\ [ValidationNext]_allVars => DamageInv'
  BY NextDamageInv
<1>2. DamageInv => DamageIsFound
  BY DEF DamageInv
<1> QED
  BY <1>1, <1>2, InitDamageInv, ScanInvariance, PTL DEF ValidationSpec
=============================================================================
