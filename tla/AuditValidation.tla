--------------------------- MODULE AuditValidation ---------------------------
(***************************************************************************)
(* AuditService.validate_chain, reading the table page by page while calls *)
(* keep appending to it, and while stored rows may be damaged out of band. *)
(* Pages are read by LIMIT/OFFSET at READ COMMITTED: each page sees the    *)
(* table of its own moment.  The checks of a page run without an await.    *)
(***************************************************************************)
EXTENDS AuditChain, Sequences

CONSTANTS PageSize,     \* limit (1000 in the code)
          MaxDamages,   \* bound: how many rows are damaged in a run
          Garbage       \* what a damaged column holds

ASSUME PageSizeAssumption == PageSize \in Nat \ {0}
ASSUME MaxDamagesAssumption == MaxDamages \in Nat

VARIABLES phase,      \* the validation: not started, scanning, or its verdict
          offset,     \* rows consumed so far
          expected,   \* expected_chain_index and expected_prev_hash
          damages,    \* history: damages done so far
          baseline    \* history: size and damages of the table at the start

valVars == <<phase, offset, expected, damages, baseline>>
allVars == <<vars, valVars>>

Verdicts == {"valid", "invalid"}

-----------------------------------------------------------------------------
(* The checks.                                                             *)

\* The place of a row in ORDER BY chain_index.
Position(r) == Cardinality({s \in rows : s.chain_index <= r.chain_index})

\* How many rows LIMIT and OFFSET leave.
PageLength(from, limit) ==
  LET size == Cardinality(rows)
  IN  IF size <= from THEN 0 ELSE IF size <= from + limit THEN size - from ELSE limit

\* list_entries: the rows at offset..offset+limit-1 in chain order.
ListEntries(from, limit) ==
  [k \in 1..PageLength(from, limit) |-> CHOOSE r \in rows : Position(r) = from + k]

\* Mistake: the hash is taken from the row and not computed again.
ContinuesUnhashed(page, k) ==
  LET prev == IF k = 1 THEN expected.prev_hash ELSE page[k - 1].entry_hash
  IN  /\ page[k].chain_index = expected.chain_index + k - 1
      /\ page[k].prev_hash = prev

\* The row at position k of a page continues the chain.
Continues(page, k) ==
  LET prev == IF k = 1 THEN expected.prev_hash ELSE page[k - 1].entry_hash
  IN  /\ page[k].chain_index = expected.chain_index + k - 1
      /\ page[k].prev_hash = prev
      /\ page[k].entry_hash = EntryHash(page[k].chain_index, page[k].prev_hash, page[k].event)

\* Mistake: a page that is not full ends the scan before it is checked.
EndsTooEarly(page) == Len(page) < PageSize

EndOfTable(page) == page = <<>>

\* Mistake: the offset is advanced by the limit.
OffsetByLimit(page) == offset + PageSize

NextOffset(page) == offset + Len(page)

\* Mistake: the scan starts over to rule out a false alarm.
StartOver ==
  /\ offset' = 0
  /\ expected' = [chain_index |-> 1, prev_hash |-> NoHash]
  /\ UNCHANGED phase

Mismatch ==
  /\ phase' = "invalid"
  /\ UNCHANGED <<offset, expected>>

Start ==
  /\ phase = "idle"
  /\ phase' = "scan"
  /\ offset' = 0
  /\ expected' = [chain_index |-> 1, prev_hash |-> NoHash]
  /\ baseline' = [size |-> Cardinality(rows), damages |-> damages]
  /\ UNCHANGED <<vars, damages>>

\* One round of the loop: an empty page ends it, a row that does not continue
\* the chain ends it, and otherwise the scan moves behind the page.
ScanPage ==
  /\ phase = "scan"
  /\ LET page == ListEntries(offset, PageSize)
     IN  IF EndOfTable(page)
         THEN /\ phase' = "valid"
              /\ UNCHANGED <<offset, expected>>
         ELSE IF \A k \in 1..Len(page) : Continues(page, k)
         THEN /\ offset' = NextOffset(page)
              /\ expected' = [chain_index |-> expected.chain_index + Len(page),
                              prev_hash |-> page[Len(page)].entry_hash]
              /\ UNCHANGED phase
         ELSE Mismatch
  /\ UNCHANGED <<vars, damages, baseline>>

-----------------------------------------------------------------------------
(* Damage, from outside the program: the program itself never does this.   *)

\* A stored column is altered.
AlterRow(r) ==
  /\ \E field \in {"prev_hash", "event", "entry_hash"} :
       rows' = (rows \ {r}) \cup {[r EXCEPT ![field] = Garbage]}
  /\ rows' # rows

\* A row that has a successor is lost.
LoseRow(r) ==
  /\ ~Newest(r)
  /\ rows' = rows \ {r}

Damage ==
  /\ damages < MaxDamages
  /\ \E r \in rows : AlterRow(r) \/ LoseRow(r)
  /\ damages' = damages + 1
  /\ UNCHANGED <<pc, conflicts, cursor, phase, offset, expected, baseline>>

ValidationInit ==
  /\ Init
  /\ phase = "idle"
  /\ offset = 0
  /\ expected = [chain_index |-> 1, prev_hash |-> NoHash]
  /\ damages = 0
  /\ baseline = [size |-> 0, damages |-> 0]

\* A call that fails leaves the table like one that is still to come, or like
\* one that returned; here none does.
ValidationNext ==
  \/ \E c \in Calls : PersistEntry(c) /\ UNCHANGED valVars
  \/ Start
  \/ ScanPage
  \/ Damage

ValidationSpec ==
  /\ ValidationInit
  /\ [][ValidationNext]_allVars
  /\ WF_allVars(ScanPage)

-----------------------------------------------------------------------------
(* Properties.                                                             *)

\* Appends that land between two pages are never mistaken for damage.
NoFalseAlarm == damages = 0 => phase # "invalid"

\* A chain already altered, or with a row lost from its middle, when the
\* validation starts, and left alone while it runs, is never called valid,
\* whatever is appended meanwhile.  (The loss of the newest rows leaves a
\* shorter chain that is valid; and a row lost behind the scan moves a later
\* damage out of its sight.)
DamageIsFound ==
  baseline.damages > 0 /\ damages = baseline.damages => phase # "valid"

\* A valid verdict on an undamaged table covers every row that was there when
\* the validation began: no page boundary lets a row slip by.  (A row lost
\* behind the scan while it runs does shift the next page by one.)
ValidCoversBaseline ==
  phase = "valid" /\ damages = 0 => expected.chain_index - 1 >= baseline.size

\* A validation that has begun ends with a verdict although appends go on:
\* it ends once the calls that append do.
ValidationEnds == phase = "scan" ~> phase \in Verdicts
=============================================================================
