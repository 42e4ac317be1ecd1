----------------------------- MODULE AuditChain -----------------------------
(***************************************************************************)
(* The append path of the audit log: AuditService._persist_entry over      *)
(* AuditRepository, run by any number of concurrent calls on one table.    *)
(*                                                                         *)
(* A call reads the newest row (its cursor), builds the next row from it,  *)
(* and commits.  The UNIQUE constraint on chain_index makes the database   *)
(* refuse a row built from a stale cursor; the call then starts over, at   *)
(* most MaxAttempts times.  Each step of a call is a separate action, so   *)
(* every interleaving of their awaits is explored.  The repository is      *)
(* wired, as api/dependencies.py always does.                              *)
(***************************************************************************)
EXTENDS Naturals, FiniteSets

CONSTANTS Calls,             \* concurrent calls of _persist_entry
          FailSecureCalls,   \* those made with fail_secure=True
          MaxAttempts,       \* max_attempts (10 in the code)
          NoHash             \* prev_hash of the first row: NULL

ASSUME CallsFinite == IsFiniteSet(Calls)
ASSUME FailSecureAssumption == FailSecureCalls \subseteq Calls
ASSUME MaxAttemptsAssumption == MaxAttempts \in Nat \ {0}

VARIABLES rows,       \* the table audit_log_entries
          pc,         \* where each call is
          conflicts,  \* how many IntegrityErrors each call has caught
          cursor      \* the newest row as each call last read it

vars == <<rows, pc, conflicts, cursor>>

Running == {"read", "commit", "refresh"}
Ended   == {"returned", "raised", "suppressed", "crashed"}

-----------------------------------------------------------------------------
(* Rows.                                                                   *)

\* What a row records besides its place in the chain.  uuid4 and the clock
\* are read anew in every attempt, so the attempt is part of the content.
EventOf(c) == [call |-> c, attempt |-> conflicts[c]]

\* sha512 of the canonical JSON of every column but entry_hash, taken as
\* injective: the hash is the content it digests.
EntryHash(chain_index, prev_hash, event) == <<chain_index, prev_hash, event>>

Row(chain_index, prev_hash, event) ==
  [chain_index |-> chain_index,
   prev_hash   |-> prev_hash,
   event       |-> event,
   entry_hash  |-> EntryHash(chain_index, prev_hash, event)]

EmptyCursor == [chain_index |-> 0, entry_hash |-> NoHash]
CursorOf(r) == [chain_index |-> r.chain_index, entry_hash |-> r.entry_hash]

Newest(r) == \A s \in rows : s.chain_index <= r.chain_index

\* The answers get_latest_chain_cursor can give.
LatestChainCursors ==
  IF rows = {} THEN {EmptyCursor} ELSE { CursorOf(r) : r \in {s \in rows : Newest(s)} }

\* Mistake: the index is not advanced.
NextRowUnnumbered(c) == Row(cursor[c].chain_index, cursor[c].entry_hash, EventOf(c))

NextRow(c) == Row(cursor[c].chain_index + 1, cursor[c].entry_hash, EventOf(c))

\* Mistake: the migration leaves the constraint out.
IndexNeverTaken(i) == FALSE

\* The UNIQUE constraint on chain_index.
IndexTaken(i) == \E r \in rows : r.chain_index = i

-----------------------------------------------------------------------------
(* Steps of a call.                                                        *)

\* Mistake: fail_secure is not looked at.
RefusalSuppressed(c) == "suppressed"

\* AuditWriteError when fail_secure, else logged and swallowed.
Refusal(c) == IF c \in FailSecureCalls THEN "raised" ELSE "suppressed"

Init ==
  /\ rows = {}
  /\ pc = [c \in Calls |-> "read"]
  /\ conflicts = [c \in Calls |-> 0]
  /\ cursor = [c \in Calls |-> EmptyCursor]

GetLatestChainCursor(c) ==
  /\ pc[c] = "read"
  /\ \E latest \in LatestChainCursors : cursor' = [cursor EXCEPT ![c] = latest]
  /\ pc' = [pc EXCEPT ![c] = "commit"]
  /\ UNCHANGED <<rows, conflicts>>

\* Mistake: ON CONFLICT DO UPDATE.
CommitUpsert(c) ==
  /\ pc[c] = "commit"
  /\ rows' = {r \in rows : r.chain_index # cursor[c].chain_index + 1} \cup {NextRow(c)}
  /\ pc' = [pc EXCEPT ![c] = "refresh"]
  /\ UNCHANGED <<conflicts, cursor>>

CommitEntry(c) ==
  /\ pc[c] = "commit"
  /\ ~IndexTaken(cursor[c].chain_index + 1)
  /\ rows' = rows \cup {NextRow(c)}
  /\ pc' = [pc EXCEPT ![c] = "refresh"]
  /\ UNCHANGED <<conflicts, cursor>>

\* Mistake: the cursor is read once, before the loop.
AfterConflictSameCursor(c) == IF conflicts[c] + 1 < MaxAttempts THEN "commit" ELSE Refusal(c)

\* IntegrityError: rolled back, then another attempt if one is left.
AfterConflict(c) == IF conflicts[c] + 1 < MaxAttempts THEN "read" ELSE Refusal(c)

\* Mistake: ON CONFLICT DO NOTHING.
CommitConflictIgnored(c) ==
  /\ pc[c] = "commit"
  /\ IndexTaken(cursor[c].chain_index + 1)
  /\ pc' = [pc EXCEPT ![c] = "returned"]
  /\ UNCHANGED <<rows, conflicts, cursor>>

\* Mistake: the same entry is tried again, and the attempt is not counted.
CommitConflictRepeated(c) ==
  /\ pc[c] = "commit"
  /\ IndexTaken(cursor[c].chain_index + 1)
  /\ UNCHANGED vars

CommitConflict(c) ==
  /\ pc[c] = "commit"
  /\ IndexTaken(cursor[c].chain_index + 1)
  /\ conflicts' = [conflicts EXCEPT ![c] = @ + 1]
  /\ pc' = [pc EXCEPT ![c] = AfterConflict(c)]
  /\ UNCHANGED <<rows, cursor>>

RefreshEntry(c) ==
  /\ pc[c] = "refresh"
  /\ pc' = [pc EXCEPT ![c] = "returned"]
  /\ UNCHANGED <<rows, conflicts, cursor>>

\* Mistake: every database error is retried.
DatabaseErrorRetried(c) ==
  /\ pc[c] \in Running
  /\ conflicts' = [conflicts EXCEPT ![c] = @ + 1]
  /\ pc' = [pc EXCEPT ![c] = AfterConflict(c)]
  /\ UNCHANGED <<rows, cursor>>

\* Any other database error, at the read, at the commit (rolled back) or at
\* the refresh that follows the commit, when the row is already durable.
DatabaseError(c) ==
  /\ pc[c] \in Running
  /\ pc' = [pc EXCEPT ![c] = Refusal(c)]
  /\ UNCHANGED <<rows, conflicts, cursor>>

\* The process stops or the task is cancelled between two steps.
Crash(c) ==
  /\ pc[c] \in Running
  /\ pc' = [pc EXCEPT ![c] = "crashed"]
  /\ UNCHANGED <<rows, conflicts, cursor>>

PersistEntry(c) ==
  \/ GetLatestChainCursor(c)
  \/ CommitEntry(c)
  \/ CommitConflict(c)
  \/ RefreshEntry(c)

Next == \E c \in Calls : PersistEntry(c) \/ DatabaseError(c) \/ Crash(c)

\* The event loop keeps running a call that can take its next step.
Fairness == \A c \in Calls : WF_vars(PersistEntry(c))

Spec == Init /\ [][Next]_vars /\ Fairness

-----------------------------------------------------------------------------
(* Types.                                                                  *)

Cursors == [chain_index : Nat, entry_hash : {NoHash} \cup {r.entry_hash : r \in rows}]

\* The state has its type.  Hashes have no type of their own: a cursor holds
\* NoHash or the hash of a row of the table.
TypeOK ==
  /\ \A r \in rows :
       /\ r = Row(r.chain_index, r.prev_hash, r.event)
       /\ r.chain_index \in Nat \ {0}
       /\ r.event \in [call : Calls, attempt : 0..MaxAttempts]
  /\ pc \in [Calls -> Running \cup Ended]
  /\ conflicts \in [Calls -> 0..MaxAttempts]
  /\ cursor \in [Calls -> Cursors]

-----------------------------------------------------------------------------
(* Safety.                                                                 *)

\* No two rows share a place, and every row but the first carries the hash of
\* the row just before it: concurrent appends from stale cursors never fork
\* the chain or leave a gap in it (_persist_entry and the UNIQUE constraint).
ChainContinuity ==
  \A r \in rows :
    /\ \A s \in rows : s.chain_index = r.chain_index => s = r
    /\ IF r.chain_index = 1
       THEN r.prev_hash = NoHash
       ELSE \E s \in rows : /\ s.chain_index = r.chain_index - 1
                            /\ r.prev_hash = s.entry_hash

\* However often a call retries, it leaves at most one row.
RecordedAtMostOnce ==
  \A r, s \in rows : r.event.call = s.event.call => r = s

\* A call that returned to its caller without logging a failure has its row:
\* a fail-secure operation that goes on has been recorded.
ReturnedIsRecorded ==
  \A c \in Calls : pc[c] = "returned" => \E r \in rows : r.event.call = c

\* Contention is never for nothing: each conflict a call has met stands for an
\* entry of another call.  So a call gives up only after as many rivals as it
\* has attempts were recorded, and no call is starved by a stale cursor.
ConflictsMeanProgress ==
  \A c \in Calls : conflicts[c] <= Cardinality({r \in rows : r.event.call # c})

\* Rows are never changed or removed, and a new row is the newest: no call
\* inserts behind a row that was committed while its cursor was stale.
AppendOnly ==
  [][/\ rows \subseteq rows'
     /\ \A r \in rows' \ rows : \A s \in rows : s.chain_index < r.chain_index]_vars

-----------------------------------------------------------------------------
(* Liveness and refinement.                                                *)

\* The retries of a call come to an end whatever the others do.
EveryCallEnds == \A c \in Calls : <>(pc[c] \in Ended)

\* The log is the table read in chain order.
ChainOrder ==
  [i \in 1..Cardinality(rows) |-> (CHOOSE r \in rows : r.chain_index = i).event.call]

Outcome == [c \in Calls |-> IF pc[c] \in Running THEN "pending" ELSE pc[c]]

Abstract == INSTANCE AuditLog WITH log <- ChainOrder, outcome <- Outcome

\* The append path implements the log its callers rely on.
ImplementsAuditLog == Abstract!Spec
=============================================================================
