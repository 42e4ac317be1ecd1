------------------------------ MODULE AuditLog ------------------------------
(***************************************************************************)
(* What AuditService._persist_entry promises its callers, with no chain,   *)
(* no hashes, no retries and no database: a log that only grows, in which  *)
(* a call is recorded at most once, and a call that ends as its caller was *)
(* told it would end.  AuditChain is shown to implement this module.       *)
(***************************************************************************)
EXTENDS Naturals, Sequences

CONSTANTS Calls,            \* the calls of _persist_entry
          FailSecureCalls   \* those made with fail_secure=True

VARIABLES log,       \* the calls recorded, oldest first
          outcome    \* how each call ended

vars == <<log, outcome>>

Recorded == { log[i] : i \in 1..Len(log) }

\* What the caller of c observes when the entry could not be stored.
Refusal(c) == IF c \in FailSecureCalls THEN "raised" ELSE "suppressed"

Init ==
  /\ log = <<>>
  /\ outcome = [c \in Calls |-> "pending"]

\* The entry of c becomes durable, after everything recorded before it.
Record(c) ==
  /\ outcome[c] = "pending"
  /\ c \notin Recorded
  /\ log' = Append(log, c)
  /\ UNCHANGED outcome

\* The call returns normally: only when its entry is durable.
Return(c) ==
  /\ outcome[c] = "pending"
  /\ c \in Recorded
  /\ outcome' = [outcome EXCEPT ![c] = "returned"]
  /\ UNCHANGED log

\* The call could not confirm its entry.  The entry may be durable all the
\* same: the database can fail after the commit.
Refuse(c) ==
  /\ outcome[c] = "pending"
  /\ outcome' = [outcome EXCEPT ![c] = Refusal(c)]
  /\ UNCHANGED log

\* The process stops while the call is running.
Crash(c) ==
  /\ outcome[c] = "pending"
  /\ outcome' = [outcome EXCEPT ![c] = "crashed"]
  /\ UNCHANGED log

Next == \E c \in Calls : Record(c) \/ Return(c) \/ Refuse(c) \/ Crash(c)

\* Every call ends.
Fairness == \A c \in Calls : WF_vars(Return(c) \/ Refuse(c) \/ Crash(c))

Spec == Init /\ [][Next]_vars /\ Fairness
=============================================================================
