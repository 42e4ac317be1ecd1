---------------------------- MODULE Access_proofs ----------------------------
(***************************************************************************)
(* Proofs about Access for any keys, roles, requests, tokens and times to  *)
(* live.  A request goes by a row that it read some steps ago: the         *)
(* invariant says what of it has to be true still.                         *)
(***************************************************************************)
EXTENDS Access, TLAPS

\* What is known of a request, wherever it is.
RequestOK(q) ==
  /\ pc[q] = "lookup" =>
       /\ key[q] \in Stored \cup {NoKey}
       /\ doomed[q] => NoGood(key[q])
  /\ pc[q] \notin {"idle", "lookup"} => key[q] \in Stored /\ ~doomed[q]
  /\ pc[q] \in Jobs => Authorized(RoleOf(q), PermissionOf(pc[q]))
  /\ pc[q] \in {"stamp", "welcome"} => row[q] \in Rows /\ row[q].role = RoleOf(q)
  /\ pc[q] \in {"audit_create", "write", "audit_revoke"} => target[q] \in Stored
  /\ pc[q] = "write" => row[q] \in Rows /\ (row[q].is_active \/ ~Active(target[q]))
  /\ pc[q] = "audit_revoke" => ~Active(target[q])

\* The part of the inductive invariant that is about keys.
KeysInv ==
  /\ now \in 0..MaxTime
  /\ KeysTypeOK
  /\ shown \subseteq Stored /\ told \subseteq Stored
  /\ \A q \in Requests : RequestOK(q)
  /\ AnswersAreTrue

\* The part that is about tokens: a record says what was issued, and a token
\* without one is good no longer.
TokensInv ==
  /\ TokensTypeOK
  /\ \A t \in held :
       /\ issued[t].actor \in Keys
       /\ issued[t].at >= 0
       /\ records[t].actor = issued[t].actor
       /\ records[t].expires_at = issued[t].at + (IF issued[t].ttl > 0 THEN issued[t].ttl ELSE 1)
  /\ \A t \in Tokens \ held : ~Good(t)

Inv == KeysInv /\ TokensInv

USE KeysAssumption, MaxTimeAssumption

\* A step of the table loses no row and no use, changes no column but those two,
\* and revives no key.
TableKept ==
  \A k \in Stored :
    /\ k \in Stored'
    /\ api_keys'[k].role = api_keys[k].role
    /\ api_keys'[k].expires_at = api_keys[k].expires_at
    /\ api_keys'[k].addresses = api_keys[k].addresses
    /\ ~Active(k) => ~Active(k)'
    /\ api_keys[k].used => api_keys'[k].used

LEMMA UnchangedKeeps == UNCHANGED api_keys => TableKept
BY DEF TableKept, Active, Stored

LEMMA StoredKeys == Stored \subseteq Keys /\ NoKey \notin Stored
BY DEF Stored

\* A row is stored with its type.
LEMMA StoredRows ==
  ASSUME KeysTypeOK, NEW k \in Stored
  PROVE  k \in Keys /\ api_keys[k] \in Rows
BY DEF KeysTypeOK, Stored

\* No row is taken for none.
LEMMA RowsAreNotNoRow == ASSUME NEW r \in Rows PROVE r # NoRow
<1>1. r.role \in Roles
  BY DEF Rows
<1>2. NoRow.role \notin Roles
  BY RolesAssumption DEF NoRow
<1> QED
  BY <1>1, <1>2

\* The checks of authenticate let no key through that is no good.
LEMMA AcceptedIsGood ==
  ASSUME KeysTypeOK, now \in 0..MaxTime, NEW k, Accepts(k)
  PROVE  k \in Stored /\ ~NoGood(k)
<1>1. k \in Stored
  BY DEF Accepts
<1>2. api_keys[k].expires_at \in Nat \cup {-1}
  BY <1>1, StoredRows, ExpiriesAssumption DEF Rows, Never
<1> QED
  BY <1>1, <1>2 DEF Accepts, NoGood, HasExpired, Never

\* What is no good stays so.
LEMMA NoGoodStays ==
  ASSUME KeysTypeOK, TableKept, now \in 0..MaxTime, now' \in 0..MaxTime, now <= now',
         NEW k \in Stored, NoGood(k)
  PROVE  NoGood(k)'
BY DEF TableKept, NoGood, Active

-----------------------------------------------------------------------------
(* The keys.                                                               *)

\* Request p is where it was.
Stays(p) ==
  /\ pc'[p] = pc[p] /\ key'[p] = key[p] /\ target'[p] = target[p]
  /\ row'[p] = row[p] /\ doomed'[p] = doomed[p]

OnlyMoves(q) == \A p \in Requests \ {q} : Stays(p)

\* What is known of a request that does not move survives any step of others.
LEMMA RequestStays ==
  ASSUME KeysInv, TableKept, now' \in 0..MaxTime, now <= now', NEW p \in Requests,
         Stays(p)
  PROVE  RequestOK(p)'
<1> USE DEF KeysInv, Stays
<1>1. RequestOK(p) /\ key[p] \in Keys \cup {NoKey} /\ NoKey \notin Stored /\ NoKey \notin Stored'
  BY DEF KeysTypeOK, Stored
<1>2. pc[p] = "lookup" => (key[p] \in Stored \cup {NoKey})' /\ (doomed[p] => NoGood(key[p]))'
  <2>1. CASE key[p] \in Stored
    BY <1>1, <2>1, NoGoodStays DEF RequestOK, TableKept
  <2>2. CASE key[p] = NoKey
    BY <1>1, <2>2 DEF NoGood
  <2> QED
    BY <1>1, <2>1, <2>2 DEF RequestOK
<1>3. pc[p] \notin {"idle", "lookup"} => (key[p] \in Stored /\ ~doomed[p])'
  BY <1>1 DEF RequestOK, TableKept
<1>4. pc[p] \in Jobs => Authorized(RoleOf(p), PermissionOf(pc[p]))'
  <2>1. pc[p] \in Jobs => key[p] \in Stored
    BY <1>1 DEF RequestOK, Jobs
  <2>2. pc[p] \in Jobs => RoleOf(p)' = RoleOf(p)
    BY <2>1 DEF RoleOf, TableKept
  <2> QED
    BY <1>1, <2>2 DEF RequestOK, Authorized
<1>5. pc[p] \in {"audit_create", "write", "audit_revoke"} => (target[p] \in Stored)'
  BY <1>1 DEF RequestOK, TableKept
<1>6. pc[p] = "audit_revoke" => (~Active(target[p]))'
  BY <1>1 DEF RequestOK, TableKept, Active
<1>7. pc[p] \in {"stamp", "welcome"} => (row[p] \in Rows /\ row[p].role = RoleOf(p))'
  <2>1. pc[p] \in {"stamp", "welcome"} => key[p] \in Stored
    BY <1>1 DEF RequestOK
  <2>2. pc[p] \in {"stamp", "welcome"} => RoleOf(p)' = RoleOf(p)
    BY <2>1 DEF RoleOf, TableKept
  <2> QED
    BY <1>1, <2>2 DEF RequestOK
<1>8. pc[p] = "write" => (row[p] \in Rows /\ (row[p].is_active \/ ~Active(target[p])))'
  BY <1>1 DEF RequestOK, TableKept, Active
<1> QED
  BY <1>2, <1>3, <1>4, <1>5, <1>6, <1>7, <1>8 DEF RequestOK

\* A request that moves alone.
LEMMA RequestsAdvance ==
  ASSUME KeysInv, TableKept, now' \in 0..MaxTime, now <= now', NEW q \in Requests,
         OnlyMoves(q), RequestOK(q)'
  PROVE  \A p \in Requests : RequestOK(p)'
BY RequestStays DEF OnlyMoves

\* A request that is answered leaves nothing behind.
LEMMA AnswerOK ==
  ASSUME KeysTypeOK, NEW q \in Requests, Answer(q)
  PROVE  /\ OnlyMoves(q)
         /\ RequestOK(q)'
         /\ pc' \in [Requests -> Places]
         /\ key' \in [Requests -> Keys \cup {NoKey}]
         /\ target' \in [Requests -> Keys \cup {NoKey}]
         /\ row' \in [Requests -> Rows \cup {NoRow}]
         /\ doomed' \in [Requests -> BOOLEAN]
BY DEF KeysTypeOK, Answer, OnlyMoves, Stays, RequestOK, Jobs, Places

\* A request that goes on keeps its key, and has the row it loaded.
LEMMA LoadOK ==
  ASSUME KeysTypeOK, NEW q \in Requests, NEW place \in Places, NEW object \in Rows \cup {NoRow},
         Load(q, place, object)
  PROVE  /\ pc' \in [Requests -> Places] /\ row' \in [Requests -> Rows \cup {NoRow}]
         /\ pc'[q] = place /\ row'[q] = object
         /\ UNCHANGED <<key, doomed>>
         /\ (\A p \in Requests \ {q} : target'[p] = target[p]) => OnlyMoves(q)
BY DEF KeysTypeOK, Load, OnlyMoves, Stays

\* A step of q after which everything known of q is known again.
LEMMA KeysAdvance ==
  ASSUME KeysInv, KeysTypeOK', TableKept, now' = now, NEW q \in Requests,
         OnlyMoves(q), RequestOK(q)', (shown \subseteq Stored)', (told \subseteq Stored)',
         AnswersAreTrue'
  PROVE  KeysInv'
<1>1. now' \in 0..MaxTime /\ now <= now'
  BY DEF KeysInv
<1>2. \A p \in Requests : RequestOK(p)'
  BY <1>1, RequestsAdvance
<1> QED
  BY <1>1, <1>2 DEF KeysInv

\* A step of q that leaves the table and the log alone.
LEMMA QuietStep ==
  ASSUME KeysInv, now' = now, UNCHANGED <<api_keys, adminVars, mishaps>>,
         NEW q \in Requests, OnlyMoves(q), RequestOK(q)',
         pc' \in [Requests -> Places], key' \in [Requests -> Keys \cup {NoKey}],
         target' \in [Requests -> Keys \cup {NoKey}], row' \in [Requests -> Rows \cup {NoRow}],
         doomed' \in [Requests -> BOOLEAN]
  PROVE  KeysInv'
<1>1. TableKept /\ Stored' = Stored
  BY UnchangedKeeps DEF Stored
<1>2. KeysTypeOK'
  BY DEF KeysInv, KeysTypeOK, adminVars
<1>3. AnswersAreTrue' /\ (shown \subseteq Stored)' /\ (told \subseteq Stored)'
  BY <1>1 DEF KeysInv, AnswersAreTrue, Active, adminVars
<1> QED
  BY <1>1, <1>2, <1>3, KeysAdvance

LEMMA ArriveInv ==
  ASSUME KeysInv, NEW q \in Requests, NEW k \in shown \cup {NoKey}, Arrive(q, k), now' = now
  PROVE  KeysInv'
<1>1. k \in Stored \cup {NoKey} /\ k \in Keys \cup {NoKey}
  BY StoredKeys DEF KeysInv
<1>2. /\ pc[q] = "idle"
      /\ pc' = [pc EXCEPT ![q] = "lookup"]
      /\ key' = [key EXCEPT ![q] = k]
      /\ doomed' = [doomed EXCEPT ![q] = NoGood(k)]
      /\ UNCHANGED <<target, row, api_keys, adminVars, mishaps>>
  BY DEF Arrive
<1>3. /\ pc' \in [Requests -> Places] /\ key' \in [Requests -> Keys \cup {NoKey}]
      /\ target' \in [Requests -> Keys \cup {NoKey}] /\ doomed' \in [Requests -> BOOLEAN]
      /\ row' \in [Requests -> Rows \cup {NoRow}] /\ OnlyMoves(q)
  BY <1>1, <1>2 DEF KeysInv, KeysTypeOK, Places, OnlyMoves, Stays, NoGood
<1>4. NoGood(k)' <=> NoGood(k)
  BY <1>2 DEF NoGood, Stored
<1>5. Stored' = Stored
  BY <1>2 DEF Stored
<1>6. pc'[q] = "lookup" /\ key'[q] = k /\ doomed'[q] = NoGood(k)
  BY <1>2 DEF KeysInv, KeysTypeOK
<1>7. RequestOK(q)'
  BY <1>1, <1>4, <1>5, <1>6 DEF RequestOK, Jobs
<1> QED
  BY <1>2, <1>3, <1>7, QuietStep

LEMMA LookupInv ==
  ASSUME KeysInv, NEW q \in Requests, LookupKey(q), now' = now
  PROVE  KeysInv'
<1>1. pc[q] = "lookup" /\ UNCHANGED <<api_keys, adminVars, mishaps>> /\ KeysTypeOK
  BY DEF LookupKey, KeysInv
<1>2. CASE Accepts(key[q])
  <2>1. Load(q, "stamp", api_keys[key[q]]) /\ UNCHANGED target /\ "stamp" \in Places
    BY <1>2 DEF LookupKey, Places
  <2>2. key[q] \in Stored /\ ~NoGood(key[q])
    BY <1>1, <1>2, AcceptedIsGood DEF KeysInv
  <2>3. ~doomed[q]
    BY <1>1, <2>2 DEF KeysInv, RequestOK
  <2>4. api_keys[key[q]] \in Rows
    BY <1>1, <2>2, StoredRows
  <2>5. /\ OnlyMoves(q) /\ pc' \in [Requests -> Places] /\ pc'[q] = "stamp"
        /\ row' \in [Requests -> Rows \cup {NoRow}] /\ row'[q] = api_keys[key[q]]
        /\ UNCHANGED <<key, target, doomed>>
    BY <1>1, <2>1, <2>4, LoadOK
  <2>6. RequestOK(q)'
    BY <1>1, <2>2, <2>3, <2>4, <2>5 DEF RequestOK, Jobs, Stored, RoleOf
  <2> QED
    BY <1>1, <2>5, <2>6, QuietStep DEF KeysTypeOK
<1>3. CASE ~Accepts(key[q])
  <2>1. Answer(q)
    BY <1>3 DEF LookupKey
  <2> QED
    BY <1>1, <2>1, AnswerOK, QuietStep
<1> QED
  BY <1>2, <1>3

\* A commit of an object that was loaded from a row keeps what it does not mean
\* to change, if it does not revive the key and takes no use away.
LEMMA FlushKeeps ==
  ASSUME KeysTypeOK, NEW k \in Stored, NEW old \in Rows, NEW new \in Rows,
         api_keys' = Flush(k, old, new),
         new.is_active => old.is_active, old.used => new.used
  PROVE  /\ TableKept
         /\ api_keys' \in [Keys -> Rows \cup {NoRow}]
         /\ Stored' = Stored
         /\ old.is_active \/ ~Active(k) => (new.is_active \/ ~Active(k)')
<1> DEFINE on == IF new.is_active = old.is_active THEN api_keys[k].is_active ELSE new.is_active
<1> DEFINE stamp == IF new.used = old.used THEN api_keys[k].used ELSE new.used
<1>1. /\ api_keys[k] \in Rows /\ k \in Keys
      /\ api_keys[k].is_active \in BOOLEAN /\ api_keys[k].used \in BOOLEAN
      /\ old.is_active \in BOOLEAN /\ old.used \in BOOLEAN
      /\ new.is_active \in BOOLEAN /\ new.used \in BOOLEAN
  BY StoredRows DEF Rows
<1>2. on \in BOOLEAN /\ stamp \in BOOLEAN
  BY <1>1
<1>3. ~Active(k) => ~on
  BY <1>1 DEF Active
<1>4. api_keys[k].used => stamp
  BY <1>1
<1>5. old.is_active \/ ~Active(k) => new.is_active \/ ~on
  BY <1>1 DEF Active
<1>6. api_keys' = [api_keys EXCEPT ![k] = [api_keys[k] EXCEPT !.is_active = on, !.used = stamp]]
  BY DEF Flush, KeysTypeOK
<1> HIDE DEF on, stamp
<1> DEFINE written == [api_keys[k] EXCEPT !.is_active = on, !.used = stamp]
<1>7. /\ written \in Rows
       /\ written.role = api_keys[k].role
       /\ written.expires_at = api_keys[k].expires_at
       /\ written.addresses = api_keys[k].addresses
       /\ written.is_active = on
       /\ written.used = stamp
  BY <1>1, <1>2 DEF Rows
<1>8. api_keys'[k] = written
  BY <1>1, <1>6 DEF KeysTypeOK
<1> HIDE DEF written
<1>9. /\ api_keys'[k] \in Rows
      /\ api_keys'[k].role = api_keys[k].role
      /\ api_keys'[k].expires_at = api_keys[k].expires_at
      /\ api_keys'[k].addresses = api_keys[k].addresses
      /\ api_keys'[k].is_active = on
      /\ api_keys'[k].used = stamp
  BY <1>7, <1>8
<1>10. api_keys' \in [Keys -> Rows \cup {NoRow}] /\ \A j \in Keys \ {k} : api_keys'[j] = api_keys[j]
  BY <1>1, <1>6, <1>9 DEF KeysTypeOK
<1>11. Stored' = Stored
  <2>1. api_keys'[k] # NoRow
    BY <1>9, RowsAreNotNoRow
  <2> QED
    BY <1>10, <2>1 DEF Stored
<1>12. TableKept
  BY <1>3, <1>4, <1>9, <1>10, <1>11, StoredKeys DEF TableKept, Active
<1>13. Active(k)' <=> on
  BY <1>9 DEF Active
<1> QED
  BY <1>5, <1>10, <1>11, <1>12, <1>13

\* A step of q that writes to the table what keeps it.
LEMMA WritingStep ==
  ASSUME KeysInv, now' = now, UNCHANGED <<adminVars, mishaps>>, TableKept, Stored' = Stored,
         api_keys' \in [Keys -> Rows \cup {NoRow}],
         NEW q \in Requests, OnlyMoves(q), RequestOK(q)',
         pc' \in [Requests -> Places], row' \in [Requests -> Rows \cup {NoRow}],
         UNCHANGED <<key, target, doomed>>
  PROVE  KeysInv'
<1>1. KeysTypeOK'
  BY DEF KeysInv, KeysTypeOK, adminVars
<1>2. \A j \in told : ~Active(j)'
  BY DEF KeysInv, AnswersAreTrue, TableKept
<1>3. AnswersAreTrue' /\ (shown \subseteq Stored)' /\ (told \subseteq Stored)'
  BY <1>2 DEF KeysInv, AnswersAreTrue, adminVars
<1> QED
  BY <1>1, <1>3, KeysAdvance

LEMMA StampInv ==
  ASSUME KeysInv, NEW q \in Requests, UpdateLastUsed(q), now' = now
  PROVE  KeysInv' /\ TableKept
<1> DEFINE stamped == [row[q] EXCEPT !.used = TRUE]
<1>1. /\ pc[q] = "stamp" /\ UNCHANGED <<target, adminVars, mishaps>> /\ KeysTypeOK
      /\ api_keys' = Flush(key[q], row[q], stamped)
      /\ Load(q, "welcome", stamped) /\ "welcome" \in Places
  BY DEF UpdateLastUsed, KeysInv, Places
<1>2. key[q] \in Stored /\ ~doomed[q] /\ row[q] \in Rows /\ row[q].role = RoleOf(q)
  BY <1>1 DEF KeysInv, RequestOK
<1>3. /\ stamped \in Rows /\ stamped.used /\ stamped.is_active = row[q].is_active
      /\ stamped.role = row[q].role
  BY <1>2 DEF Rows
<1> HIDE DEF stamped
<1>4. TableKept /\ api_keys' \in [Keys -> Rows \cup {NoRow}] /\ Stored' = Stored
  BY <1>1, <1>2, <1>3, FlushKeeps
<1>5. /\ OnlyMoves(q) /\ pc' \in [Requests -> Places] /\ pc'[q] = "welcome"
      /\ row' \in [Requests -> Rows \cup {NoRow}] /\ row'[q] = stamped
      /\ UNCHANGED <<key, target, doomed>>
  BY <1>1, <1>3, LoadOK
<1>6. RoleOf(q)' = RoleOf(q)
  BY <1>2, <1>4, <1>5 DEF RoleOf, TableKept
<1>7. RequestOK(q)'
  BY <1>2, <1>3, <1>4, <1>5, <1>6 DEF RequestOK, Jobs
<1> QED
  BY <1>1, <1>4, <1>5, <1>7, WritingStep

LEMMA AdmitInv ==
  ASSUME KeysInv, NEW q \in Requests, Admit(q), now' = now
  PROVE  KeysInv'
<1>1. pc[q] = "welcome" /\ UNCHANGED <<api_keys, adminVars, mishaps>> /\ KeysTypeOK
  BY DEF Admit, KeysInv
<1>2. PICK job \in Jobs :
        IF Authorized(row[q].role, PermissionOf(job))
        THEN Load(q, job, NoRow) /\ UNCHANGED target
        ELSE Answer(q)
  BY DEF Admit
<1>3. CASE Authorized(row[q].role, PermissionOf(job))
  <2>1. Load(q, job, NoRow) /\ UNCHANGED target /\ job \in Places
    BY <1>2, <1>3 DEF Places
  <2>2. /\ OnlyMoves(q) /\ pc' \in [Requests -> Places] /\ pc'[q] = job
        /\ row' \in [Requests -> Rows \cup {NoRow}]
        /\ UNCHANGED <<key, target, doomed>>
    BY <1>1, <2>1, LoadOK
  <2>3. RoleOf(q)' = RoleOf(q) /\ Stored' = Stored
    BY <1>1, <2>2 DEF RoleOf, Stored
  <2>4. key[q] \in Stored /\ ~doomed[q] /\ row[q].role = RoleOf(q)
    BY <1>1 DEF KeysInv, RequestOK
  <2>5. Authorized(RoleOf(q), PermissionOf(pc[q]))'
    BY <1>3, <2>2, <2>3, <2>4 DEF Authorized
  <2>6. job \notin {"lookup", "stamp", "welcome", "audit_create", "write", "audit_revoke"}
    BY DEF Jobs
  <2>7. RequestOK(q)'
    BY <2>2, <2>3, <2>4, <2>5, <2>6 DEF RequestOK
  <2> QED
    BY <1>1, <2>2, <2>7, QuietStep DEF KeysTypeOK
<1>4. CASE ~Authorized(row[q].role, PermissionOf(job))
  <2>1. Answer(q)
    BY <1>2, <1>4
  <2> QED
    BY <1>1, <2>1, AnswerOK, QuietStep
<1> QED
  BY <1>3, <1>4

LEMMA InsertInv ==
  ASSUME KeysInv, NEW q \in Requests, InsertKey(q), now' = now
  PROVE  KeysInv' /\ TableKept
<1>1. PICK k \in Keys \ Stored, new \in NewRows :
        /\ api_keys' = [api_keys EXCEPT ![k] = new]
        /\ target' = [target EXCEPT ![q] = k]
  BY DEF InsertKey
<1>2. /\ pc[q] = "create" /\ "audit_create" \in Places
      /\ Load(q, "audit_create", NoRow)
      /\ UNCHANGED <<adminVars, mishaps>>
      /\ KeysTypeOK
  BY DEF InsertKey, KeysInv, Places
<1>3. new # NoRow /\ new \in Rows
  BY RowsAreNotNoRow DEF NewRows
<1>4. api_keys' \in [Keys -> Rows \cup {NoRow}] /\ api_keys'[k] = new
      /\ \A j \in Keys \ {k} : api_keys'[j] = api_keys[j]
  BY <1>1, <1>2, <1>3 DEF KeysTypeOK
<1>5. Stored' = Stored \cup {k}
  BY <1>3, <1>4 DEF Stored
<1>6. TableKept
  BY <1>4, <1>5, StoredKeys DEF TableKept, Active
<1>7. /\ OnlyMoves(q) /\ pc'[q] = "audit_create" /\ target'[q] = k
      /\ pc' \in [Requests -> Places] /\ row' \in [Requests -> Rows \cup {NoRow}]
      /\ UNCHANGED <<key, doomed>>
  BY <1>1, <1>2, LoadOK DEF KeysTypeOK
<1>8. KeysTypeOK'
  BY <1>1, <1>2, <1>4, <1>7 DEF KeysTypeOK, adminVars
<1>9. RequestOK(q)'
  <2>1. key[q] \in Stored /\ ~doomed[q]
    BY <1>2 DEF KeysInv, RequestOK
  <2> QED
    BY <1>5, <1>7, <2>1 DEF RequestOK, Jobs
<1>10. AnswersAreTrue'
  <2>1. told \subseteq Keys /\ \A j \in told : j # k => Active(j)' = Active(j)
    BY <1>2, <1>4 DEF KeysTypeOK, Active
  <2>2. k \notin told
    BY DEF KeysInv
  <2> QED
    BY <1>2, <2>1, <2>2 DEF KeysInv, AnswersAreTrue, adminVars
<1>11. (shown \subseteq Stored)' /\ (told \subseteq Stored)'
  BY <1>2, <1>5 DEF KeysInv, adminVars
<1> QED
  BY <1>6, <1>7, <1>8, <1>9, <1>10, <1>11, KeysAdvance

LEMMA AuditCreationInv ==
  ASSUME KeysInv, NEW q \in Requests, AuditCreation(q), now' = now
  PROVE  KeysInv'
<1>1. /\ pc[q] = "audit_create" /\ Answer(q) /\ KeysTypeOK /\ RequestOK(q)
      /\ on_record' = on_record \cup {<<"api_key_created", target[q]>>}
      /\ UNCHANGED <<api_keys, told>>
  BY DEF AuditCreation, KeysInv
<1>2. target[q] \in Stored /\ target[q] \in Keys
  BY <1>1, StoredKeys DEF RequestOK
<1>3. shown' \in {shown, shown \cup {target[q]}} /\ (UNCHANGED mishaps \/ OneMishap)
  BY DEF AuditCreation
<1>4. TableKept /\ Stored' = Stored
  BY <1>1, UnchangedKeeps DEF Stored
<1>5. mishaps' \in 0..MaxMishaps
  BY <1>1, <1>3, MishapsAssumption DEF KeysTypeOK, OneMishap
<1>6. KeysTypeOK' /\ OnlyMoves(q) /\ RequestOK(q)'
  <2>1. shown' \subseteq Keys /\ on_record' \subseteq {"api_key_created", "api_key_revoked"} \X Keys
    BY <1>1, <1>2, <1>3 DEF KeysTypeOK
  <2> QED
    BY <1>1, <1>5, <2>1, AnswerOK DEF KeysTypeOK
<1>7. AnswersAreTrue' /\ (shown \subseteq Stored)' /\ (told \subseteq Stored)'
  BY <1>1, <1>2, <1>3, <1>4 DEF KeysInv, AnswersAreTrue, Active
<1> QED
  BY <1>4, <1>6, <1>7, KeysAdvance

LEMMA FindInv ==
  ASSUME KeysInv, NEW q \in Requests, FindKey(q), now' = now
  PROVE  KeysInv'
<1>1. /\ pc[q] = "revoke" /\ UNCHANGED <<api_keys, adminVars, mishaps>> /\ KeysTypeOK
      /\ "write" \in Places
  BY DEF FindKey, KeysInv, Places
<1>2. PICK k \in Keys :
       \/ k \notin Stored /\ Answer(q)
       \/ /\ k \in Stored
          /\ Load(q, "write", api_keys[k])
          /\ target' = [target EXCEPT ![q] = k]
  BY DEF FindKey
<1>3. CASE k \notin Stored
  BY <1>1, <1>2, <1>3, AnswerOK, QuietStep
<1>4. CASE k \in Stored
  <2>1. api_keys[k] \in Rows
    BY <1>1, <1>4, StoredRows
  <2>2. Load(q, "write", api_keys[k]) /\ target' = [target EXCEPT ![q] = k]
    BY <1>2, <1>4
  <2>3. /\ target' \in [Requests -> Keys \cup {NoKey}] /\ target'[q] = k
        /\ \A p \in Requests \ {q} : target'[p] = target[p]
    BY <1>1, <2>2 DEF KeysTypeOK
  <2>4. /\ OnlyMoves(q) /\ pc' \in [Requests -> Places] /\ pc'[q] = "write"
        /\ row' \in [Requests -> Rows \cup {NoRow}] /\ row'[q] = api_keys[k]
        /\ UNCHANGED <<key, doomed>>
    BY <1>1, <2>1, <2>2, <2>3, LoadOK
  <2>5. key[q] \in Stored /\ ~doomed[q] /\ Stored' = Stored /\ api_keys' = api_keys
    BY <1>1 DEF KeysInv, RequestOK, Stored
  <2>6. RequestOK(q)'
    BY <1>4, <2>1, <2>4, <2>5, <2>3 DEF RequestOK, Jobs, Active
  <2> QED
    BY <1>1, <2>4, <2>6, <2>3, QuietStep DEF KeysTypeOK
<1> QED
  BY <1>3, <1>4

LEMMA RevokeInv ==
  ASSUME KeysInv, NEW q \in Requests, RevokeKey(q), now' = now
  PROVE  KeysInv' /\ TableKept
<1> DEFINE revoked == [row[q] EXCEPT !.is_active = FALSE]
<1>1. /\ pc[q] = "write" /\ UNCHANGED <<target, adminVars, mishaps>> /\ KeysTypeOK
      /\ api_keys' = Flush(target[q], row[q], revoked)
      /\ Load(q, "audit_revoke", NoRow) /\ "audit_revoke" \in Places
  BY DEF RevokeKey, KeysInv, Places
<1>2. /\ key[q] \in Stored /\ ~doomed[q]
      /\ target[q] \in Stored /\ row[q] \in Rows /\ (row[q].is_active \/ ~Active(target[q]))
  BY <1>1 DEF KeysInv, RequestOK
<1>3. revoked \in Rows /\ ~revoked.is_active /\ revoked.used = row[q].used
  BY <1>2 DEF Rows
<1> HIDE DEF revoked
<1>4. /\ TableKept /\ api_keys' \in [Keys -> Rows \cup {NoRow}] /\ Stored' = Stored
      /\ ~Active(target[q])'
  BY <1>1, <1>2, <1>3, FlushKeeps
<1>5. /\ OnlyMoves(q) /\ pc' \in [Requests -> Places] /\ pc'[q] = "audit_revoke"
      /\ row' \in [Requests -> Rows \cup {NoRow}]
      /\ UNCHANGED <<key, target, doomed>>
  BY <1>1, LoadOK
<1>6. RequestOK(q)'
  BY <1>2, <1>4, <1>5 DEF RequestOK, Jobs, Active
<1> QED
  BY <1>1, <1>4, <1>5, <1>6, WritingStep

LEMMA AuditRevocationInv ==
  ASSUME KeysInv, NEW q \in Requests, AuditRevocation(q), now' = now
  PROVE  KeysInv'
<1>1. /\ pc[q] = "audit_revoke" /\ Answer(q) /\ KeysTypeOK /\ RequestOK(q)
      /\ on_record' = on_record \cup {<<"api_key_revoked", target[q]>>}
      /\ UNCHANGED <<api_keys, shown>>
  BY DEF AuditRevocation, KeysInv
<1>2. target[q] \in Stored /\ target[q] \in Keys /\ ~Active(target[q])
  BY <1>1, StoredKeys DEF RequestOK
<1>3. told' \in {told, told \cup {target[q]}} /\ (UNCHANGED mishaps \/ OneMishap)
  BY DEF AuditRevocation
<1>4. TableKept /\ Stored' = Stored
  BY <1>1, UnchangedKeeps DEF Stored
<1>5. mishaps' \in 0..MaxMishaps
  BY <1>1, <1>3, MishapsAssumption DEF KeysTypeOK, OneMishap
<1>6. KeysTypeOK' /\ OnlyMoves(q) /\ RequestOK(q)'
  <2>1. told' \subseteq Keys /\ on_record' \subseteq {"api_key_created", "api_key_revoked"} \X Keys
    BY <1>1, <1>2, <1>3 DEF KeysTypeOK
  <2> QED
    BY <1>1, <1>5, <2>1, AnswerOK DEF KeysTypeOK
<1>7. AnswersAreTrue' /\ (shown \subseteq Stored)' /\ (told \subseteq Stored)'
  BY <1>1, <1>2, <1>3, <1>4 DEF KeysInv, AnswersAreTrue, Active
<1> QED
  BY <1>4, <1>6, <1>7, KeysAdvance

LEMMA MishapInv ==
  ASSUME KeysInv, NEW q \in Requests, Mishap(q), now' = now
  PROVE  KeysInv'
<1>1. OneMishap /\ Answer(q) /\ KeysTypeOK /\ UNCHANGED <<api_keys, shown, told, on_record>>
  BY DEF Mishap, KeysInv
<1>2. TableKept /\ Stored' = Stored
  BY <1>1, UnchangedKeeps DEF Stored
<1>3. mishaps' \in 0..MaxMishaps
  BY <1>1, MishapsAssumption DEF KeysTypeOK, OneMishap
<1>4. KeysTypeOK' /\ OnlyMoves(q) /\ RequestOK(q)'
  BY <1>1, <1>3, AnswerOK DEF KeysTypeOK
<1>5. AnswersAreTrue' /\ (shown \subseteq Stored)' /\ (told \subseteq Stored)'
  BY <1>1, <1>2 DEF KeysInv, AnswersAreTrue, Active
<1> QED
  BY <1>2, <1>4, <1>5, KeysAdvance

LEMMA DropRequestsInv ==
  ASSUME KeysInv, DropRequests, now' = now
  PROVE  KeysInv'
<1>1. /\ OneMishap /\ KeysTypeOK
      /\ UNCHANGED <<api_keys, shown, told, on_record>>
      /\ pc' = [p \in Requests |-> "idle"]
      /\ key' = [p \in Requests |-> NoKey]
      /\ target' = [p \in Requests |-> NoKey]
      /\ row' = [p \in Requests |-> NoRow]
      /\ doomed' = [p \in Requests |-> FALSE]
  BY DEF DropRequests, KeysInv
<1>2. Stored' = Stored
  BY <1>1 DEF Stored
<1>3. mishaps' \in 0..MaxMishaps
  BY <1>1, MishapsAssumption DEF KeysTypeOK, OneMishap
<1>4. KeysTypeOK'
  BY <1>1, <1>3 DEF KeysTypeOK, Places
<1>5. \A p \in Requests : RequestOK(p)'
  BY <1>1 DEF RequestOK, Jobs
<1>6. AnswersAreTrue' /\ (shown \subseteq Stored)' /\ (told \subseteq Stored)'
  BY <1>1, <1>2 DEF KeysInv, AnswersAreTrue, Active
<1> QED
  BY <1>4, <1>5, <1>6 DEF KeysInv

\* Time passes, or nothing happens to the keys.
LEMMA KeysWait ==
  ASSUME KeysInv, UNCHANGED keyVars, now' \in 0..MaxTime, now <= now'
  PROVE  KeysInv'
<1>1. UNCHANGED <<api_keys, shown, told, on_record, pc, key, target, row, doomed, mishaps>>
  BY DEF keyVars, adminVars, requestVars
<1>2. TableKept /\ Stored' = Stored
  BY <1>1, UnchangedKeeps DEF Stored
<1>3. \A p \in Requests : RequestOK(p)'
  BY <1>1, <1>2, RequestStays DEF Stays
<1>4. KeysTypeOK' /\ AnswersAreTrue' /\ (shown \subseteq Stored)' /\ (told \subseteq Stored)'
  BY <1>1, <1>2 DEF KeysInv, KeysTypeOK, AnswersAreTrue, Active
<1> QED
  BY <1>3, <1>4 DEF KeysInv

LEMMA KeysStart == Init => KeysInv
<1> SUFFICES ASSUME Init PROVE KeysInv
  OBVIOUS
<1>1. PICK rows \in [Seeded -> {r \in NewRows : r.expires_at = Never /\ ~r.addresses}] :
        api_keys = [k \in Keys |-> IF k \in Seeded THEN rows[k] ELSE NoRow]
  BY DEF Init, KeysInit
<1>2. Stored = Seeded
  BY <1>1, SeededAssumption, RowsAreNotNoRow DEF Stored, NewRows
<1>3. /\ shown = Seeded /\ told = {} /\ on_record = {}
      /\ pc = [q \in Requests |-> "idle"]
      /\ key = [q \in Requests |-> NoKey]
      /\ target = [q \in Requests |-> NoKey]
      /\ row = [q \in Requests |-> NoRow]
      /\ doomed = [q \in Requests |-> FALSE]
      /\ mishaps = 0 /\ now = 0
  BY DEF Init, KeysInit
<1>4. KeysTypeOK
  BY <1>1, <1>3, SeededAssumption, MishapsAssumption DEF KeysTypeOK, Places, NewRows
<1>5. \A q \in Requests : RequestOK(q)
  BY <1>3 DEF RequestOK, Jobs
<1>6. AnswersAreTrue
  BY <1>2, <1>3 DEF AnswersAreTrue
<1> QED
  BY <1>2, <1>3, <1>4, <1>5, <1>6 DEF KeysInv

-----------------------------------------------------------------------------
(* The tokens.                                                             *)

\* What a token was issued for are numbers.
LEMMA IssuedNumbers ==
  ASSUME TokensTypeOK, NEW t \in Tokens
  PROVE  issued[t].at \in Int /\ issued[t].ttl \in Int
<1>1. issued[t] \in [actor : Keys \cup {NoKey}, at : -1..MaxTime, ttl : Ttls \cup {0, 1}]
  BY DEF TokensTypeOK
<1>2. issued[t].at \in -1..MaxTime /\ issued[t].ttl \in Ttls \cup {0, 1}
  BY <1>1
<1>3. \A n \in -1..MaxTime : n \in Int
  OBVIOUS
<1>4. \A n \in Ttls \cup {0, 1} : n \in Int
  BY TtlsAssumption
<1> QED
  BY <1>2, <1>3, <1>4

\* A record that has expired is of a token that is good no longer.
LEMMA ExpiredIsNotGood ==
  ASSUME TokensInv, now \in 0..MaxTime, NEW t \in held
  PROVE  Expired(t) <=> ~Good(t)
<1>1. issued[t].at \in Int /\ issued[t].ttl \in Int
  BY IssuedNumbers DEF TokensInv, TokensTypeOK
<1>2. /\ issued[t].at >= 0
      /\ records[t].expires_at = issued[t].at + (IF issued[t].ttl > 0 THEN issued[t].ttl ELSE 1)
  BY DEF TokensInv
<1> QED
  BY <1>1, <1>2 DEF Expired, Good

\* Dropping records that have expired takes no good token away.
LEMMA KeepInv ==
  ASSUME TokensInv, now \in 0..MaxTime, now' = now, UNCHANGED issued,
         NEW kept \in SUBSET held, Keep(kept), \A t \in held \ kept : Expired(t)
  PROVE  TokensInv'
<1>1. /\ held' = kept
      /\ records' = [t \in Tokens |-> IF t \in kept THEN records[t] ELSE NoRecord]
  BY DEF Keep
<1>2. held \subseteq Tokens
  BY DEF TokensInv, TokensTypeOK
<1>3. TokensTypeOK'
  <2>1. \A t \in Tokens : records[t] \in [actor : Keys \cup {NoKey}, expires_at : Nat]
    BY DEF TokensInv, TokensTypeOK
  <2>2. NoRecord \in [actor : Keys \cup {NoKey}, expires_at : Nat]
    BY DEF NoRecord
  <2> QED
    BY <1>1, <1>2, <2>1, <2>2 DEF TokensInv, TokensTypeOK
<1>4. \A t \in kept : records'[t] = records[t]
  BY <1>1, <1>2
<1>5. \A t \in Tokens \ kept : ~Good(t)'
  <2>1. \A t \in Tokens : Good(t)' <=> Good(t)
    BY DEF Good
  <2> QED
    BY <2>1, ExpiredIsNotGood DEF TokensInv
<1> QED
  BY <1>1, <1>3, <1>4, <1>5 DEF TokensInv

LEMMA IssueInv ==
  ASSUME TokensInv, now \in 0..MaxTime, now' = now,
         NEW t \in Tokens, NEW actor \in Keys, NEW ttl \in Ttls, IssueToken(t, actor, ttl)
  PROVE  TokensInv'
<1> DEFINE record == [actor |-> actor, expires_at |-> ExpiresAt(ttl)]
<1> DEFINE origin == [actor |-> actor, at |-> now, ttl |-> ttl]
<1>1. /\ held' = Unexpired \cup {t}
      /\ records' = [s \in Tokens |-> CASE s = t -> record
                                        [] s \in Unexpired -> records[s]
                                        [] OTHER -> NoRecord]
      /\ issued' = [issued EXCEPT ![t] = origin]
  BY DEF IssueToken
<1>2. ttl \in Int /\ now \in Nat
  BY TtlsAssumption
<1>3. ExpiresAt(ttl) \in Nat /\ ExpiresAt(ttl) = now + (IF ttl > 0 THEN ttl ELSE 1)
  BY <1>2 DEF ExpiresAt
<1>4. Unexpired \subseteq held /\ held \subseteq Tokens
  BY DEF TokensInv, TokensTypeOK, Unexpired
<1> HIDE DEF record, origin
<1>5. issued'[t] = origin /\ \A s \in Tokens \ {t} : issued'[s] = issued[s]
  BY <1>1 DEF TokensInv, TokensTypeOK
<1>6. records'[t] = record /\ \A s \in Unexpired \ {t} : records'[s] = records[s]
  <2>1. t \notin Unexpired
    BY <1>4 DEF IssueToken, IsIssued, NotIssued, TokensInv
  <2> QED
    BY <1>1, <1>4, <2>1
<1>7. TokensTypeOK'
  <2>1. record \in [actor : Keys \cup {NoKey}, expires_at : Nat]
    BY <1>3 DEF record
  <2>2. NoRecord \in [actor : Keys \cup {NoKey}, expires_at : Nat]
    BY DEF NoRecord
  <2>3. origin \in [actor : Keys \cup {NoKey}, at : -1..MaxTime, ttl : Ttls \cup {0, 1}]
    BY <1>2 DEF origin
  <2>4. \A s \in Tokens : records'[s] \in [actor : Keys \cup {NoKey}, expires_at : Nat]
    <3> SUFFICES ASSUME NEW s \in Tokens
                 PROVE  records'[s] \in [actor : Keys \cup {NoKey}, expires_at : Nat]
      OBVIOUS
    <3>1. records[s] \in [actor : Keys \cup {NoKey}, expires_at : Nat]
      BY DEF TokensInv, TokensTypeOK
    <3>2. records'[s] \in {record, records[s], NoRecord}
      BY <1>1
    <3> QED
      BY <2>1, <2>2, <3>1, <3>2
  <2>5. records' \in [Tokens -> [actor : Keys \cup {NoKey}, expires_at : Nat]]
    BY <1>1, <2>4
  <2>6. issued' \in [Tokens -> [actor : Keys \cup {NoKey}, at : -1..MaxTime, ttl : Ttls \cup {0, 1}]]
    BY <1>1, <2>3 DEF TokensInv, TokensTypeOK
  <2> QED
    BY <1>1, <1>4, <2>5, <2>6 DEF TokensTypeOK
<1>8. \A s \in held' :
        /\ issued'[s].actor \in Keys
        /\ issued'[s].at >= 0
        /\ records'[s].actor = issued'[s].actor
        /\ records'[s].expires_at = issued'[s].at + (IF issued'[s].ttl > 0 THEN issued'[s].ttl ELSE 1)
  <2>1. \A s \in Unexpired \ {t} : issued'[s] = issued[s] /\ records'[s] = records[s] /\ s \in held
    BY <1>4, <1>5, <1>6
  <2>2. /\ issued'[t].actor = actor /\ issued'[t].at = now /\ issued'[t].ttl = ttl
        /\ records'[t].actor = actor /\ records'[t].expires_at = ExpiresAt(ttl)
    BY <1>5, <1>6 DEF record, origin
  <2>3. \A s \in Unexpired \ {t} :
          /\ issued'[s].actor \in Keys
          /\ issued'[s].at >= 0
          /\ records'[s].actor = issued'[s].actor
          /\ records'[s].expires_at = issued'[s].at + (IF issued'[s].ttl > 0 THEN issued'[s].ttl ELSE 1)
    BY <2>1 DEF TokensInv
  <2> QED
    BY <1>1, <1>2, <1>3, <2>2, <2>3
<1>9. \A s \in Tokens \ held' : ~Good(s)'
  <2> SUFFICES ASSUME NEW s \in Tokens \ held' PROVE ~Good(s)'
    OBVIOUS
  <2>1. s # t /\ s \notin Unexpired
    BY <1>1
  <2>2. Good(s)' <=> Good(s)
    BY <1>5, <2>1 DEF Good
  <2> QED
    BY <2>1, <2>2, ExpiredIsNotGood DEF TokensInv, Unexpired
<1> QED
  BY <1>7, <1>8, <1>9 DEF TokensInv

LEMMA ValidateInv ==
  ASSUME TokensInv, now \in 0..MaxTime, now' = now, NEW t \in Tokens, NEW actor, ValidateToken(t, actor)
  PROVE  TokensInv'
<1> DEFINE kept == IF t \in held /\ Expired(t) THEN held \ {t} ELSE held
<1>1. kept \in SUBSET held /\ Keep(kept) /\ UNCHANGED issued /\ \A s \in held \ kept : Expired(s)
  BY DEF ValidateToken
<1> QED
  BY <1>1, KeepInv

LEMMA CountInv ==
  ASSUME TokensInv, now \in 0..MaxTime, now' = now, CountActive
  PROVE  TokensInv'
<1>1. /\ Unexpired \in SUBSET held /\ Keep(Unexpired) /\ UNCHANGED issued
      /\ \A s \in held \ Unexpired : Expired(s)
  BY DEF CountActive, Unexpired
<1> QED
  BY <1>1, KeepInv

LEMMA ForgetInv ==
  ASSUME TokensInv, now \in 0..MaxTime, now' = now, ForgetTokens
  PROVE  TokensInv'
<1>1. /\ held' = {}
      /\ records' = [t \in Tokens |-> NoRecord]
      /\ issued' = [t \in Tokens |-> IF t \in held THEN Lost ELSE issued[t]]
  BY DEF ForgetTokens, Keep
<1>2. TokensTypeOK'
  <2>1. NoRecord \in [actor : Keys \cup {NoKey}, expires_at : Nat]
    BY DEF NoRecord
  <2>2. Lost \in [actor : Keys \cup {NoKey}, at : -1..MaxTime, ttl : Ttls \cup {0, 1}]
    BY DEF Lost
  <2>3. \A t \in Tokens :
          issued'[t] \in [actor : Keys \cup {NoKey}, at : -1..MaxTime, ttl : Ttls \cup {0, 1}]
    BY <1>1, <2>2 DEF TokensInv, TokensTypeOK
  <2> QED
    BY <1>1, <2>1, <2>3 DEF TokensTypeOK
<1>3. \A t \in Tokens : ~Good(t)'
  <2> SUFFICES ASSUME NEW t \in Tokens PROVE ~Good(t)'
    OBVIOUS
  <2>1. CASE t \in held
    <3>1. issued'[t].at = -1
      BY <1>1, <2>1 DEF Lost
    <3> QED
      BY <3>1 DEF Good
  <2>2. CASE t \notin held
    <3>1. issued'[t] = issued[t] /\ ~Good(t)
      BY <1>1, <2>2 DEF TokensInv
    <3> QED
      BY <3>1 DEF Good
  <2> QED
    BY <2>1, <2>2
<1> QED
  BY <1>1, <1>2, <1>3 DEF TokensInv

\* Time only takes goodness away.
LEMMA TokensWait ==
  ASSUME TokensInv, UNCHANGED tokenVars, now \in 0..MaxTime, now' \in 0..MaxTime, now <= now'
  PROVE  TokensInv'
<1>1. UNCHANGED <<records, held, issued>>
  BY DEF tokenVars
<1>2. \A t \in Tokens : ~Good(t) => ~Good(t)'
  <2> SUFFICES ASSUME NEW t \in Tokens PROVE Good(t)' => Good(t)
    OBVIOUS
  <2>1. issued[t].at \in Int /\ issued[t].ttl \in Int
    BY IssuedNumbers DEF TokensInv
  <2> QED
    BY <1>1, <2>1 DEF Good
<1> QED
  BY <1>1, <1>2 DEF TokensInv, TokensTypeOK

LEMMA TokensStart == TokensInit => TokensInv
<1> SUFFICES ASSUME TokensInit PROVE TokensInv
  OBVIOUS
<1>1. TokensTypeOK
  <2>1. NoRecord \in [actor : Keys \cup {NoKey}, expires_at : Nat]
    BY DEF NoRecord
  <2>2. NotIssued \in [actor : Keys \cup {NoKey}, at : -1..MaxTime, ttl : Ttls \cup {0, 1}]
    BY DEF NotIssued
  <2> QED
    BY <2>1, <2>2 DEF TokensInit, TokensTypeOK
<1>2. \A t \in Tokens : issued[t].at = -1
  BY DEF TokensInit, NotIssued
<1> QED
  BY <1>1, <1>2 DEF TokensInv, TokensInit, Good

-----------------------------------------------------------------------------
(* Both.                                                                   *)

\* A request that has been let through to an operation is answered.
LEMMA AnsweredInv ==
  ASSUME KeysInv, NEW q \in Requests, Answer(q), now' = now,
         UNCHANGED <<api_keys, adminVars, mishaps>>
  PROVE  KeysInv'
BY AnswerOK, QuietStep DEF KeysInv

\* The steps of a request that are about keys alone, and what they keep of the
\* table.
LEMMA KeyStepsInv ==
  ASSUME KeysInv, NEW q \in Requests, KeySteps(q), now' = now
  PROVE  KeysInv' /\ TableKept
<1>1. CASE \E k \in shown \cup {NoKey} : Arrive(q, k)
  BY <1>1, ArriveInv, UnchangedKeeps DEF Arrive
<1>2. CASE LookupKey(q)
  BY <1>2, LookupInv, UnchangedKeeps DEF LookupKey
<1>3. CASE UpdateLastUsed(q)
  BY <1>3, StampInv
<1>4. CASE Admit(q)
  BY <1>4, AdmitInv, UnchangedKeeps DEF Admit
<1>5. CASE InsertKey(q)
  BY <1>5, InsertInv
<1>6. CASE AuditCreation(q)
  BY <1>6, AuditCreationInv, UnchangedKeeps DEF AuditCreation
<1>7. CASE FindKey(q)
  BY <1>7, FindInv, UnchangedKeeps DEF FindKey
<1>8. CASE RevokeKey(q)
  BY <1>8, RevokeInv
<1>9. CASE AuditRevocation(q)
  BY <1>9, AuditRevocationInv, UnchangedKeeps DEF AuditRevocation
<1>10. CASE Mishap(q)
  BY <1>10, MishapInv, UnchangedKeeps DEF Mishap
<1> QED
  BY <1>1, <1>2, <1>3, <1>4, <1>5, <1>6, <1>7, <1>8, <1>9, <1>10 DEF KeySteps

\* The invariant is inductive, and no step disturbs the table.
LEMMA StepInv == Inv /\ [Next]_vars => Inv' /\ TableKept
<1> SUFFICES ASSUME Inv, [Next]_vars PROVE Inv' /\ TableKept
  OBVIOUS
<1>1. KeysInv /\ TokensInv /\ now \in 0..MaxTime
  BY DEF Inv, KeysInv
<1>2. ASSUME NEW q \in Requests, KeySteps(q), UNCHANGED <<now, tokenVars>>
      PROVE  Inv' /\ TableKept
  BY <1>1, <1>2, KeyStepsInv, TokensWait DEF Inv
<1>3. ASSUME NEW q \in Requests, Submit(q) \/ ReviewAudit(q)
      PROVE  Inv' /\ TableKept
  <2>1. /\ Answer(q)
        /\ now' = now /\ UNCHANGED <<api_keys, adminVars, mishaps>> /\ UNCHANGED tokenVars
    BY <1>3 DEF Submit, ReviewAudit
  <2> QED
    BY <1>1, <2>1, AnsweredInv, TokensWait, UnchangedKeeps DEF Inv
<1>4. ASSUME NEW q \in Requests, Restore(q)
      PROVE  Inv' /\ TableKept
  <2>1. /\ pc[q] = "restore" /\ Answer(q)
        /\ now' = now /\ UNCHANGED <<api_keys, adminVars, mishaps>>
    BY <1>4 DEF Restore
  <2>2. KeysInv' /\ TableKept
    BY <1>1, <2>1, AnsweredInv, UnchangedKeeps
  <2>3. key[q] \in Keys
    BY <1>1, <2>1, StoredKeys DEF KeysInv, RequestOK
  <2>4. TokensInv'
    <3>1. CASE UNCHANGED tokenVars
      BY <1>1, <2>1, <3>1, TokensWait
    <3>2. CASE \E t \in Tokens, ttl \in Ttls : IssueToken(t, key[q], ttl)
      BY <1>1, <2>1, <2>3, <3>2, IssueInv
    <3> QED
      BY <1>4, <3>1, <3>2 DEF Restore
  <2> QED
    BY <2>2, <2>4 DEF Inv
<1>5. ASSUME NEW q \in Requests, Redeem(q)
      PROVE  Inv' /\ TableKept
  <2>1. /\ pc[q] = "redeem" /\ Answer(q)
        /\ now' = now /\ UNCHANGED <<api_keys, adminVars, mishaps>>
    BY <1>5 DEF Redeem
  <2>2. PICK t \in Tokens : ValidateToken(t, key[q])
    BY <1>5 DEF Redeem
  <2> QED
    BY <1>1, <2>1, <2>2, AnsweredInv, ValidateInv, UnchangedKeeps DEF Inv
<1>6. ASSUME Count PROVE Inv' /\ TableKept
  <2>1. now' = now /\ CountActive /\ UNCHANGED keyVars /\ UNCHANGED api_keys
    BY <1>6 DEF Count, keyVars
  <2> QED
    BY <1>1, <2>1, CountInv, KeysWait, UnchangedKeeps DEF Inv
<1>7. ASSUME Restart PROVE Inv' /\ TableKept
  <2>1. now' = now /\ ForgetTokens /\ DropRequests /\ UNCHANGED api_keys
    BY <1>7 DEF Restart, DropRequests
  <2> QED
    BY <1>1, <2>1, ForgetInv, DropRequestsInv, UnchangedKeeps DEF Inv
<1>8. ASSUME Tick PROVE Inv' /\ TableKept
  <2>1. now' \in 0..MaxTime /\ now <= now' /\ UNCHANGED keyVars /\ UNCHANGED tokenVars /\ UNCHANGED api_keys
    BY <1>1, <1>8 DEF Tick, Pass, keyVars
  <2> QED
    BY <1>1, <2>1, KeysWait, TokensWait, UnchangedKeeps DEF Inv
<1>9. ASSUME UNCHANGED vars PROVE Inv' /\ TableKept
  <2>1. now' = now /\ UNCHANGED keyVars /\ UNCHANGED tokenVars /\ UNCHANGED api_keys
    BY <1>9 DEF vars, keyVars
  <2>2. now' \in 0..MaxTime /\ now <= now'
    BY <1>1, <2>1
  <2> QED
    BY <1>1, <2>1, <2>2, KeysWait, TokensWait, UnchangedKeeps DEF Inv
<1> QED
  BY <1>2, <1>3, <1>4, <1>5, <1>6, <1>7, <1>8, <1>9 DEF Next

\* Every reachable state satisfies the invariant.
LEMMA AlwaysInv == Spec => []Inv
<1>1. Init => Inv
  BY KeysStart, TokensStart DEF Inv, Init
<1>2. Inv /\ [Next]_vars => Inv'
  BY StepInv
<1> QED
  BY <1>1, <1>2, PTL DEF Spec

-----------------------------------------------------------------------------
(* What it says of the service.                                            *)

\* The tables of keys and tokens, the log and the requests have their types.
THEOREM TypesHold == Spec => []TypeOK
<1>1. Inv => TypeOK
  BY DEF Inv, KeysInv, TokensInv, TypeOK
<1> QED
  BY <1>1, AlwaysInv, PTL

\* The policy that a router asks is never wider than the one of the handler
\* behind it (PolicyService._role_permissions and _backup_classification_roles).
LEMMA RoutersAreStricter ==
  ASSUME NEW role, NEW c \in Classifications
  PROVE  /\ Authorized(role, PermissionOf("submit")) => EvaluateBackup(role, c)
         /\ Authorized(role, PermissionOf("restore")) => EvaluateRestore(role, c)
BY DEF Authorized, PermissionOf, Permissions, Privileged, EvaluateBackup, BackupRoles, EvaluateRestore

\* Whatever keys are created, revoked or expire while requests are under way,
\* an operation is reached only by a request whose key was good when it came
\* and whose role both the router and the handler let through.
THEOREM OnlyEntitledGetIn == Spec => []AdmittedIsEntitled
<1>1. Inv => AdmittedIsEntitled
  <2> SUFFICES ASSUME Inv, NEW q \in Requests, pc[q] \in Jobs
               PROVE  /\ key[q] \in Stored
                      /\ ~doomed[q]
                      /\ Authorized(RoleOf(q), PermissionOf(pc[q]))
                      /\ \A c \in Classifications :
                           /\ pc[q] = "submit" => EvaluateBackup(RoleOf(q), c)
                           /\ pc[q] = "restore" => EvaluateRestore(RoleOf(q), c)
    BY DEF AdmittedIsEntitled
  <2>1. RequestOK(q) /\ pc[q] \notin {"idle", "lookup"}
    BY DEF Inv, KeysInv, Jobs
  <2>2. key[q] \in Stored /\ ~doomed[q] /\ Authorized(RoleOf(q), PermissionOf(pc[q]))
    BY <2>1 DEF RequestOK
  <2> QED
    BY <2>2, RoutersAreStricter
<1> QED
  BY <1>1, AlwaysInv, PTL

\* A raw key is never handed out, and a revocation never confirmed, before the
\* log and the table say so.
THEOREM AnswersCanBeReliedOn == Spec => []AnswersAreTrue
<1>1. Inv => AnswersAreTrue
  BY DEF Inv, KeysInv
<1> QED
  BY <1>1, AlwaysInv, PTL

\* A token opens what it was issued for, to whom it was issued, while it
\* lives: purges, attempts of others and restarts included.
THEOREM TokensOpenOnlyTheirOwn == Spec => []TokensAreGood
<1>1. Inv => TokensAreGood
  <2> SUFFICES ASSUME Inv, NEW t \in Tokens, NEW k \in Keys
               PROVE  Grants(t, k) <=> Good(t) /\ issued[t].actor = k
    BY DEF TokensAreGood
  <2>1. TokensInv /\ now \in 0..MaxTime
    BY DEF Inv, KeysInv
  <2>2. CASE t \in held
    <3>1. records[t].actor = issued[t].actor /\ issued[t].actor # NoKey
      BY <2>1, <2>2 DEF TokensInv
    <3> QED
      BY <2>1, <2>2, <3>1, ExpiredIsNotGood DEF Grants, MayUse
  <2>3. CASE t \notin held
    BY <2>1, <2>3 DEF TokensInv, Grants
  <2> QED
    BY <2>2, <2>3
<1> QED
  BY <1>1, AlwaysInv, PTL

\* Nothing that is done to the row of a revoked key makes it admit again.
THEOREM RevokedForGood == Spec => RevocationIsForever
<1>1. Inv /\ [Next]_vars => [\A k \in Stored : ~Active(k) => ~Active(k)']_vars
  BY StepInv DEF TableKept
<1> QED
  BY <1>1, AlwaysInv, PTL DEF Spec, RevocationIsForever

\* Nothing that is done to the row of a key takes its use away.
THEOREM UsesLast == Spec => UsesAreNotLost
<1>1. Inv /\ [Next]_vars => [\A k \in Stored : api_keys[k].used => api_keys'[k].used]_vars
  BY StepInv DEF TableKept
<1> QED
  BY <1>1, AlwaysInv, PTL DEF Spec, UsesAreNotLost
=============================================================================
