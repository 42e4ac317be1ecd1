------------------------------- MODULE ApiKeys -------------------------------
(***************************************************************************)
(* Who gets in: AuthService.authenticate over ApiKeysRepository, the       *)
(* permission check of api/dependencies.py, and the administration of API  *)
(* keys by routes/admin/keys.py.  A request is a slot that passes through  *)
(* require_api_key and require_permission into a handler, one step for     *)
(* each await, and is free again when it has been answered.  A refusal is  *)
(* audited before it is answered: that changes nothing kept here.          *)
(***************************************************************************)
EXTENDS AccessPolicy, AccessState

CONSTANTS Requests,     \* slots for requests under way
          Seeded,       \* the keys that operations have put into the table
          Roles,        \* the roles that keys are given
          Expiries,     \* the times at which keys expire
          MaxMishaps    \* bound: errors, and conflicts of the audit log

ASSUME SeededAssumption == Seeded \subseteq Keys
ASSUME RolesAssumption == "" \notin Roles
ASSUME ExpiriesAssumption == Expiries \subseteq Nat
ASSUME MishapsAssumption == MaxMishaps \in Nat

VARIABLES api_keys,   \* the table: the row of each key id
          shown,      \* the keys whose raw key somebody was given
          told,       \* the keys somebody was told are revoked
          on_record,  \* the entries of the audit log on keys: <<action, key>>
          pc,         \* where each request is
          key,        \* the key of each request
          target,     \* the key each request creates or revokes
          row,        \* the row object of each request's session, as it was loaded
          doomed,     \* history: whether the key of each request was no good when it arrived
          mishaps     \* how many errors and conflicts there were

adminVars == <<shown, told, on_record>>
requestVars == <<pc, key, target, row, doomed>>
keyVars == <<api_keys, adminVars, requestVars, mishaps>>

Never == -1

\* addresses: allowed_ips lists some.  used: last_used_at and last_used_ip are
\* set.  No request writes any column but the last two.
Rows == [role : Roles, expires_at : Expiries \cup {Never}, addresses : BOOLEAN,
         is_active : BOOLEAN, used : BOOLEAN]
NoRow == [role |-> "", expires_at |-> Never, addresses |-> FALSE, is_active |-> FALSE, used |-> FALSE]

\* A row that is new to the table.
NewRows == {r \in Rows : r.is_active /\ ~r.used}

Stored == {k \in Keys : api_keys[k] # NoRow}

\* The operations behind the routers, and the permission each router asks for.
Jobs == {"submit", "restore", "redeem", "review", "create", "revoke"}

PermissionOf(job) ==
  CASE job = "submit"                -> "backups"
    [] job \in {"restore", "redeem"} -> "restores"
    [] job = "review"                -> "audit"
    [] OTHER                         -> "admin"

Places == {"idle", "lookup", "stamp", "welcome", "audit_create", "write", "audit_revoke"} \cup Jobs

\* The first keys come from outside the API, for good and for any address.
KeysInit ==
  /\ \E rows \in [Seeded -> {r \in NewRows : r.expires_at = Never /\ ~r.addresses}] :
       api_keys = [k \in Keys |-> IF k \in Seeded THEN rows[k] ELSE NoRow]
  /\ shown = Seeded
  /\ told = {}
  /\ on_record = {}
  /\ pc = [q \in Requests |-> "idle"]
  /\ key = [q \in Requests |-> NoKey]
  /\ target = [q \in Requests |-> NoKey]
  /\ row = [q \in Requests |-> NoRow]
  /\ doomed = [q \in Requests |-> FALSE]
  /\ mishaps = 0

-----------------------------------------------------------------------------
HasExpired(k) == api_keys[k].expires_at # Never /\ api_keys[k].expires_at <= now

\* Mistake: is_active is not looked at.
AcceptsRevoked(k) == k \in Stored /\ ~HasExpired(k) /\ ~api_keys[k].addresses

\* The conditions of authenticate.  The driver returns the INET[] column as
\* address objects and none of them equals the client's address, a string:
\* a row that lists any address admits nobody.
Accepts(k) ==
  /\ k \in Stored
  /\ api_keys[k].is_active
  /\ ~HasExpired(k)
  /\ ~api_keys[k].addresses

\* Mistake: a commit writes the whole row.
FlushWholeRow(k, old, new) == [api_keys EXCEPT ![k] = new]

\* What a commit writes of an object that was loaded as old and is new by now:
\* the columns that differ, whatever has become of the row since.
Flush(k, old, new) ==
  [api_keys EXCEPT ![k].is_active = IF new.is_active = old.is_active THEN @ ELSE new.is_active,
                   ![k].used = IF new.used = old.used THEN @ ELSE new.used]

RoleOf(q) == api_keys[key[q]].role

\* q goes on to a place, its session with the row object held, or with none.
Load(q, place, held) ==
  /\ pc' = [pc EXCEPT ![q] = place]
  /\ row' = [row EXCEPT ![q] = held]
  /\ UNCHANGED <<key, doomed>>

Answer(q) ==
  /\ pc' = [pc EXCEPT ![q] = "idle"]
  /\ key' = [key EXCEPT ![q] = NoKey]
  /\ target' = [target EXCEPT ![q] = NoKey]
  /\ row' = [row EXCEPT ![q] = NoRow]
  /\ doomed' = [doomed EXCEPT ![q] = FALSE]

OneMishap == mishaps < MaxMishaps /\ mishaps' = mishaps + 1

\* What makes a key no good, whatever the service makes of it.
NoGood(k) ==
  \/ k \notin Stored
  \/ ~api_keys[k].is_active
  \/ api_keys[k].expires_at \in 0..now
  \/ api_keys[k].addresses

\* A request comes with a raw key that was handed out once, or with a bad one.
Arrive(q, k) ==
  /\ pc[q] = "idle"
  /\ pc' = [pc EXCEPT ![q] = "lookup"]
  /\ key' = [key EXCEPT ![q] = k]
  /\ doomed' = [doomed EXCEPT ![q] = NoGood(k)]
  /\ UNCHANGED <<target, row, api_keys, adminVars, mishaps>>

\* authenticate up to the end of get_by_hash and of the checks on its row.
LookupKey(q) ==
  /\ pc[q] = "lookup"
  /\ IF Accepts(key[q])
     THEN Load(q, "stamp", api_keys[key[q]]) /\ UNCHANGED target
     ELSE Answer(q)
  /\ UNCHANGED <<api_keys, adminVars, mishaps>>

\* update_last_used, on the row as the lookup left it.
UpdateLastUsed(q) ==
  /\ pc[q] = "stamp"
  /\ LET stamped == [row[q] EXCEPT !.used = TRUE] IN
       api_keys' = Flush(key[q], row[q], stamped) /\ Load(q, "welcome", stamped)
  /\ UNCHANGED <<target, adminVars, mishaps>>

\* record_auth_success has returned; authorize, with the role that was read of
\* the row at the start, decides on the operation that was asked for.
Admit(q) ==
  /\ pc[q] = "welcome"
  /\ \E job \in Jobs :
       IF Authorized(row[q].role, PermissionOf(job))
       THEN Load(q, job, NoRow) /\ UNCHANGED target
       ELSE Answer(q)
  /\ UNCHANGED <<api_keys, adminVars, mishaps>>

\* create_key of the repository: the key is good from its commit on.
InsertKey(q) ==
  /\ pc[q] = "create"
  /\ \E k \in Keys \ Stored, new \in NewRows :
       /\ api_keys' = [api_keys EXCEPT ![k] = new]
       /\ target' = [target EXCEPT ![q] = k]
  /\ Load(q, "audit_create", NoRow)
  /\ UNCHANGED <<adminVars, mishaps>>

\* Mistake: the raw key is answered whatever becomes of the audit entry.
AuditCreationBestEffort(q) ==
  /\ pc[q] = "audit_create"
  /\ shown' = shown \cup {target[q]}
  /\ on_record' \in {on_record, on_record \cup {<<"api_key_created", target[q]>>}}
  /\ Answer(q)
  /\ UNCHANGED <<api_keys, told, mishaps>>

\* record_admin_action, then the answer with the raw key.  A conflict in the
\* audit log rolls the session back, and the row can no longer be read for the
\* answer; nor can an answer be made of a row that lists addresses.
AuditCreation(q) ==
  /\ pc[q] = "audit_create"
  /\ on_record' = on_record \cup {<<"api_key_created", target[q]>>}
  /\ \/ /\ ~api_keys[target[q]].addresses
        /\ shown' = shown \cup {target[q]}
        /\ UNCHANGED mishaps
     \/ /\ api_keys[target[q]].addresses
        /\ UNCHANGED <<shown, mishaps>>
     \/ /\ OneMishap
        /\ UNCHANGED shown
  /\ Answer(q)
  /\ UNCHANGED <<api_keys, told>>

\* revoke_key of the repository up to its select; a key that is not there is
\* answered 404.
FindKey(q) ==
  /\ pc[q] = "revoke"
  /\ \E k \in Keys :
       \/ k \notin Stored /\ Answer(q)
       \/ /\ k \in Stored
          /\ Load(q, "write", api_keys[k])
          /\ target' = [target EXCEPT ![q] = k]
  /\ UNCHANGED <<api_keys, adminVars, mishaps>>

\* revoke_key from there to its commit.
RevokeKey(q) ==
  /\ pc[q] = "write"
  /\ api_keys' = Flush(target[q], row[q], [row[q] EXCEPT !.is_active = FALSE])
  /\ Load(q, "audit_revoke", NoRow)
  /\ UNCHANGED <<target, adminVars, mishaps>>

\* record_admin_action, then the answer, as for a creation.
AuditRevocation(q) ==
  /\ pc[q] = "audit_revoke"
  /\ on_record' = on_record \cup {<<"api_key_revoked", target[q]>>}
  /\ \/ /\ ~api_keys[target[q]].addresses
        /\ told' = told \cup {target[q]}
        /\ UNCHANGED mishaps
     \/ /\ api_keys[target[q]].addresses
        /\ UNCHANGED <<told, mishaps>>
     \/ /\ OneMishap
        /\ UNCHANGED told
  /\ Answer(q)
  /\ UNCHANGED <<api_keys, shown>>

\* The database fails or the client goes away; so does a conflict in the log
\* under record_auth_success, which leaves no principal to be read: 401.
Mishap(q) ==
  /\ pc[q] # "idle"
  /\ OneMishap
  /\ Answer(q)
  /\ UNCHANGED <<api_keys, shown, told, on_record>>

\* The requests under way go with the process.
DropRequests ==
  /\ pc' = [q \in Requests |-> "idle"]
  /\ key' = [q \in Requests |-> NoKey]
  /\ target' = [q \in Requests |-> NoKey]
  /\ row' = [q \in Requests |-> NoRow]
  /\ doomed' = [q \in Requests |-> FALSE]
  /\ OneMishap
  /\ UNCHANGED <<api_keys, shown, told, on_record>>

KeySteps(q) ==
  \/ \E k \in shown \cup {NoKey} : Arrive(q, k)
  \/ LookupKey(q)
  \/ UpdateLastUsed(q)
  \/ Admit(q)
  \/ InsertKey(q)
  \/ AuditCreation(q)
  \/ FindKey(q)
  \/ RevokeKey(q)
  \/ AuditRevocation(q)
  \/ Mishap(q)

-----------------------------------------------------------------------------
KeysTypeOK ==
  /\ api_keys \in [Keys -> Rows \cup {NoRow}]
  /\ shown \subseteq Keys
  /\ told \subseteq Keys
  /\ on_record \subseteq {"api_key_created", "api_key_revoked"} \X Keys
  /\ pc \in [Requests -> Places]
  /\ key \in [Requests -> Keys \cup {NoKey}]
  /\ target \in [Requests -> Keys \cup {NoKey}]
  /\ row \in [Requests -> Rows \cup {NoRow}]
  /\ doomed \in [Requests -> BOOLEAN]
  /\ mishaps \in 0..MaxMishaps
=============================================================================
