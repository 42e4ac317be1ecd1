------------------------------- MODULE Access -------------------------------
(***************************************************************************)
(* From the API key to the operation: authentication, authorization, the   *)
(* administration of keys, and the tokens that restores hand out, over one *)
(* table, one process and one clock.  What a submission and a restore do   *)
(* beyond the policy and the token is the subject of Gateway.              *)
(***************************************************************************)
EXTENDS ApiKeys, RestoreTokens

vars == <<now, keyVars, tokenVars>>

Init ==
  /\ now = 0
  /\ KeysInit
  /\ TokensInit

\* A submission has nothing to do with keys and tokens.  Its policy is asked in
\* Gateway; that the tables let through who comes here is AdmittedIsEntitled.
Submit(q) ==
  /\ pc[q] = "submit"
  /\ Answer(q)
  /\ UNCHANGED <<now, api_keys, adminVars, mishaps, tokenVars>>

\* A restore that the policy allows, and that does not fail on its way, ends
\* with a token for its principal.
Restore(q) ==
  /\ pc[q] = "restore"
  /\ \/ /\ \E c \in Classifications : EvaluateRestore(RoleOf(q), c)
        /\ \E t \in Tokens, ttl \in Ttls : IssueToken(t, key[q], ttl)
     \/ UNCHANGED tokenVars
  /\ Answer(q)
  /\ UNCHANGED <<now, api_keys, adminVars, mishaps>>

\* use_restore_access_token.
Redeem(q) ==
  /\ pc[q] = "redeem"
  /\ \E t \in Tokens : ValidateToken(t, key[q])
  /\ Answer(q)
  /\ UNCHANGED <<now, api_keys, adminVars, mishaps>>

\* The audit log is read, or validated.
ReviewAudit(q) ==
  /\ pc[q] = "review"
  /\ Answer(q)
  /\ UNCHANGED <<now, api_keys, adminVars, mishaps, tokenVars>>

Count == CountActive /\ UNCHANGED <<now, keyVars>>

Restart == ForgetTokens /\ DropRequests /\ UNCHANGED now

Tick == Pass /\ UNCHANGED <<keyVars, tokenVars>>

Next ==
  \/ \E q \in Requests : KeySteps(q) /\ UNCHANGED <<now, tokenVars>>
  \/ \E q \in Requests : Submit(q) \/ Restore(q) \/ Redeem(q) \/ ReviewAudit(q)
  \/ Count
  \/ Restart
  \/ Tick

Spec == Init /\ [][Next]_vars

-----------------------------------------------------------------------------
TypeOK ==
  /\ now \in 0..MaxTime
  /\ KeysTypeOK
  /\ TokensTypeOK

Active(k) == api_keys[k].is_active

\* A revoked key stays revoked, although requests that loaded its row before
\* the revocation stamp it afterwards (update_last_used, revoke_key).
RevocationIsForever ==
  [][\A k \in Stored : ~Active(k) => ~Active(k)']_vars

\* A use of a key stays on its row, although a revocation that loaded the row
\* before the use is committed after it (update_last_used, revoke_key).
UsesAreNotLost ==
  [][\A k \in Stored : api_keys[k].used => api_keys'[k].used]_vars

\* A request that has reached an operation belongs to a key that was stored,
\* active, not expired and free of addresses when the request arrived; and the
\* role that passed the router is one the policy of the handler agrees to, of
\* whatever classification the backup is (require_api_key, require_permission,
\* PolicyService: "RBAC already gates `restores`").
AdmittedIsEntitled ==
  \A q \in Requests : pc[q] \in Jobs =>
    /\ key[q] \in Stored
    /\ ~doomed[q]
    /\ Authorized(RoleOf(q), PermissionOf(pc[q]))
    /\ \A c \in Classifications :
         /\ pc[q] = "submit" => EvaluateBackup(RoleOf(q), c)
         /\ pc[q] = "restore" => EvaluateRestore(RoleOf(q), c)

\* Who is given a raw key, or told that a key is revoked, can rely on it: the
\* audit log says so, and the key is revoked (routes/admin/keys.py create_key
\* and revoke_key).
AnswersAreTrue ==
  /\ \A k \in shown \ Seeded : <<"api_key_created", k>> \in on_record
  /\ \A k \in told : <<"api_key_revoked", k>> \in on_record /\ ~Active(k)

\* A token is granted to the key whose restore it was issued for and to nobody
\* else, during its time to live and no longer, whatever is purged meanwhile
\* and whoever else tries it; a restart takes it away for good (validate_token,
\* _purge_expired).
TokensAreGood ==
  \A t \in Tokens, k \in Keys : Grants(t, k) <=> Good(t) /\ issued[t].actor = k
=============================================================================
