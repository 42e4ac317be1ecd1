---------------------------- MODULE RestoreTokens ----------------------------
(***************************************************************************)
(* RestoreAccessTokenService: the access tokens that completed restores    *)
(* hand out and GET /restores/access/{token} redeems.  Its methods run     *)
(* without an await, so each is one step; the records are a dictionary in  *)
(* the memory of the process.                                              *)
(***************************************************************************)
EXTENDS AccessState

CONSTANTS Tokens,     \* the tokens secrets.token_urlsafe yields, each once
          Ttls        \* values of restore_access_token_ttl_seconds

ASSUME TtlsAssumption == Ttls \subseteq Int

VARIABLES records,    \* _records: the expiry and the actor of each token held
          held,       \* the tokens that have a record
          issued      \* history: what each token was issued for

tokenVars == <<records, held, issued>>

NotIssued == [actor |-> NoKey, at |-> -1, ttl |-> 0]
NoRecord == [actor |-> NoKey, expires_at |-> 0]

IsIssued(t) == issued[t] # NotIssued

\* What is left of a token whose record went with the process.
Lost == [actor |-> NoKey, at |-> -1, ttl |-> 1]

TokensInit ==
  /\ records = [t \in Tokens |-> NoRecord]
  /\ held = {}
  /\ issued = [t \in Tokens |-> NotIssued]

-----------------------------------------------------------------------------
\* Mistake: the last second counts.
ExpiredLate(t) == records[t].expires_at < now

Expired(t) == records[t].expires_at <= now

\* _purge_expired.
Unexpired == {t \in held : ~Expired(t)}

\* Mistake: the wrong sign.
ExpiresBefore(ttl) == now - (IF ttl <= 0 THEN 1 ELSE ttl)

\* A ttl of zero or less counts as one second.
ExpiresAt(ttl) == now + (IF ttl <= 0 THEN 1 ELSE ttl)

Keep(kept) ==
  /\ held' = kept
  /\ records' = [t \in Tokens |-> IF t \in kept THEN records[t] ELSE NoRecord]

IssueToken(t, actor, ttl) ==
  LET record == [actor |-> actor, expires_at |-> ExpiresAt(ttl)] IN
  /\ ~IsIssued(t)
  /\ held' = Unexpired \cup {t}
  /\ records' = [s \in Tokens |-> CASE s = t -> record
                                    [] s \in Unexpired -> records[s]
                                    [] OTHER -> NoRecord]
  /\ issued' = [issued EXCEPT ![t] = [actor |-> actor, at |-> now, ttl |-> ttl]]

\* The token of a record with no actor may be used by anybody.
MayUse(actor, t) == records[t].actor = NoKey \/ actor = records[t].actor

Grants(t, actor) == t \in held /\ ~Expired(t) /\ MayUse(actor, t)

\* Mistake: a forbidden attempt uses the token up.
ValidateTokenOnce(t, actor) ==
  Keep(IF Grants(t, actor) THEN held ELSE held \ {t}) /\ UNCHANGED issued

\* validate_token: a record that has expired goes first, before the actor is
\* looked at; a forbidden attempt leaves the record alone.
ValidateToken(t, actor) ==
  Keep(IF t \in held /\ Expired(t) THEN held \ {t} ELSE held) /\ UNCHANGED issued

\* active_record_count.
CountActive == Keep(Unexpired) /\ UNCHANGED issued

\* The dictionary goes with the process.
ForgetTokens ==
  /\ Keep({})
  /\ issued' = [t \in Tokens |-> IF t \in held THEN Lost ELSE issued[t]]

-----------------------------------------------------------------------------
TokensTypeOK ==
  /\ records \in [Tokens -> [actor : Keys \cup {NoKey}, expires_at : Nat]]
  /\ held \subseteq Tokens
  /\ issued \in [Tokens -> [actor : Keys \cup {NoKey}, at : -1..MaxTime, ttl : Ttls \cup {0, 1}]]

\* A token is good for its time to live, which is never less than a second.
Good(t) ==
  /\ issued[t].at >= 0
  /\ now - issued[t].at < (IF issued[t].ttl > 0 THEN issued[t].ttl ELSE 1)
=============================================================================
