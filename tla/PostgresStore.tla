--------------------------- MODULE PostgresStore ---------------------------
(***************************************************************************)
(* internal/repository/postgres.  One SQL statement is one step.  A row    *)
(* whose expires_at has passed stays until the janitor deletes it, so      *)
(* every statement that reads looks at expires_at itself.                  *)
(***************************************************************************)
EXTENDS StoreState

OnPostgres == backend = "postgres" /\ UNCHANGED <<backend, now, index, pipe, update>>

\* expires_at > now().
PostgresLive(row) == row # None /\ row.expires > now

\* DELETE ... WHERE expires_at < now(), one statement per table; either may
\* fail and be repeated at the next tick.
PostgresJanitor ==
    LET kept(rows) == [id \in Ids |-> IF rows[id] # None /\ rows[id].expires < now THEN None ELSE rows[id]] IN
    /\ OnPostgres /\ UNCHANGED <<rules, disabled, settings, walk, reply>>
    /\ masking' \in {masking, kept(masking)} /\ audit' \in {audit, kept(audit)}

PostgresPutMaskingState(codec, id, st) ==
    /\ OnPostgres /\ Answer(<<"ok">>)
    /\ masking' = [masking EXCEPT ![id] =
                      [payload |-> Codec!Encode(codec, st), expires |-> now + MaskingTTL]]
    /\ UNCHANGED <<audit, rules, disabled, settings, walk>>

PostgresGetMaskingState(codec, id) ==
    /\ OnPostgres /\ UNCHANGED <<masking, audit, rules, disabled, settings, walk>>
    /\ Answer(IF PostgresLive(masking[id]) THEN Codec!Decode(codec, masking[id].payload) ELSE <<"not found">>)

PostgresDeleteMaskingState(id) ==
    /\ OnPostgres /\ masking' = [masking EXCEPT ![id] = None] /\ Answer(<<"ok">>)
    /\ UNCHANGED <<audit, rules, disabled, settings, walk>>

\* INSERT ... ON CONFLICT DO UPDATE.
PostgresPutAuditRecord(id, nanos) ==
    /\ OnPostgres
    /\ audit' = [audit EXCEPT ![id] = NewRecord(nanos)]
    /\ UNCHANGED <<masking, rules, disabled, settings, walk, reply>>

PostgresGetAuditRecord(id) ==
    /\ OnPostgres /\ UNCHANGED <<masking, audit, rules, disabled, settings, walk>>
    /\ Answer(IF PostgresLive(audit[id]) THEN <<"record", audit[id]>> ELSE <<"not found">>)

\* UPDATE ... SET record = jsonb_set(...) WHERE expires_at > now().
PostgresSetAuditResponseTexts(id, texts) ==
    LET affected == PostgresLive(audit[id]) IN
    /\ OnPostgres /\ Answer(IF affected THEN <<"ok">> ELSE <<"not found">>)
    /\ audit' = IF affected THEN [audit EXCEPT ![id].texts = texts] ELSE audit
    /\ UNCHANGED <<masking, rules, disabled, settings, walk>>

\* SELECT ... WHERE (ts, request_id) < cursor ORDER BY ts DESC, request_id DESC.
PostgresListAuditRecords ==
    /\ OnPostgres /\ walk.phase = "ready" /\ Page({id \in Ids : PostgresLive(audit[id])})
    /\ UNCHANGED <<masking, audit, rules, disabled, settings, reply>>

-----------------------------------------------------------------------------

PostgresReadRules ==
    /\ OnPostgres /\ UNCHANGED <<masking, audit, rules, disabled, settings, walk>>
    /\ \/ Answer(<<"rules", rules>>)
       \/ \E id \in RuleIds : Answer(IF rules[id] = None THEN <<"not found">> ELSE <<"rule", rules[id]>>)

\* Mutant: the insert overwrites the row it conflicts with.
PostgresCreateRuleUpserts(id, c) ==
    /\ OnPostgres /\ Answer(IF rules[id] = None THEN <<"ok">> ELSE <<"already exists">>)
    /\ rules' = [rules EXCEPT ![id] = c]
    /\ UNCHANGED <<masking, audit, disabled, settings, walk>>

\* ON CONFLICT DO NOTHING; the number of rows tells who created the rule.
PostgresCreateRule(id, c) ==
    LET affected == rules[id] = None IN
    /\ OnPostgres /\ Answer(IF affected THEN <<"ok">> ELSE <<"already exists">>)
    /\ rules' = IF affected THEN [rules EXCEPT ![id] = c] ELSE rules
    /\ UNCHANGED <<masking, audit, disabled, settings, walk>>

PostgresSaveRule(id, c) ==
    /\ OnPostgres /\ rules' = [rules EXCEPT ![id] = c] /\ Answer(<<"ok">>)
    /\ UNCHANGED <<masking, audit, disabled, settings, walk>>

PostgresDeleteRule(id) ==
    LET affected == rules[id] # None IN
    /\ OnPostgres /\ Answer(IF affected THEN <<"ok">> ELSE <<"not found">>)
    /\ rules' = [rules EXCEPT ![id] = None]
    /\ UNCHANGED <<masking, audit, disabled, settings, walk>>

PostgresDisabledRules ==
    /\ OnPostgres
    /\ \/ Answer(<<"disabled", disabled>>) /\ disabled' = disabled
       \/ \E id \in RuleIds : Answer(<<"ok">>) /\ disabled' \in {disabled \cup {id}, disabled \ {id}}
    /\ UNCHANGED <<masking, audit, rules, settings, walk>>

PostgresSettings ==
    /\ OnPostgres
    /\ \/ Answer(<<"settings", settings>>) /\ settings' = settings
       \/ \E v \in Values : settings' = v /\ Answer(<<"ok">>)
    /\ UNCHANGED <<masking, audit, rules, disabled, walk>>

PostgresSaveSettingsIfAbsent(v) ==
    LET affected == settings = None IN
    /\ OnPostgres /\ Answer(IF affected THEN <<"written">> ELSE <<"kept">>)
    /\ settings' = IF affected THEN v ELSE settings
    /\ UNCHANGED <<masking, audit, rules, disabled, walk>>
=============================================================================
