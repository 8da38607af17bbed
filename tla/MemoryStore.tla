---------------------------- MODULE MemoryStore ----------------------------
(***************************************************************************)
(* internal/repository/memory: maps under one mutex, so every operation is *)
(* one step; nothing is encoded, nothing survives a restart.               *)
(***************************************************************************)
EXTENDS StoreState

InMemory == backend = "memory" /\ UNCHANGED <<backend, now, index, pipe, update>>

MemoryLive(entry) == entry # None /\ entry.expires >= now

MemoryJanitor ==
    /\ InMemory
    /\ masking' = [id \in Ids |-> IF MemoryLive(masking[id]) THEN masking[id] ELSE None]
    /\ audit' = [id \in Ids |-> IF MemoryLive(audit[id]) THEN audit[id] ELSE None]
    /\ UNCHANGED <<rules, disabled, settings, walk, reply>>

\* The process stops and starts again.
MemoryRestart ==
    /\ InMemory /\ reply' = <<>>
    /\ masking' = [id \in Ids |-> None] /\ audit' = [id \in Ids |-> None]
    /\ rules' = [id \in RuleIds |-> None] /\ disabled' = {} /\ settings' = None
    /\ walk' = [walk EXCEPT !.phase = "idle", !.out = <<>>, !.cursor = None]

MemoryPutMaskingState(id, st) ==
    /\ InMemory /\ Answer(<<"ok">>)
    /\ masking' = [masking EXCEPT ![id] =
                      [payload |-> [enc |-> FALSE, key |-> Plain, data |-> st], expires |-> now + MaskingTTL]]
    /\ UNCHANGED <<audit, rules, disabled, settings, walk>>

MemoryGetMaskingState(id) ==
    /\ InMemory
    /\ Answer(IF MemoryLive(masking[id]) THEN <<"state", masking[id].payload.data>> ELSE <<"not found">>)
    /\ UNCHANGED <<masking, audit, rules, disabled, settings, walk>>

MemoryDeleteMaskingState(id) ==
    /\ InMemory /\ masking' = [masking EXCEPT ![id] = None] /\ Answer(<<"ok">>)
    /\ UNCHANGED <<audit, rules, disabled, settings, walk>>

\* Mutant: the record with the largest position goes.
EvictNewestAudit(entries) ==
    LET kept == {id \in Ids : entries[id] # None}
        newest == CHOOSE d \in kept : \A id \in kept : id = d \/ Before(Position(id), Position(d))
    IN  [entries EXCEPT ![newest] = None]

EvictOldestAudit(entries) ==
    LET kept == {id \in Ids : entries[id] # None}
        oldest == CHOOSE d \in kept : \A id \in kept : id = d \/ Before(Position(d), Position(id))
    IN  [entries EXCEPT ![oldest] = None]

MemoryPutAuditRecord(id, nanos) ==
    LET full == /\ audit[id] = None /\ AuditMaxEntries > 0
                /\ Cardinality({j \in Ids : audit[j] # None}) >= AuditMaxEntries
        room == IF full THEN EvictOldestAudit(audit) ELSE audit
    IN  /\ InMemory
        /\ audit' = [room EXCEPT ![id] = NewRecord(nanos)]
        /\ UNCHANGED <<masking, rules, disabled, settings, walk, reply>>

MemoryGetAuditRecord(id) ==
    /\ InMemory /\ Answer(IF MemoryLive(audit[id]) THEN <<"record", audit[id]>> ELSE <<"not found">>)
    /\ UNCHANGED <<masking, audit, rules, disabled, settings, walk>>

MemorySetAuditResponseTexts(id, texts) ==
    /\ InMemory
    /\ \/ MemoryLive(audit[id]) /\ audit' = [audit EXCEPT ![id].texts = texts] /\ Answer(<<"ok">>)
       \/ ~MemoryLive(audit[id]) /\ audit' = audit /\ Answer(<<"not found">>)
    /\ UNCHANGED <<masking, rules, disabled, settings, walk>>

MemoryListAuditRecords ==
    /\ InMemory /\ walk.phase = "ready" /\ Page({id \in Ids : MemoryLive(audit[id])})
    /\ UNCHANGED <<masking, audit, rules, disabled, settings, reply>>

-----------------------------------------------------------------------------

MemoryReadRules ==
    /\ InMemory
    /\ \/ Answer(<<"rules", rules>>)
       \/ \E id \in RuleIds : Answer(IF rules[id] = None THEN <<"not found">> ELSE <<"rule", rules[id]>>)
    /\ UNCHANGED <<masking, audit, rules, disabled, settings, walk>>

MemoryCreateRule(id, c) ==
    /\ InMemory
    /\ \/ rules[id] # None /\ Answer(<<"already exists">>) /\ rules' = rules
       \/ rules[id] = None /\ Answer(<<"ok">>) /\ rules' = [rules EXCEPT ![id] = c]
    /\ UNCHANGED <<masking, audit, disabled, settings, walk>>

MemorySaveRule(id, c) ==
    /\ InMemory /\ rules' = [rules EXCEPT ![id] = c] /\ Answer(<<"ok">>)
    /\ UNCHANGED <<masking, audit, disabled, settings, walk>>

MemoryDeleteRule(id) ==
    /\ InMemory
    /\ \/ rules[id] = None /\ Answer(<<"not found">>) /\ rules' = rules
       \/ rules[id] # None /\ Answer(<<"ok">>) /\ rules' = [rules EXCEPT ![id] = None]
    /\ UNCHANGED <<masking, audit, disabled, settings, walk>>

MemoryDisabledRules ==
    /\ InMemory
    /\ \/ Answer(<<"disabled", disabled>>) /\ disabled' = disabled
       \/ \E id \in RuleIds : Answer(<<"ok">>) /\ disabled' \in {disabled \cup {id}, disabled \ {id}}
    /\ UNCHANGED <<masking, audit, rules, settings, walk>>

MemorySettings ==
    /\ InMemory
    /\ \/ Answer(<<"settings", settings>>) /\ settings' = settings
       \/ \E v \in Values : settings' = v /\ Answer(<<"ok">>)
    /\ UNCHANGED <<masking, audit, rules, disabled, walk>>

MemorySaveSettingsIfAbsent(v) ==
    /\ InMemory
    /\ \/ settings # None /\ Answer(<<"kept">>) /\ settings' = settings
       \/ settings = None /\ Answer(<<"written">>) /\ settings' = v
    /\ UNCHANGED <<masking, audit, rules, disabled, walk>>
=============================================================================
