----------------------------- MODULE Repository -----------------------------
(***************************************************************************)
(* What internal/repository promises its callers, whichever backend keeps  *)
(* the data: masking states and audit records that live for their TTL,     *)
(* custom rules and the disabled set, the settings that are seeded once.   *)
(* Every operation is one atomic step.  A shared backend may fail a call,  *)
(* before or after the call took effect.  The in-memory backend forgets    *)
(* everything in a restart and may give up its oldest audit record.        *)
(***************************************************************************)
EXTENDS Naturals

CONSTANTS
    Ids,           \* request IDs; numbers, so that they are ordered
    States,        \* masking states
    Codecs,        \* the codecs of the replicas: Plain or a key
    Plain,
    Texts,         \* masked response texts
    Timestamps,    \* of audit records, in microseconds
    RuleIds, Contents,
    Values,        \* settings
    MaskingTTL, AuditTTL,
    None           \* nothing stored

VARIABLES
    backend,       \* "memory", "redis" or "postgres", never changes
    now,
    masking,       \* masking[id]: the state, its key and its expiry, or None
    audit,         \* audit[id]: the record of id, or None
    rules,         \* rules[id]: the content of the stored rule, or None
    disabled,      \* the IDs disabled through the API
    settings,      \* the stored settings, or None
    reply          \* the answer to the last call

vars == <<backend, now, masking, audit, rules, disabled, settings, reply>>

Shared == backend # "memory"

Init ==
    /\ backend \in {"memory", "redis", "postgres"}
    /\ now = 0
    /\ masking = [id \in Ids |-> None] /\ audit = [id \in Ids |-> None]
    /\ rules = [id \in RuleIds |-> None] /\ disabled = {} /\ settings = None
    /\ reply = <<>>

\* The caller gets the answer, or an error after the fact.
Answer(a) == reply' = a \/ (Shared /\ reply' = <<"error">>)

\* At the very instant of expiry a backend may go either way.
MayBeLive(entry) == entry # None /\ entry.expires >= now
MayBeGone(entry) == entry = None \/ entry.expires <= now

Tick ==
    /\ now' = now + 1
    /\ UNCHANGED <<backend, masking, audit, rules, disabled, settings, reply>>

Unavailable ==
    /\ Shared /\ reply' = <<"error">>
    /\ UNCHANGED <<backend, now, masking, audit, rules, disabled, settings>>

Restart ==
    /\ ~Shared
    /\ masking' = [id \in Ids |-> None] /\ audit' = [id \in Ids |-> None]
    /\ rules' = [id \in RuleIds |-> None] /\ disabled' = {} /\ settings' = None
    /\ reply' = <<>> /\ UNCHANGED <<backend, now>>

Swept(entries) ==
    \E gone \in SUBSET {id \in Ids : MayBeGone(entries[id])} :
       entries' = [id \in Ids |-> IF id \in gone THEN None ELSE entries[id]]

Expire ==
    /\ Swept(masking) /\ Swept(audit)
    /\ UNCHANGED <<backend, now, rules, disabled, settings, reply>>

-----------------------------------------------------------------------------
(* MaskingStateStore.  A shared backend keeps the state under the caller's  *)
(* codec.                                                                   *)

PutMaskingState(codec, id, st) ==
    /\ \E key \in {codec, Plain} :
          /\ key = codec \/ ~Shared
          /\ masking' = [masking EXCEPT ![id] =
                            [state |-> st, key |-> key, expires |-> now + MaskingTTL]]
    /\ Answer(<<"ok">>) /\ UNCHANGED <<backend, now, audit, rules, disabled, settings>>

GetMaskingState(codec, id) ==
    /\ \/ MayBeLive(masking[id]) /\ masking[id].key \in {codec, Plain} /\ Answer(<<"state", masking[id].state>>)
       \/ MayBeLive(masking[id]) /\ masking[id].key \notin {codec, Plain} /\ Answer(<<"undecryptable">>)
       \/ MayBeGone(masking[id]) /\ Answer(<<"not found">>)
    /\ UNCHANGED <<backend, now, masking, audit, rules, disabled, settings>>

DeleteMaskingState(id) ==
    /\ masking' = [masking EXCEPT ![id] = None] /\ Answer(<<"ok">>)
    /\ UNCHANGED <<backend, now, audit, rules, disabled, settings>>

-----------------------------------------------------------------------------
(* AuditStore.                                                              *)

\* (Timestamp, RequestID) order.
Older(i, j) == audit[i].ts < audit[j].ts \/ (audit[i].ts = audit[j].ts /\ i < j)

Oldest(d) == audit[d] # None /\ \A id \in Ids : audit[id] # None => (id = d \/ Older(d, id))

New(ts) == [ts |-> ts, texts |-> None, expires |-> now + AuditTTL]

\* An upsert.  Its answer carries no information about the store.
PutAuditRecord(id, ts) ==
    /\ \/ audit' = [audit EXCEPT ![id] = New(ts)]
       \/ \E d \in Ids :
             /\ ~Shared /\ audit[id] = None /\ Oldest(d)
             /\ audit' = [audit EXCEPT ![d] = None, ![id] = New(ts)]
    /\ UNCHANGED <<backend, now, masking, rules, disabled, settings, reply>>

GetAuditRecord(id) ==
    /\ \/ MayBeLive(audit[id]) /\ Answer(<<"record", audit[id]>>)
       \/ MayBeGone(audit[id]) /\ Answer(<<"not found">>)
    /\ UNCHANGED <<backend, now, masking, audit, rules, disabled, settings>>

\* A live record gets the texts and keeps its expiry.  Last write wins: if a
\* retry replaced the record while the call was under way, the earlier record
\* may come back.  Without a live record nothing changes.
SetAuditResponseTexts(id, texts) ==
    /\ \/ /\ MayBeLive(audit[id]) /\ Answer(<<"ok">>)
          /\ \E ts \in 0..audit[id].ts :
                audit' = [audit EXCEPT ![id].ts = ts, ![id].texts = texts]
       \/ MayBeGone(audit[id]) /\ Answer(<<"not found">>) /\ audit' = audit
    /\ UNCHANGED <<backend, now, masking, rules, disabled, settings>>

-----------------------------------------------------------------------------
(* RuleStore and SettingsStore.                                             *)

RuleStoreRead ==
    /\ \/ Answer(<<"rules", rules>>) \/ Answer(<<"disabled", disabled>>)
       \/ \E id \in RuleIds : Answer(IF rules[id] = None THEN <<"not found">> ELSE <<"rule", rules[id]>>)
    /\ UNCHANGED <<backend, now, masking, audit, rules, disabled, settings>>

CreateRule(id, c) ==
    /\ \/ rules[id] = None /\ rules' = [rules EXCEPT ![id] = c] /\ Answer(<<"ok">>)
       \/ rules[id] # None /\ rules' = rules /\ Answer(<<"already exists">>)
    /\ UNCHANGED <<backend, now, masking, audit, disabled, settings>>

SaveRule(id, c) ==
    /\ rules' = [rules EXCEPT ![id] = c] /\ Answer(<<"ok">>)
    /\ UNCHANGED <<backend, now, masking, audit, disabled, settings>>

DeleteRule(id) ==
    /\ rules' = [rules EXCEPT ![id] = None]
    /\ Answer(IF rules[id] = None THEN <<"not found">> ELSE <<"ok">>)
    /\ UNCHANGED <<backend, now, masking, audit, disabled, settings>>

SetRuleDisabled(id, off) ==
    /\ disabled' = IF off THEN disabled \cup {id} ELSE disabled \ {id}
    /\ Answer(<<"ok">>) /\ UNCHANGED <<backend, now, masking, audit, rules, settings>>

GetSettings ==
    Answer(<<"settings", settings>>) /\ UNCHANGED <<backend, now, masking, audit, rules, disabled, settings>>

SaveSettings(v) ==
    /\ settings' = v /\ Answer(<<"ok">>)
    /\ UNCHANGED <<backend, now, masking, audit, rules, disabled>>

\* Only one of several booting replicas writes, and never over an API update.
SaveSettingsIfAbsent(v) ==
    /\ settings' = IF settings = None THEN v ELSE settings
    /\ Answer(IF settings = None THEN <<"written">> ELSE <<"kept">>)
    /\ UNCHANGED <<backend, now, masking, audit, rules, disabled>>

Next ==
    \/ Tick \/ Unavailable \/ Restart \/ Expire
    \/ \E id \in Ids :
          \/ \E codec \in Codecs : GetMaskingState(codec, id) \/ \E st \in States : PutMaskingState(codec, id, st)
          \/ DeleteMaskingState(id)
          \/ \E ts \in Timestamps : PutAuditRecord(id, ts)
          \/ GetAuditRecord(id)
          \/ \E texts \in Texts : SetAuditResponseTexts(id, texts)
    \/ RuleStoreRead \/ GetSettings
    \/ \E id \in RuleIds :
          \/ \E c \in Contents : CreateRule(id, c) \/ SaveRule(id, c)
          \/ DeleteRule(id) \/ \E off \in BOOLEAN : SetRuleDisabled(id, off)
    \/ \E v \in Values : SaveSettings(v) \/ SaveSettingsIfAbsent(v)

Spec == Init /\ [][Next]_vars
=============================================================================
