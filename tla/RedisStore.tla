----------------------------- MODULE RedisStore -----------------------------
(***************************************************************************)
(* internal/repository/redis.  One Redis command is one step.  A pipeline  *)
(* is not a transaction: the commands of other clients run in between, and *)
(* a lost connection cuts it short.  Key expiry, ZSET order, SET with NX   *)
(* or KEEPTTL are external.                                                *)
(***************************************************************************)
EXTENDS StoreState

OnRedis == backend = "redis" /\ UNCHANGED <<backend, now>>

\* A key with a TTL vanishes when the TTL is over.
RedisLive(entry) == entry # None /\ entry.expires > now

RedisPutMaskingState(codec, id, st) ==
    /\ OnRedis /\ Answer(<<"ok">>)
    /\ masking' = [masking EXCEPT ![id] =
                      [payload |-> Codec!Encode(codec, st), expires |-> now + MaskingTTL]]
    /\ UNCHANGED <<audit, index, rules, disabled, settings, calls>>

RedisGetMaskingState(codec, id) ==
    /\ OnRedis /\ UNCHANGED <<tables, calls>>
    /\ Answer(IF RedisLive(masking[id]) THEN Codec!Decode(codec, masking[id].payload) ELSE <<"not found">>)

RedisDeleteMaskingState(id) ==
    /\ OnRedis /\ masking' = [masking EXCEPT ![id] = None] /\ Answer(<<"ok">>)
    /\ UNCHANGED <<audit, index, rules, disabled, settings, calls>>

-----------------------------------------------------------------------------
(* Audit records: the STRING key holds the record, the ZSET orders them.    *)

ZRemRangeByScore(score) ==
    [id \in Ids |-> IF index[id] # None /\ index[id] < score THEN None ELSE index[id]]

\* Mutant: the pipeline writes the index before the record.
RedisPutIndexFirst(id, nanos) ==
    /\ OnRedis /\ pipe = None
    /\ pipe' = [next |-> "zadd", id |-> id, nanos |-> nanos, trim |-> now - AuditTTL]
    /\ UNCHANGED <<tables, update, walk, reply>>

RedisPutAuditRecord(id, nanos) ==
    /\ OnRedis /\ pipe = None
    /\ pipe' = [next |-> "set", id |-> id, nanos |-> nanos, trim |-> now - AuditTTL]
    /\ UNCHANGED <<tables, update, walk, reply>>

RedisPipelineSet ==
    /\ OnRedis /\ pipe # None /\ pipe.next = "set"
    /\ audit' = [audit EXCEPT ![pipe.id] = NewRecord(pipe.nanos)]
    /\ pipe' = [pipe EXCEPT !.next = "zadd"]
    /\ UNCHANGED <<masking, index, rules, disabled, settings, update, walk, reply>>

RedisPipelineIndex ==
    /\ OnRedis /\ pipe # None /\ pipe.next # "set"
    /\ \/ /\ pipe.next = "zadd" /\ pipe' = [pipe EXCEPT !.next = "zrem"]
          /\ index' = [index EXCEPT ![pipe.id] = Truncate(pipe.nanos)]
       \/ pipe.next = "zrem" /\ pipe' = None /\ index' = ZRemRangeByScore(pipe.trim)
    /\ UNCHANGED <<masking, audit, rules, disabled, settings, update, walk, reply>>

RedisGetAuditRecord(id) ==
    /\ OnRedis /\ UNCHANGED <<tables, calls>>
    /\ Answer(IF RedisLive(audit[id]) THEN <<"record", audit[id]>> ELSE <<"not found">>)

\* SetAuditResponseTexts reads the record ...
RedisGetForUpdate(id, texts) ==
    /\ OnRedis /\ update = None
    /\ \/ /\ RedisLive(audit[id]) /\ reply' = reply
          /\ update' = [id |-> id, ts |-> audit[id].ts, texts |-> texts]
       \/ ~RedisLive(audit[id]) /\ Answer(<<"not found">>) /\ update' = None
    /\ UNCHANGED <<tables, pipe, walk>>

\* Mutant: the Set starts the TTL again.
RedisSetFreshTTL ==
    /\ OnRedis /\ update # None /\ update' = None /\ Answer(<<"ok">>)
    /\ audit' = [audit EXCEPT ![update.id] =
                    [ts |-> update.ts, texts |-> update.texts, expires |-> now + AuditTTL]]
    /\ UNCHANGED <<masking, index, rules, disabled, settings, pipe, walk>>

\* ... and writes it back with KEEPTTL.  A key that is no longer there has no
\* TTL to keep.
RedisSetKeepTTL ==
    /\ OnRedis /\ update # None /\ update' = None /\ Answer(<<"ok">>)
    /\ audit' = [audit EXCEPT ![update.id] =
                    [ts |-> update.ts, texts |-> update.texts,
                     expires |-> IF RedisLive(audit[update.id]) THEN audit[update.id].expires ELSE NoExpiry]]
    /\ UNCHANGED <<masking, index, rules, disabled, settings, pipe, walk>>

\* The connection breaks in the middle of a call.
RedisConnectionLost ==
    /\ OnRedis /\ (pipe # None \/ update # None)
    /\ pipe' = None /\ update' = None /\ reply' = <<"error">>
    /\ UNCHANGED <<tables, walk>>

-----------------------------------------------------------------------------
(* ListAuditRecords walks the index in bounded rounds; each round reads a   *)
(* batch of the index and then the records of the batch.                    *)

Batch == IF ClampAuditLimit + 1 > AuditListMinBatch THEN ClampAuditLimit + 1 ELSE AuditListMinBatch

ZPosition(id) == <<index[id], id>>

\* Mutant: the order of the index is forgotten.
ZRangeByScore(bound) ==
    LET S == {ZPosition(id) : id \in {j \in Ids : index[j] # None /\ (bound = None \/ index[j] <= bound)}}
    IN  {p \in S : Cardinality({q \in S : Before(q, p)}) < Batch}

\* ZREVRANGEBYSCORE -inf bound LIMIT 0 batch.
ZRevRangeByScore(bound) ==
    LET S == {ZPosition(id) : id \in {j \in Ids : index[j] # None /\ (bound = None \/ index[j] <= bound)}}
    IN  {p \in S : Cardinality({q \in S : Before(p, q)}) < Batch}

LastOf(S) == CHOOSE p \in S : \A q \in S : q = p \/ Before(p, q)

RedisListAuditRecords ==
    /\ OnRedis /\ walk.phase = "ready"
    /\ walk' = [walk EXCEPT !.phase = "index", !.round = 0, !.seen = {}, !.collected = <<>>, !.last = None,
                            !.bound = IF walk.cursor = None THEN None ELSE walk.cursor[1]]
    /\ index' = ZRemRangeByScore(now - AuditTTL)
    /\ UNCHANGED <<masking, audit, rules, disabled, settings, pipe, update, reply>>

RedisListIndex ==
    LET zs == ZRevRangeByScore(walk.bound)
        fresh == {z \in zs : z[2] \notin walk.seen}
        minScore == LastOf(zs)[1]
    IN  /\ OnRedis /\ walk.phase = "index"
        /\ \/ zs = {} /\ DeliverPage(walk.collected, None)
           \/ /\ zs # {}
              /\ walk' = [walk EXCEPT !.phase = "records",
                            !.last = IF fresh = {} THEN @ ELSE LastOf(fresh),
                            !.ids = {z \in fresh : AfterCursor(z)},
                            !.exhausted = Cardinality(zs) < Batch \/ fresh = {},
                            !.bound = minScore,
                            !.seen = {z[2] : z \in {y \in zs : y[1] = minScore}}]
        /\ UNCHANGED <<tables, pipe, update, reply>>

\* MGET, in the order of the index, skips records that expired since; the
\* filters are applied here.  A call that used up its rounds resumes from the
\* last index position it examined.
RedisListRecords ==
    LET found == Listing({z \in walk.ids : RedisLive(audit[z[2]]) /\ Matches(z[2])})
        collected == walk.collected \o [n \in DOMAIN found |-> Position(found[n][2])]
        next == walk.round + 1
    IN  /\ OnRedis /\ walk.phase = "records"
        /\ IF walk.exhausted \/ next = walk.budget \/ Len(collected) > ClampAuditLimit
             THEN DeliverPage(collected, IF walk.exhausted THEN None ELSE walk.last)
             ELSE walk' = [walk EXCEPT !.phase = "index", !.round = next, !.collected = collected]
        /\ UNCHANGED <<tables, pipe, update, reply>>

-----------------------------------------------------------------------------
(* Rules are a HASH, the disabled IDs a SET, the settings a STRING.         *)

RedisReadRules ==
    /\ OnRedis /\ UNCHANGED <<tables, calls>>
    /\ \/ Answer(<<"rules", rules>>)
       \/ \E id \in RuleIds : Answer(IF rules[id] = None THEN <<"not found">> ELSE <<"rule", rules[id]>>)

\* HSETNX.
RedisCreateRule(id, c) ==
    LET created == rules[id] = None IN
    /\ OnRedis /\ Answer(IF created THEN <<"ok">> ELSE <<"already exists">>)
    /\ rules' = IF created THEN [rules EXCEPT ![id] = c] ELSE rules
    /\ UNCHANGED <<masking, audit, index, disabled, settings, calls>>

\* HSET.
RedisSaveRule(id, c) ==
    /\ OnRedis /\ rules' = [rules EXCEPT ![id] = c] /\ Answer(<<"ok">>)
    /\ UNCHANGED <<masking, audit, index, disabled, settings, calls>>

\* HDEL.
RedisDeleteRule(id) ==
    LET deleted == rules[id] # None IN
    /\ OnRedis /\ Answer(IF deleted THEN <<"ok">> ELSE <<"not found">>)
    /\ rules' = [rules EXCEPT ![id] = None]
    /\ UNCHANGED <<masking, audit, index, disabled, settings, calls>>

\* SMEMBERS, SADD, SREM.
RedisDisabledRules ==
    /\ OnRedis
    /\ \/ Answer(<<"disabled", disabled>>) /\ disabled' = disabled
       \/ \E id \in RuleIds : Answer(<<"ok">>) /\ disabled' \in {disabled \cup {id}, disabled \ {id}}
    /\ UNCHANGED <<masking, audit, index, rules, settings, calls>>

\* GET and SET.
RedisSettings ==
    /\ OnRedis
    /\ \/ Answer(<<"settings", settings>>) /\ settings' = settings
       \/ \E v \in Values : settings' = v /\ Answer(<<"ok">>)
    /\ UNCHANGED <<masking, audit, index, rules, disabled, calls>>

\* SET NX.
RedisSaveSettingsIfAbsent(v) ==
    LET absent == settings = None IN
    /\ OnRedis /\ Answer(IF absent THEN <<"written">> ELSE <<"kept">>)
    /\ settings' = IF absent THEN v ELSE settings
    /\ UNCHANGED <<masking, audit, index, rules, disabled, calls>>
=============================================================================
