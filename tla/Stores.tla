------------------------------- MODULE Stores -------------------------------
(***************************************************************************)
(* The repository as its callers meet it: the factory picks a backend at   *)
(* boot (internal/repository/factory), and the callers of a run use some   *)
(* of the repository's interfaces.                                         *)
(***************************************************************************)
EXTENDS MemoryStore, RedisStore, PostgresStore

CONSTANTS
    Workloads,     \* what the callers of a behaviour do: the interface they
                   \* use, and the bounds: request IDs, those that are
                   \* retried, their timestamps, the clock, the index rounds
    SlowUpdates    \* the clock may move between the Get and the Set of an update

VARIABLES
    workload,
    stable         \* history: the records the client must see, see Observe

ASSUME WorkloadAssumption ==
    /\ SlowUpdates \in BOOLEAN
    /\ Workloads \subseteq [uses : STRING, ids : SUBSET Ids, retries : SUBSET Ids,
                           nanos : [Ids -> SUBSET Nanos], clock : Nat, rounds : Nat \ {0}]

allVars == <<vars, workload, stable>>

NoWalk == [phase |-> "idle", budget |-> workload.rounds, cursor |-> None, out |-> <<>>, round |-> 0, bound |-> None,
           seen |-> {}, ids |-> {}, exhausted |-> FALSE, collected |-> <<>>, last |-> None]

Init ==
    /\ backend \in {"memory", "redis", "postgres"} /\ workload \in Workloads
    /\ now = 0
    /\ masking = [id \in Ids |-> None] /\ audit = [id \in Ids |-> None] /\ index = [id \in Ids |-> None]
    /\ rules = [id \in RuleIds |-> None] /\ disabled = {} /\ settings = None
    /\ pipe = None /\ update = None /\ walk = NoWalk /\ reply = <<>> /\ stable = {}

Tick ==
    /\ now < workload.clock /\ now' = now + 1 /\ (SlowUpdates \/ update = None)
    /\ UNCHANGED <<backend, tables, calls, reply>>

\* A call to a shared backend fails before it reaches the server.  (A client
\* whose listing fails gives up the walk.)
Unavailable ==
    /\ backend # "memory" /\ workload.uses # "listing" /\ reply' = <<"error">> /\ UNCHANGED <<backend, now, tables, calls>>

MaskingCalls ==
    /\ workload.uses = "masking"
    /\ \E id \in workload.ids, codec \in Codecs, st \in States :
          \/ MemoryPutMaskingState(id, st) \/ MemoryGetMaskingState(id) \/ MemoryDeleteMaskingState(id)
          \/ RedisPutMaskingState(codec, id, st) \/ RedisGetMaskingState(codec, id)
          \/ RedisDeleteMaskingState(id)
          \/ PostgresPutMaskingState(codec, id, st) \/ PostgresGetMaskingState(codec, id)
          \/ PostgresDeleteMaskingState(id)

\* A retry overwrites the record of its request; it carries a later timestamp.
Writes(id, nanos) == audit[id] # None => (id \in workload.retries /\ Truncate(nanos) >= audit[id].ts)

\* The index walk of Redis copes with fewer than a batch of records of the
\* same microsecond: a full batch of one score ends the listing.
NotCrowded(id, nanos) ==
    Cardinality({j \in Ids \ {id} : index[j] = Truncate(nanos)}) + 1 < Batch

PutAudit ==
    \/ \E id \in workload.ids : \E nanos \in workload.nanos[id] :
          /\ Writes(id, nanos) /\ NotCrowded(id, nanos)
          /\ \/ MemoryPutAuditRecord(id, nanos) \/ PostgresPutAuditRecord(id, nanos)
             \/ RedisPutAuditRecord(id, nanos)
    \/ RedisPipelineSet \/ RedisPipelineIndex

AuditCalls ==
    /\ workload.uses = "audit"
    /\ \/ PutAudit \/ RedisSetKeepTTL \/ RedisConnectionLost
       \/ \E id \in workload.ids : MemoryGetAuditRecord(id) \/ RedisGetAuditRecord(id) \/ PostgresGetAuditRecord(id)
       \/ \E id \in workload.ids, texts \in Texts :
             \/ MemorySetAuditResponseTexts(id, texts) \/ PostgresSetAuditResponseTexts(id, texts)
             \/ RedisGetForUpdate(id, texts)

StartWalk == walk.phase = "idle" /\ walk' = [walk EXCEPT !.phase = "ready"]
             /\ UNCHANGED <<backend, now, tables, pipe, update, reply>>

ListingCalls ==
    /\ workload.uses = "listing"
    /\ \/ PutAudit \/ StartWalk
       \/ MemoryListAuditRecords \/ PostgresListAuditRecords
       \/ RedisListAuditRecords \/ RedisListIndex \/ RedisListRecords

RuleAndSettingsCalls ==
    /\ workload.uses = "rules"
    /\ \/ MemoryReadRules \/ MemoryDisabledRules \/ MemorySettings
       \/ RedisReadRules \/ RedisDisabledRules \/ RedisSettings
       \/ PostgresReadRules \/ PostgresDisabledRules \/ PostgresSettings
       \/ \E id \in RuleIds, c \in Contents :
             \/ MemoryCreateRule(id, c) \/ MemorySaveRule(id, c) \/ MemoryDeleteRule(id)
             \/ RedisCreateRule(id, c) \/ RedisSaveRule(id, c) \/ RedisDeleteRule(id)
             \/ PostgresCreateRule(id, c) \/ PostgresSaveRule(id, c) \/ PostgresDeleteRule(id)
       \/ \E v \in Values :
             \/ MemorySaveSettingsIfAbsent(v) \/ RedisSaveSettingsIfAbsent(v)
             \/ PostgresSaveSettingsIfAbsent(v)

\* The records the client must see: those that its filters pass, that were
\* complete when it started and that nothing has touched or aged out since.
Listable(id) ==
    /\ audit[id] # None /\ audit[id].expires > now /\ audit[id].ts >= now - AuditTTL
    /\ Matches(id) /\ (backend = "redis" => index[id] = audit[id].ts)

Observe ==
    /\ workload' = workload
    /\ stable' = IF walk.phase = "idle"
                   THEN IF walk'.phase = "idle" THEN {} ELSE {id \in Ids : Listable(id)}
                   ELSE {id \in stable : audit'[id] = audit[id] /\ Listable(id)'}

Next ==
    /\ \/ Tick \/ Unavailable \/ MemoryJanitor \/ MemoryRestart \/ PostgresJanitor
       \/ MaskingCalls \/ AuditCalls \/ ListingCalls \/ RuleAndSettingsCalls
    /\ Observe

Spec == Init /\ [][Next]_allVars

-----------------------------------------------------------------------------

\* The tables hold what the Go types hold; in Redis the index never names a
\* record that was not written, and only Redis has calls between two commands.
TypeOK ==
    /\ backend \in {"memory", "redis", "postgres"} /\ now \in Nat
    /\ masking \in [Ids -> MaskEntries \cup {None}]
    /\ audit \in [Ids -> AuditEntries \cup {None}]
    /\ index \in [Ids -> Micros \cup {None}]
    /\ \A id \in Ids : index[id] # None => audit[id] # None
    /\ rules \in [RuleIds -> Contents \cup {None}] /\ disabled \subseteq RuleIds
    /\ settings \in Values \cup {None}
    /\ pipe \in Pipelines \cup {None} /\ update \in Updates \cup {None}
    /\ pipe # None \/ update # None => backend = "redis"

\* What a stored payload says: the state, the key it is sealed with.
Opened ==
    [id \in Ids |-> IF masking[id] = None THEN None
                    ELSE [state |-> masking[id].payload.data, key |-> masking[id].payload.key,
                          expires |-> masking[id].expires]]

Contract == INSTANCE Repository WITH masking <- Opened, Timestamps <- Micros

\* Every backend implements the repository's contract: each of its commands
\* is one operation of the contract or changes nothing the callers can see.
ImplementsContract == Contract!Spec

\* No audit record outlives the audit TTL ("Records are retained for the
\* configured audit TTL").
RetainedForTTL == \A id \in Ids : audit[id] # None => audit[id].expires <= now + AuditTTL

Delivered(id) == {n \in 1..Len(walk.out) : walk.out[n][2] = id}

\* A client that follows the cursors to the end has been given every record
\* that was there all the time, whatever was written meanwhile.
ListingComplete == walk.phase = "done" => \A id \in stable : Delivered(id) # {}

\* The newest first: when it is given one of them, it has been given all that
\* come before it.
ListingOrdered ==
    \A n \in 1..Len(walk.out), id \in stable :
       (walk.out[n][2] \in stable /\ Before(walk.out[n], Position(id)))
          => \E m \in Delivered(id) : m < n

\* It is given each of them once ("cursor walk must return every record
\* exactly once").
ListedOnce == \A id \in stable, m, n \in 1..Len(walk.out) : {m, n} \subseteq Delivered(id) => m = n

\* Where a page is read in one step it is: in memory and in PostgreSQL.
ListedOnceAtomically == backend # "redis" => ListedOnce
=============================================================================
