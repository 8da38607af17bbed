----------------------------- MODULE StoreState -----------------------------
(***************************************************************************)
(* The state that the repository backends keep, and the parts that they    *)
(* share (internal/repository).  Every backend has the same logical        *)
(* tables; a masking state is kept as the payload its codec made of it.    *)
(***************************************************************************)
EXTENDS Integers, Sequences, FiniteSets

CONSTANTS
    Ids,           \* request IDs; numbers, so that they are ordered
    States,        \* masking states
    Codecs,        \* the codecs of the replicas: Plain or a key
    Plain,
    Texts,         \* masked response texts
    Nanos,         \* the clock values, in nanoseconds, that records carry
    NanosPerMicro,
    RuleIds, Contents,
    Values,        \* settings
    MaskingTTL, AuditTTL,
    AuditMaxEntries,        \* cap of the in-memory audit map, 0 = unlimited
    AuditListMinBatch,
    DefaultAuditPageSize, MaxAuditPageSize,
    Limit,         \* the page size that the listing client asks for
    Matching,      \* the IDs whose records pass the client's field filters
    Since, Until,  \* its time window, 0 = any
    NoExpiry,      \* the expiry of a Redis key without a TTL
    None

\* rec.Timestamp.Truncate(time.Microsecond).
Truncate(nanos) == nanos \div NanosPerMicro

Micros == {Truncate(n) : n \in Nanos}

MaskEntries == [payload : [enc : BOOLEAN, key : Codecs, data : States], expires : Nat]
OpenEntries == [state : States, key : Codecs, expires : Nat]
AuditEntries == [ts : Micros, texts : Texts \cup {None}, expires : Nat]
Pipelines == [next : {"set", "zadd", "zrem"}, id : Ids, nanos : Nanos, trim : Int]
Updates == [id : Ids, ts : Micros, texts : Texts]

ASSUME StoreAssumption ==
    /\ Ids \subseteq Nat /\ Nanos \subseteq Nat /\ NanosPerMicro \in Nat \ {0}
    /\ MaskingTTL \in Nat /\ AuditTTL \in Nat \ {0} /\ NoExpiry \in Nat
    /\ Plain \in Codecs /\ AuditMaxEntries \in Nat /\ IsFiniteSet(Ids)
    /\ Limit \in Int /\ AuditListMinBatch \in Nat
    /\ DefaultAuditPageSize \in Nat \ {0} /\ MaxAuditPageSize \in Nat \ {0}
    /\ Since \in Nat /\ Until \in Nat

ASSUME NoneAssumption ==
    /\ None \notin MaskEntries \cup OpenEntries \cup AuditEntries \cup Pipelines
    /\ None \notin Updates \cup Micros \cup (Micros \X Ids) \cup Values \cup Contents

VARIABLES
    backend,       \* "memory", "redis" or "postgres", chosen at boot
    now,
    masking,       \* masking[id]: [payload, expires] or None
    audit,         \* audit[id]: [ts, texts, expires] or None
    index,         \* Redis: the ZSET, index[id] is the score or None
    rules, disabled, settings,
    pipe,          \* Redis: the pipeline of a PutAuditRecord under way, or None
    update,        \* Redis: a SetAuditResponseTexts between its Get and its Set, or None
    walk,          \* a client that lists the audit records page by page; walk.budget is
                   \* auditListMaxRounds, the index rounds of one call
    reply          \* the answer to the last call

tables == <<masking, audit, index, rules, disabled, settings>>
calls == <<pipe, update, walk>>
vars == <<backend, now, tables, calls, reply>>

Codec == INSTANCE StateCodec

\* The caller gets the answer, or the connection fails after the server acted.
Answer(a) == reply' = a \/ (backend # "memory" /\ reply' = <<"error">>)

NewRecord(nanos) == [ts |-> Truncate(nanos), texts |-> None, expires |-> now + AuditTTL]

-----------------------------------------------------------------------------
(* Listing: (Timestamp desc, RequestID desc), resumed after a cursor.       *)

ClampAuditLimit ==
    IF Limit <= 0 THEN DefaultAuditPageSize
    ELSE IF Limit > MaxAuditPageSize THEN MaxAuditPageSize ELSE Limit

Matches(id) ==
    /\ id \in Matching
    /\ Since # 0 => audit[id].ts >= Since
    /\ Until # 0 => audit[id].ts < Until

\* A position in the listing; the cursor is the position of the last record of
\* a page, None before the first page.
Position(id) == <<audit[id].ts, id>>
EncodeAuditCursor(ts, id) == <<ts, id>>
Before(p, q) == p[1] < q[1] \/ (p[1] = q[1] /\ p[2] < q[2])

\* Mutants: ties with the cursor are skipped; the cursor itself is repeated.
AfterCursorByTime(p) == walk.cursor # None => p[1] < walk.cursor[1]
AfterCursorInclusive(p) == walk.cursor # None => p = walk.cursor \/ Before(p, walk.cursor)

AfterCursor(p) == walk.cursor # None => Before(p, walk.cursor)

\* The positions in S, the newest first.
Listing(S) ==
    [n \in 1..Cardinality(S) |-> CHOOSE p \in S : Cardinality({q \in S : Before(p, q)}) = n - 1]

Deliver(page, cursor) ==
    walk' = [walk EXCEPT !.out = @ \o page, !.cursor = cursor,
                         !.phase = IF cursor = None THEN "done" ELSE "ready"]

\* A page takes Limit of the matches; one match more means there is a next page.
DeliverPage(found, otherwise) ==
    IF Len(found) > ClampAuditLimit
      THEN Deliver(SubSeq(found, 1, ClampAuditLimit),
                   EncodeAuditCursor(found[ClampAuditLimit][1], found[ClampAuditLimit][2]))
      ELSE Deliver(found, otherwise)

Page(S) ==
    DeliverPage(Listing({p \in {Position(id) : id \in {j \in S : Matches(j)}} : AfterCursor(p)}), None)
=============================================================================
