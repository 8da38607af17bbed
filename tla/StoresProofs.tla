---------------------------- MODULE StoresProofs ----------------------------
(***************************************************************************)
(* Every backend implements the contract of the repository, for any        *)
(* number of requests, rules, codecs and timestamps, as long as no record  *)
(* expires between the Get and the Set of an update; and a client that     *)
(* lists the audit records page by page is given what it must be given.    *)
(***************************************************************************)
EXTENDS Stores, SequenceTheorems, Integers, FiniteSets, FiniteSetTheorems, WellFoundedInduction, TLAPS

-----------------------------------------------------------------------------
(* Induction over data, in the first-order form that the provers can use:  *)
(* properties are sets and recursive definitions are functions, so that    *)
(* every lemma can be instantiated.                                        *)

LessNat == {ss \in Nat \X Nat : ss[1] < ss[2]}

LEMMA LessNatWellFounded == IsWellFoundedOn(LessNat, Nat)
  BY NatLessThanWellFounded, Zenon DEF OpToRel, LessNat

\* A set of numbers has a least one.
LEMMA NatMinimum ==
  ASSUME NEW T \in SUBSET Nat, T # {}
  PROVE  \E x \in T : \A y \in T : x <= y
<1>1. \E x \in T : \A y \in T : ~ (<<y, x>> \in LessNat)
  BY LessNatWellFounded, WFMin
<1>2. ASSUME NEW x \in Nat, NEW y \in Nat, ~ (<<y, x>> \in LessNat) PROVE x <= y
  BY <1>2 DEF LessNat
<1> QED
  BY <1>1, <1>2

-----------------------------------------------------------------------------
(* Sorting.                                                                 *)

StrictlyOrders(R, S) ==
    /\ \A x, y, z \in S : <<x, y>> \in R /\ <<y, z>> \in R => <<x, z>> \in R
    /\ \A x \in S : <<x, x>> \notin R
    /\ \A x, y \in S : x # y => <<x, y>> \in R \/ <<y, x>> \in R

\* The members of a finite set that R orders, listed by the number of their
\* predecessors.
ByRank(S, R) ==
    [n \in 1 .. Cardinality(S) |-> CHOOSE x \in S : Cardinality({y \in S : <<y, x>> \in R}) = n - 1]

\* That lists all of them, each once and in order.
LEMMA RankListing ==
  ASSUME NEW S, IsFiniteSet(S), NEW R, StrictlyOrders(R, S)
  PROVE  /\ Cardinality(S) \in Nat /\ ByRank(S, R) \in [1 .. Cardinality(S) -> S]
         /\ \A m, n \in 1 .. Cardinality(S) : m < n => <<ByRank(S, R)[m], ByRank(S, R)[n]>> \in R
         /\ \A x \in S : \E n \in 1 .. Cardinality(S) : ByRank(S, R)[n] = x
<1> DEFINE below(x) == {y \in S : <<y, x>> \in R}
           N == Cardinality(S)
           rank == [x \in S |-> Cardinality(below(x)) + 1]
<1>0. /\ \A x \in S : below(x) \in SUBSET S /\ x \notin below(x)
      /\ \A x, y \in S : <<x, y>> \in R => below(x) \in SUBSET below(y) /\ x \in below(y)
  BY DEF StrictlyOrders
<1> HIDE DEF below
<1>1. N \in Nat
  BY FS_CardinalityType
<1>2. ASSUME NEW x \in S PROVE IsFiniteSet(below(x)) /\ Cardinality(below(x)) \in Nat /\ Cardinality(below(x)) < N
  <2>1. IsFiniteSet(below(x)) /\ Cardinality(below(x)) <= N /\ Cardinality(below(x)) # N
    BY <1>0, FS_Subset
  <2>2. Cardinality(below(x)) \in Nat
    BY <2>1, FS_CardinalityType
  <2> QED
    BY <1>1, <2>1, <2>2
<1>3. \A x \in S : rank[x] \in 1 .. N /\ Cardinality(below(x)) = rank[x] - 1
  BY <1>1, <1>2
<1> HIDE DEF N
<1>4. rank \in [S -> 1 .. N]
  BY <1>3
<1>5. ASSUME NEW x \in S, NEW y \in S, <<x, y>> \in R PROVE rank[x] < rank[y]
  <2>1. Cardinality(below(x)) <= Cardinality(below(y)) /\ Cardinality(below(x)) # Cardinality(below(y))
    BY <1>0, <1>2, <1>5, FS_Subset
  <2> HIDE DEF rank
  <2> QED
    BY <1>1, <1>3, <2>1
<1> HIDE DEF rank
<1>6. \A x, y \in S : rank[x] = rank[y] => x = y
  <2> SUFFICES ASSUME NEW x \in S, NEW y \in S, x # y PROVE rank[x] # rank[y]
    OBVIOUS
  <2>1. rank[x] \in Int /\ rank[y] \in Int
    BY <1>4
  <2>2. <<x, y>> \in R \/ <<y, x>> \in R
    BY DEF StrictlyOrders
  <2> QED
    BY <1>5, <2>1, <2>2
<1>7. rank \in Injection(S, 1 .. N)
  BY <1>4, <1>6 DEF Injection, IsInjective
<1>8. rank \in Surjection(S, 1 .. N)
  <2>1. IsFiniteSet(1 .. N) /\ Cardinality(1 .. N) = N
    BY <1>1, FS_Interval
  <2> QED
    BY <1>7, <2>1, FS_Injection DEF N
<1>9. \A n \in 1 .. N : \E x \in S : rank[x] = n
  BY <1>8 DEF Surjection
<1>10. ASSUME NEW x \in S, NEW y \in S, rank[x] < rank[y] PROVE <<x, y>> \in R
  <2>1. rank[x] \in Int /\ rank[y] \in Int
    BY <1>4
  <2>2. x # y /\ ~ (<<y, x>> \in R)
    BY <1>5, <1>10, <2>1
  <2> QED
    BY <2>2 DEF StrictlyOrders
<1> DEFINE list == ByRank(S, R)
<1>0a. list = [n \in 1 .. N |-> CHOOSE x \in S : Cardinality(below(x)) = n - 1]
  BY DEF ByRank, N, below
<1> HIDE DEF list
<1>11. ASSUME NEW n \in 1 .. N PROVE list[n] \in S /\ rank[list[n]] = n
  <2>1. \E x \in S : Cardinality(below(x)) = n - 1
    BY <1>3, <1>9
  <2>2. list[n] = CHOOSE x \in S : Cardinality(below(x)) = n - 1
    BY <1>0a
  <2>3. list[n] \in S /\ Cardinality(below(list[n])) = n - 1
    BY <2>1, <2>2
  <2> QED
    BY <1>1, <1>3, <2>3
<1>12. ASSUME NEW m \in 1 .. N, NEW n \in 1 .. N, m < n PROVE <<list[m], list[n]>> \in R
  <2>1. list[m] \in S /\ list[n] \in S /\ rank[list[m]] = m /\ rank[list[n]] = n
    BY <1>11
  <2>2. rank[list[m]] < rank[list[n]]
    BY <1>12, <2>1, Zenon
  <2> QED
    BY <1>10, <2>1, <2>2
<1>13. ASSUME NEW x \in S PROVE \E n \in 1 .. N : list[n] = x
  <2>1. rank[x] \in 1 .. N
    BY <1>4
  <2>2. list[rank[x]] \in S /\ rank[list[rank[x]]] = rank[x]
    BY <1>11, <2>1
  <2> QED
    BY <1>6, <2>1, <2>2
<1>14. list \in [1 .. N -> S]
  BY <1>11, <1>0a
<1> QED
  BY <1>1, <1>12, <1>13, <1>14 DEF list, N


\* A payload says truly whether it is sealed; the process memory seals nothing.
PayloadsOK ==
    \A id \in Ids : masking[id] # None =>
       /\ masking[id].payload.enc <=> masking[id].payload.key # Plain
       /\ backend = "memory" => masking[id].payload.key = Plain

\* What the commands of Redis calls under way still find.
CallsOK ==
    /\ backend # "redis" => \A id \in Ids : index[id] = None
    /\ (pipe # None /\ pipe.next = "zadd") => audit[pipe.id] # None
    /\ (pipe # None /\ pipe.next = "set" /\ audit[pipe.id] # None)
          => audit[pipe.id].ts <= Truncate(pipe.nanos)
    /\ update # None => RedisLive(audit[update.id]) /\ update.ts <= audit[update.id].ts

Inv == TypeOK /\ PayloadsOK /\ CallsOK /\ workload \in Workloads

-----------------------------------------------------------------------------

LEMMA MicrosNat == /\ Micros \subseteq Nat
                   /\ \A n \in Nanos : Truncate(n) \in Micros
  BY StoreAssumption DEF Micros, Truncate

LEMMA InitInv == Init => Inv
  BY MicrosNat, NoneAssumption
  DEF Init, Inv, TypeOK, PayloadsOK, CallsOK

LEMMA InitContract == Init => Contract!Init
  BY DEF Init, Contract!Init, Opened

\* Nothing the callers can see.
LEMMA Invisible ==
  ASSUME backend' = backend, now' = now, masking' = masking, audit' = audit, rules' = rules,
         disabled' = disabled, settings' = settings, reply' = reply
  PROVE  UNCHANGED Contract!vars
  BY DEF Contract!vars, Opened

LEMMA OpenedSame ==
  ASSUME masking' = masking PROVE Opened' = Opened
  BY DEF Opened

LEMMA OpenedPut ==
  ASSUME TypeOK, NEW id \in Ids, NEW p, NEW e, [payload |-> p, expires |-> e] \in MaskEntries,
         masking' = [masking EXCEPT ![id] = [payload |-> p, expires |-> e]]
  PROVE  Opened' = [Opened EXCEPT ![id] = [state |-> p.data, key |-> p.key, expires |-> e]]
  BY NoneAssumption DEF Opened, TypeOK

LEMMA OpenedDelete ==
  ASSUME TypeOK, NEW id \in Ids, masking' = [masking EXCEPT ![id] = None]
  PROVE  Opened' = [Opened EXCEPT ![id] = None]
  BY DEF Opened, TypeOK

\* Calls that leave the tables and the Redis calls alone keep the invariant.
LEMMA TablesSame ==
  ASSUME Inv, workload' = workload, backend' = backend, now' = now,
         masking' = masking, audit' = audit, index' = index, rules' = rules, disabled' = disabled,
         settings' = settings, pipe' = pipe, update' = update
  PROVE  Inv'
  BY DEF Inv, TypeOK, PayloadsOK, CallsOK, RedisLive

LEMMA MaskingSame ==
  ASSUME Inv, workload' = workload, backend' = backend, now' = now,
         audit' = audit, index' = index, rules' = rules, disabled' = disabled,
         settings' = settings, pipe' = pipe, update' = update,
         NEW id \in Ids, NEW entry \in MaskEntries \cup {None},
         entry # None => /\ entry.payload.enc <=> entry.payload.key # Plain
                         /\ backend = "memory" => entry.payload.key = Plain,
         masking' = [masking EXCEPT ![id] = entry]
  PROVE  Inv'
  BY DEF Inv, TypeOK, PayloadsOK, CallsOK, RedisLive

-----------------------------------------------------------------------------
(* MaskingStateStore.                                                       *)

LEMMA Encoded ==
  ASSUME NEW st \in States, NEW codec \in Codecs
  PROVE  /\ Codec!Encode(codec, st) \in [enc : BOOLEAN, key : Codecs, data : States]
         /\ Codec!Encode(codec, st).enc <=> Codec!Encode(codec, st).key # Plain
         /\ Codec!Encode(codec, st).key = codec /\ Codec!Encode(codec, st).data = st
  BY StoreAssumption DEF Codec!Encode, Codec!Bare, Codec!Envelope

LEMMA MemoryPutMaskingStep ==
  ASSUME Inv, workload' = workload, NEW id \in Ids, NEW st \in States, MemoryPutMaskingState(id, st)
  PROVE  Inv' /\ Contract!Next
<1> DEFINE p == [enc |-> FALSE, key |-> Plain, data |-> st]
           e == now + MaskingTTL
<1>1. [payload |-> p, expires |-> e] \in MaskEntries
  BY StoreAssumption DEF MaskEntries, Inv, TypeOK
<1>2. masking' = [masking EXCEPT ![id] = [payload |-> p, expires |-> e]]
  BY DEF MemoryPutMaskingState
<1>3. Inv'
  BY <1>1, <1>2, MaskingSame DEF MemoryPutMaskingState, InMemory
<1>4. Opened' = [Opened EXCEPT ![id] = [state |-> st, key |-> Plain, expires |-> e]]
  BY <1>1, <1>2, OpenedPut DEF Inv
<1>5. Contract!PutMaskingState(Plain, id, st)
  BY <1>4 DEF Contract!PutMaskingState, Contract!Answer, Contract!Shared, MemoryPutMaskingState, InMemory, Answer
<1> QED
  BY <1>3, <1>5, StoreAssumption DEF Contract!Next

LEMMA SharedPutMasking ==
  ASSUME Inv, NEW id \in Ids, NEW codec \in Codecs, NEW st \in States,
         workload' = workload, backend' = backend, now' = now, backend # "memory",
         audit' = audit, index' = index, rules' = rules, disabled' = disabled,
         settings' = settings, pipe' = pipe, update' = update, Answer(<<"ok">>),
         masking' = [masking EXCEPT ![id] =
                        [payload |-> Codec!Encode(codec, st), expires |-> now + MaskingTTL]]
  PROVE  Inv' /\ Contract!Next
<1> DEFINE p == Codec!Encode(codec, st)
           e == now + MaskingTTL
<1>1. [payload |-> p, expires |-> e] \in MaskEntries
  BY StoreAssumption, Encoded DEF MaskEntries, Inv, TypeOK
<1>2. masking' = [masking EXCEPT ![id] = [payload |-> p, expires |-> e]]
  OBVIOUS
<1>3. Inv'
  <2> HIDE DEF p, e
  <2>1. p.enc <=> p.key # Plain
    BY Encoded DEF p
  <2> QED
    BY <1>1, <1>2, <2>1, MaskingSame
<1>4. Opened' = [Opened EXCEPT ![id] = [state |-> st, key |-> codec, expires |-> e]]
  <2>1. p.data = st /\ p.key = codec
    BY Encoded
  <2> HIDE DEF p, e
  <2> QED
    BY <1>1, <1>2, <2>1, OpenedPut DEF Inv
<1>5. Contract!PutMaskingState(codec, id, st)
  BY <1>4 DEF Contract!PutMaskingState, Contract!Answer, Contract!Shared, Answer
<1> QED
  BY <1>3, <1>5 DEF Contract!Next

LEMMA DeleteMasking ==
  ASSUME Inv, NEW id \in Ids, workload' = workload, backend' = backend, now' = now,
         audit' = audit, index' = index, rules' = rules, disabled' = disabled,
         settings' = settings, pipe' = pipe, update' = update, Answer(<<"ok">>),
         masking' = [masking EXCEPT ![id] = None]
  PROVE  Inv' /\ Contract!Next
<1>1. Inv'
  BY MaskingSame
<1>2. Contract!DeleteMaskingState(id)
  BY OpenedDelete DEF Contract!DeleteMaskingState, Contract!Answer, Contract!Shared, Answer, Inv
<1> QED
  BY <1>1, <1>2 DEF Contract!Next

\* What a backend answers to GetMaskingState, given when it takes an entry for
\* live and what its codec makes of the payload.
LEMMA GetMasking ==
  ASSUME Inv, NEW id \in Ids, NEW codec \in Codecs, NEW live \in BOOLEAN,
         live => masking[id] # None /\ masking[id].expires >= now,
         ~live => masking[id] = None \/ masking[id].expires <= now,
         workload' = workload, backend' = backend, now' = now, masking' = masking,
         audit' = audit, index' = index, rules' = rules, disabled' = disabled,
         settings' = settings, pipe' = pipe, update' = update,
         Answer(IF live THEN Codec!Decode(codec, masking[id].payload) ELSE <<"not found">>)
  PROVE  Inv' /\ Contract!Next
<1>1. Inv'
  BY TablesSame
<1> DEFINE m == masking[id]
           opened == [state |-> m.payload.data, key |-> m.payload.key, expires |-> m.expires]
<1>2. m # None => Opened[id] = opened /\ opened # None
  <2>1. m # None => m \in MaskEntries
    BY DEF Inv, TypeOK
  <2>2. m # None => opened \in OpenEntries
    BY <2>1 DEF OpenEntries, MaskEntries
  <2> QED
    BY <2>2, NoneAssumption DEF Opened
<1>2a. m # None => Opened[id].expires = m.expires
  BY DEF Opened
<1>3. m = None => Opened[id] = None
  BY DEF Opened
<1>4. m # None =>
        /\ m.payload.key \in {codec, Plain} => Codec!Decode(codec, m.payload) = <<"state", opened.state>>
        /\ m.payload.key \notin {codec, Plain} => Codec!Decode(codec, m.payload) = <<"undecryptable">>
  <2>1. m # None => (m.payload.enc <=> m.payload.key # Plain)
    BY DEF Inv, PayloadsOK
  <2> QED
    BY <2>1 DEF Codec!Decode, Codec!IsEnvelope
<1>5. Contract!GetMaskingState(codec, id)
  <2>1. CASE live
    <3> DEFINE d == Codec!Decode(codec, m.payload)
    <3>1. Answer(d)
      BY <2>1
    <3>2. Contract!Answer(d)
      BY <3>1 DEF Answer, Contract!Answer, Contract!Shared
    <3>3. Contract!MayBeLive(Opened[id])
      BY <2>1, <1>2 DEF Contract!MayBeLive
    <3>4. CASE m.payload.key \in {codec, Plain}
      <4>1. Opened[id].key \in {codec, Plain} /\ Contract!Answer(<<"state", Opened[id].state>>)
        BY <2>1, <3>2, <3>4, <1>2, <1>4
      <4> QED
        BY <4>1, <3>3, OpenedSame DEF Contract!GetMaskingState
    <3>5. CASE m.payload.key \notin {codec, Plain}
      <4>1. Opened[id].key \notin {codec, Plain} /\ Contract!Answer(<<"undecryptable">>)
        BY <2>1, <3>2, <3>5, <1>2, <1>4
      <4> QED
        BY <4>1, <3>3, OpenedSame DEF Contract!GetMaskingState
    <3> QED
      BY <3>4, <3>5
  <2>2. CASE ~live
    <3>1. Contract!Answer(<<"not found">>)
      BY <2>2 DEF Answer, Contract!Answer, Contract!Shared
    <3>2. Contract!MayBeGone(Opened[id])
      <4>1. CASE m = None
        BY <4>1, <1>3 DEF Contract!MayBeGone
      <4>2. CASE m # None
        <5>1. m.expires <= now
          BY <4>2, <2>2
        <5> QED
          BY <4>2, <5>1, <1>2a DEF Contract!MayBeGone
      <4> QED
        BY <4>1, <4>2
    <3> QED
      BY <3>1, <3>2, OpenedSame DEF Contract!GetMaskingState
  <2> QED
    BY <2>1, <2>2
<1> QED
  BY <1>1, <1>5 DEF Contract!Next

LEMMA MaskingStep ==
  ASSUME Inv, workload' = workload, NEW id \in Ids, NEW codec \in Codecs, NEW st \in States,
         \/ MemoryPutMaskingState(id, st) \/ MemoryGetMaskingState(id) \/ MemoryDeleteMaskingState(id)
         \/ RedisPutMaskingState(codec, id, st) \/ RedisGetMaskingState(codec, id)
         \/ RedisDeleteMaskingState(id)
         \/ PostgresPutMaskingState(codec, id, st) \/ PostgresGetMaskingState(codec, id)
         \/ PostgresDeleteMaskingState(id)
  PROVE  Inv' /\ Contract!Next
<1>0. /\ now \in Nat
      /\ masking[id] # None => masking[id].expires \in Nat
  BY DEF Inv, TypeOK, MaskEntries
<1>1. CASE MemoryPutMaskingState(id, st)
  BY <1>1, MemoryPutMaskingStep
<1>2. CASE MemoryGetMaskingState(id)
  <2> DEFINE live == MemoryLive(masking[id])
  <2>1. live \in BOOLEAN
    BY DEF MemoryLive
  <2>2. live => masking[id] # None /\ masking[id].expires >= now
    BY DEF MemoryLive
  <2>3. ~live => masking[id] = None \/ masking[id].expires <= now
    BY <1>0 DEF MemoryLive
  <2>4. live => Codec!Decode(Plain, masking[id].payload) = <<"state", masking[id].payload.data>>
    BY <1>2, <2>2 DEF Codec!Decode, Codec!IsEnvelope, Inv, PayloadsOK, MemoryGetMaskingState, InMemory
  <2>5. Answer(IF live THEN Codec!Decode(Plain, masking[id].payload) ELSE <<"not found">>)
    BY <1>2, <2>4 DEF MemoryGetMaskingState, Answer
  <2> HIDE DEF live
  <2> QED
    BY <1>2, <2>1, <2>2, <2>3, <2>5, GetMasking, StoreAssumption DEF MemoryGetMaskingState, InMemory
<1>3. CASE MemoryDeleteMaskingState(id)
  BY <1>3, DeleteMasking DEF MemoryDeleteMaskingState, InMemory
<1>4. CASE RedisPutMaskingState(codec, id, st)
  BY <1>4, SharedPutMasking DEF RedisPutMaskingState, OnRedis, calls
<1>5. CASE RedisGetMaskingState(codec, id)
  <2> DEFINE live == RedisLive(masking[id])
  <2>1. live \in BOOLEAN
    BY DEF RedisLive
  <2>2. live => masking[id] # None /\ masking[id].expires >= now
    BY <1>0 DEF RedisLive
  <2>3. ~live => masking[id] = None \/ masking[id].expires <= now
    BY <1>0 DEF RedisLive
  <2>4. Answer(IF live THEN Codec!Decode(codec, masking[id].payload) ELSE <<"not found">>)
    BY <1>5 DEF RedisGetMaskingState
  <2> HIDE DEF live
  <2> QED
    BY <1>5, <2>1, <2>2, <2>3, <2>4, GetMasking DEF RedisGetMaskingState, OnRedis, tables, calls
<1>6. CASE RedisDeleteMaskingState(id)
  BY <1>6, DeleteMasking DEF RedisDeleteMaskingState, OnRedis, calls
<1>7. CASE PostgresPutMaskingState(codec, id, st)
  BY <1>7, SharedPutMasking DEF PostgresPutMaskingState, OnPostgres
<1>8. CASE PostgresGetMaskingState(codec, id)
  <2> DEFINE live == PostgresLive(masking[id])
  <2>1. live \in BOOLEAN
    BY DEF PostgresLive
  <2>2. live => masking[id] # None /\ masking[id].expires >= now
    BY <1>0 DEF PostgresLive
  <2>3. ~live => masking[id] = None \/ masking[id].expires <= now
    BY <1>0 DEF PostgresLive
  <2>4. Answer(IF live THEN Codec!Decode(codec, masking[id].payload) ELSE <<"not found">>)
    BY <1>8 DEF PostgresGetMaskingState
  <2> HIDE DEF live
  <2> QED
    BY <1>8, <2>1, <2>2, <2>3, <2>4, GetMasking DEF PostgresGetMaskingState, OnPostgres
<1>9. CASE PostgresDeleteMaskingState(id)
  BY <1>9, DeleteMasking DEF PostgresDeleteMaskingState, OnPostgres
<1> QED
  BY <1>1, <1>2, <1>3, <1>4, <1>5, <1>6, <1>7, <1>8, <1>9

-----------------------------------------------------------------------------
(* RuleStore and SettingsStore.                                             *)

\* A call that changes rules, the disabled set or the settings only.
LEMMA ConfigSame ==
  ASSUME Inv, workload' = workload, backend' = backend, now' = now,
         masking' = masking, audit' = audit, index' = index, pipe' = pipe, update' = update,
         rules' \in [RuleIds -> Contents \cup {None}], disabled' \subseteq RuleIds,
         settings' \in Values \cup {None}
  PROVE  Inv'
  BY DEF Inv, TypeOK, PayloadsOK, CallsOK, RedisLive

LEMMA RuleStep ==
  ASSUME Inv, workload' = workload, NEW id \in RuleIds, NEW c \in Contents,
         \/ MemoryCreateRule(id, c) \/ MemorySaveRule(id, c) \/ MemoryDeleteRule(id)
         \/ RedisCreateRule(id, c) \/ RedisSaveRule(id, c) \/ RedisDeleteRule(id)
         \/ PostgresCreateRule(id, c) \/ PostgresSaveRule(id, c) \/ PostgresDeleteRule(id)
  PROVE  Inv' /\ Contract!Next
<1> USE DEF InMemory, OnRedis, OnPostgres, calls
<1>0. rules \in [RuleIds -> Contents \cup {None}] /\ disabled \subseteq RuleIds /\ settings \in Values \cup {None}
  BY DEF Inv, TypeOK
<1>1. CASE MemoryCreateRule(id, c) \/ RedisCreateRule(id, c) \/ PostgresCreateRule(id, c)
  <2>1. Inv'
    BY <1>0, <1>1, ConfigSame DEF MemoryCreateRule, RedisCreateRule, PostgresCreateRule
  <2>2. Contract!CreateRule(id, c)
    BY <1>1, OpenedSame DEF MemoryCreateRule, RedisCreateRule, PostgresCreateRule,
       Contract!CreateRule, Contract!Answer, Contract!Shared, Answer
  <2> QED
    BY <2>1, <2>2 DEF Contract!Next
<1>2. CASE MemorySaveRule(id, c) \/ RedisSaveRule(id, c) \/ PostgresSaveRule(id, c)
  <2>1. Inv'
    BY <1>0, <1>2, ConfigSame DEF MemorySaveRule, RedisSaveRule, PostgresSaveRule
  <2>2. Contract!SaveRule(id, c)
    BY <1>2, OpenedSame DEF MemorySaveRule, RedisSaveRule, PostgresSaveRule,
       Contract!SaveRule, Contract!Answer, Contract!Shared, Answer
  <2> QED
    BY <2>1, <2>2 DEF Contract!Next
<1>3. CASE MemoryDeleteRule(id) \/ RedisDeleteRule(id) \/ PostgresDeleteRule(id)
  <2>1. Inv'
    BY <1>0, <1>3, ConfigSame DEF MemoryDeleteRule, RedisDeleteRule, PostgresDeleteRule
  <2>2. rules' = [rules EXCEPT ![id] = None]
    BY <1>0, <1>3 DEF MemoryDeleteRule, RedisDeleteRule, PostgresDeleteRule
  <2>3. Contract!DeleteRule(id)
    BY <1>3, <2>2, OpenedSame DEF MemoryDeleteRule, RedisDeleteRule, PostgresDeleteRule,
       Contract!DeleteRule, Contract!Answer, Contract!Shared, Answer
  <2> QED
    BY <2>1, <2>3 DEF Contract!Next
<1> QED
  BY <1>1, <1>2, <1>3

LEMMA ConfigStep ==
  ASSUME Inv, workload' = workload,
         \/ MemoryReadRules \/ MemoryDisabledRules \/ MemorySettings
         \/ RedisReadRules \/ RedisDisabledRules \/ RedisSettings
         \/ PostgresReadRules \/ PostgresDisabledRules \/ PostgresSettings
         \/ \E v \in Values : \/ MemorySaveSettingsIfAbsent(v) \/ RedisSaveSettingsIfAbsent(v)
                             \/ PostgresSaveSettingsIfAbsent(v)
  PROVE  Inv' /\ Contract!Next
<1> USE DEF InMemory, OnRedis, OnPostgres, tables, calls
<1>0. rules \in [RuleIds -> Contents \cup {None}] /\ disabled \subseteq RuleIds /\ settings \in Values \cup {None}
  BY DEF Inv, TypeOK
<1>1. CASE MemoryReadRules \/ RedisReadRules \/ PostgresReadRules
  <2>1. Inv'
    BY <1>1, TablesSame DEF MemoryReadRules, RedisReadRules, PostgresReadRules
  <2>2. Contract!RuleStoreRead
    BY <1>1, OpenedSame DEF MemoryReadRules, RedisReadRules, PostgresReadRules,
       Contract!RuleStoreRead, Contract!Answer, Contract!Shared, Answer
  <2> QED
    BY <2>1, <2>2 DEF Contract!Next
<1>2. CASE MemoryDisabledRules \/ RedisDisabledRules \/ PostgresDisabledRules
  <2>1. Inv'
    BY <1>0, <1>2, ConfigSame DEF MemoryDisabledRules, RedisDisabledRules, PostgresDisabledRules
  <2>2. Contract!RuleStoreRead \/ \E id \in RuleIds, off \in BOOLEAN : Contract!SetRuleDisabled(id, off)
    <3>1. CASE Answer(<<"disabled", disabled>>) /\ disabled' = disabled
      BY <1>2, <3>1, OpenedSame DEF MemoryDisabledRules, RedisDisabledRules, PostgresDisabledRules,
         Contract!RuleStoreRead, Contract!Answer, Contract!Shared, Answer
    <3>2. ASSUME NEW id \in RuleIds, Answer(<<"ok">>), disabled' \in {disabled \cup {id}, disabled \ {id}}
          PROVE  Contract!SetRuleDisabled(id, TRUE) \/ Contract!SetRuleDisabled(id, FALSE)
      BY <1>2, <3>2, OpenedSame DEF MemoryDisabledRules, RedisDisabledRules, PostgresDisabledRules,
         Contract!SetRuleDisabled, Contract!Answer, Contract!Shared, Answer
    <3> QED
      BY <1>2, <3>1, <3>2 DEF MemoryDisabledRules, RedisDisabledRules, PostgresDisabledRules
  <2> QED
    BY <2>1, <2>2 DEF Contract!Next
<1>3. CASE MemorySettings \/ RedisSettings \/ PostgresSettings
  <2>1. Inv'
    BY <1>0, <1>3, ConfigSame DEF MemorySettings, RedisSettings, PostgresSettings
  <2>2. Contract!GetSettings \/ \E v \in Values : Contract!SaveSettings(v)
    BY <1>3, OpenedSame DEF MemorySettings, RedisSettings, PostgresSettings,
       Contract!GetSettings, Contract!SaveSettings, Contract!Answer, Contract!Shared, Answer
  <2> QED
    BY <2>1, <2>2 DEF Contract!Next
<1>4. ASSUME NEW v \in Values,
             \/ MemorySaveSettingsIfAbsent(v) \/ RedisSaveSettingsIfAbsent(v)
             \/ PostgresSaveSettingsIfAbsent(v)
      PROVE  Inv' /\ Contract!Next
  <2>1. Inv'
    BY <1>0, <1>4, ConfigSame
    DEF MemorySaveSettingsIfAbsent, RedisSaveSettingsIfAbsent, PostgresSaveSettingsIfAbsent
  <2>2. Contract!SaveSettingsIfAbsent(v)
    BY <1>4, OpenedSame
    DEF MemorySaveSettingsIfAbsent, RedisSaveSettingsIfAbsent, PostgresSaveSettingsIfAbsent,
        Contract!SaveSettingsIfAbsent, Contract!Answer, Contract!Shared, Answer
  <2> QED
    BY <2>1, <2>2 DEF Contract!Next
<1> QED
  BY <1>1, <1>2, <1>3, <1>4

-----------------------------------------------------------------------------
(* AuditStore.                                                              *)

\* A store that holds records has exactly one that evictOldestAuditLocked can
\* find: the smallest timestamp, and among those the smallest ID.
LEMMA OldestExists ==
  ASSUME Inv, NEW kept, kept = {id \in Ids : audit[id] # None}, kept # {}
  PROVE  \E d \in kept : \A id \in kept : id = d \/ Before(Position(d), Position(id))
<1>1. \A id \in kept : audit[id].ts \in Nat /\ id \in Nat
  BY MicrosNat, StoreAssumption DEF Inv, TypeOK, AuditEntries
<1> DEFINE stamps == {audit[id].ts : id \in kept}
<1>2. PICK t \in stamps : \A u \in stamps : t <= u
  BY <1>1, NatMinimum
<1> DEFINE ties == {id \in kept : audit[id].ts = t}
<1>3. PICK d \in ties : \A id \in ties : d <= id
  <2>1. ties # {} /\ ties \subseteq Nat
    BY <1>1, <1>2
  <2> QED
    BY <2>1, NatMinimum
<1>4. ASSUME NEW id \in kept, id # d
      PROVE  Before(Position(d), Position(id))
  <2>1. t <= audit[id].ts
    BY <1>2
  <2>2. audit[id].ts = t => d < id
    BY <1>1, <1>3, <1>4
  <2> QED
    BY <1>1, <1>3, <2>1, <2>2 DEF Before, Position
<1> QED
  BY <1>3, <1>4

LEMMA NewRecordOK ==
  ASSUME Inv, NEW nanos \in Nanos
  PROVE  /\ NewRecord(nanos) \in AuditEntries /\ NewRecord(nanos) # None
         /\ NewRecord(nanos).ts = Truncate(nanos) /\ NewRecord(nanos).expires > now
         /\ NewRecord(nanos) = Contract!New(Truncate(nanos))
<1>1. NewRecord(nanos) \in AuditEntries
  BY MicrosNat, StoreAssumption DEF NewRecord, AuditEntries, Inv, TypeOK
<1>2. NewRecord(nanos) # None
  BY <1>1, NoneAssumption
<1>3. NewRecord(nanos).ts = Truncate(nanos) /\ NewRecord(nanos).expires > now
  BY StoreAssumption DEF NewRecord, Inv, TypeOK
<1> QED
  BY <1>1, <1>2, <1>3 DEF NewRecord, Contract!New

LEMMA MemoryPutAuditStep ==
  ASSUME Inv, workload' = workload, NEW id \in Ids, NEW nanos \in Nanos, MemoryPutAuditRecord(id, nanos)
  PROVE  Inv' /\ Contract!Next
<1> DEFINE kept == {j \in Ids : audit[j] # None}
           full == audit[id] = None /\ AuditMaxEntries > 0 /\ Cardinality(kept) >= AuditMaxEntries
           d == CHOOSE x \in kept : \A j \in kept : j = x \/ Before(Position(x), Position(j))
           ts == Truncate(nanos)
<1>1. backend = "memory" /\ pipe = None /\ update = None /\ \A j \in Ids : index[j] = None
  BY DEF Inv, TypeOK, CallsOK, MemoryPutAuditRecord, InMemory
<1>2. ASSUME audit' \in [Ids -> AuditEntries \cup {None}]
      PROVE  Inv'
  BY <1>1, <1>2 DEF Inv, TypeOK, PayloadsOK, CallsOK, MemoryPutAuditRecord, InMemory
<1>3. audit \in [Ids -> AuditEntries \cup {None}]
  BY DEF Inv, TypeOK
<1>4. ts \in Micros
  BY MicrosNat
<1>5. CASE ~full
  <2>1. audit' = [audit EXCEPT ![id] = NewRecord(nanos)]
    BY <1>5 DEF MemoryPutAuditRecord
  <2>2. Inv'
    BY <1>2, <1>3, <2>1, NewRecordOK
  <2>3. Contract!PutAuditRecord(id, ts)
    BY <2>1, NewRecordOK, OpenedSame DEF Contract!PutAuditRecord, MemoryPutAuditRecord, InMemory
  <2> QED
    BY <2>2, <2>3, <1>4 DEF Contract!Next
<1>6. CASE full
  <2>1. kept # {}
    BY <1>6, FS_EmptySet, StoreAssumption
  <2>2. d \in kept /\ \A j \in kept : j = d \/ Before(Position(d), Position(j))
    BY <2>1, OldestExists
  <2> HIDE DEF d
  <2>3. Contract!Oldest(d)
    BY <2>2 DEF Contract!Oldest, Contract!Older, Before, Position
  <2>4. d # id
    BY <1>6, <2>2
  <2>5. EvictOldestAudit(audit) = [audit EXCEPT ![d] = None]
    BY DEF EvictOldestAudit, d
  <2>6. audit' = [[audit EXCEPT ![d] = None] EXCEPT ![id] = NewRecord(nanos)]
    BY <1>6, <2>5 DEF MemoryPutAuditRecord
  <2>7. audit' = [audit EXCEPT ![d] = None, ![id] = NewRecord(nanos)]
    BY <2>6
  <2>8. Inv'
    BY <1>2, <1>3, <2>6, NewRecordOK
  <2>9. Contract!PutAuditRecord(id, ts)
    BY <1>1, <1>6, <2>2, <2>3, <2>7, NewRecordOK, OpenedSame
    DEF Contract!PutAuditRecord, Contract!Shared, MemoryPutAuditRecord, InMemory
  <2> QED
    BY <2>8, <2>9, <1>4 DEF Contract!Next
<1> QED
  BY <1>5, <1>6

LEMMA PostgresPutAuditStep ==
  ASSUME Inv, workload' = workload, NEW id \in Ids, NEW nanos \in Nanos, PostgresPutAuditRecord(id, nanos)
  PROVE  Inv' /\ Contract!Next
<1>1. backend = "postgres" /\ pipe = None /\ update = None /\ \A j \in Ids : index[j] = None
  BY DEF Inv, TypeOK, CallsOK, PostgresPutAuditRecord, OnPostgres
<1>2. Inv'
  BY <1>1, NewRecordOK DEF Inv, TypeOK, PayloadsOK, CallsOK, PostgresPutAuditRecord, OnPostgres
<1>3. Contract!PutAuditRecord(id, Truncate(nanos))
  BY NewRecordOK, OpenedSame DEF Contract!PutAuditRecord, PostgresPutAuditRecord, OnPostgres
<1> QED
  BY <1>2, <1>3, MicrosNat DEF Contract!Next

\* The guard of the callers, Writes, holds until the pipeline reaches SET.
LEMMA RedisPutAuditStep ==
  ASSUME Inv, workload' = workload, NEW id \in Ids, NEW nanos \in Nanos,
         Writes(id, nanos), RedisPutAuditRecord(id, nanos)
  PROVE  Inv' /\ UNCHANGED Contract!vars
<1>1. pipe' \in Pipelines
  BY StoreAssumption DEF Pipelines, RedisPutAuditRecord, Inv, TypeOK
<1>2. /\ pipe'.next = "set" /\ pipe'.id = id /\ pipe'.nanos = nanos
  BY DEF RedisPutAuditRecord
<1>3. audit[id] # None => audit[id].ts <= Truncate(nanos)
  BY MicrosNat DEF Writes, Inv, TypeOK, AuditEntries
<1>4. Inv'
  BY <1>1, <1>2, <1>3 DEF Inv, TypeOK, PayloadsOK, CallsOK, RedisLive, RedisPutAuditRecord, OnRedis, tables
<1> QED
  BY <1>4, Invisible DEF RedisPutAuditRecord, OnRedis, tables

LEMMA RedisPipelineSetStep ==
  ASSUME Inv, workload' = workload, RedisPipelineSet
  PROVE  Inv' /\ Contract!Next
<1>1. pipe \in Pipelines /\ pipe.next = "set" /\ pipe.id \in Ids /\ pipe.nanos \in Nanos
  BY NoneAssumption DEF RedisPipelineSet, Inv, TypeOK, Pipelines
<1> DEFINE id == pipe.id
           rec == NewRecord(pipe.nanos)
<1>2. /\ rec \in AuditEntries /\ rec # None /\ rec.ts = Truncate(pipe.nanos) /\ rec.expires > now
      /\ rec = Contract!New(Truncate(pipe.nanos))
  BY <1>1, NewRecordOK
<1>3. audit' = [audit EXCEPT ![id] = rec]
  BY DEF RedisPipelineSet
<1> HIDE DEF rec
<1>4. pipe' \in Pipelines /\ pipe'.id = id /\ pipe'.next = "zadd"
  BY <1>1 DEF RedisPipelineSet, Pipelines
<1>5. TypeOK'
  BY <1>1, <1>2, <1>3, <1>4 DEF Inv, TypeOK, RedisPipelineSet, OnRedis
<1>6. PayloadsOK'
  BY DEF Inv, PayloadsOK, RedisPipelineSet, OnRedis
<1>7. update # None => RedisLive(audit[update.id])' /\ update.ts <= audit'[update.id].ts
  <2>1. SUFFICES ASSUME update # None
                 PROVE  RedisLive(audit[update.id])' /\ update.ts <= audit'[update.id].ts
    OBVIOUS
  <2>2. update \in Updates /\ update.id \in Ids /\ update.ts \in Nat
    BY <2>1, MicrosNat DEF Inv, TypeOK, Updates
  <2>3. RedisLive(audit[update.id]) /\ update.ts <= audit[update.id].ts
    BY <2>1 DEF Inv, CallsOK
  <2>4. CASE update.id = id
    <3>1. audit[id] # None /\ audit[id].ts <= Truncate(pipe.nanos)
      BY <1>1, <2>3, <2>4, NoneAssumption DEF Inv, CallsOK, RedisLive
    <3>2. audit[id].ts \in Nat /\ Truncate(pipe.nanos) \in Nat
      BY <1>1, <3>1, MicrosNat DEF Inv, TypeOK, AuditEntries
    <3>3. audit'[update.id] = rec /\ now' = now /\ update' = update
      BY <1>1, <1>3, <2>4 DEF Inv, TypeOK, RedisPipelineSet, OnRedis
    <3> QED
      BY <1>2, <2>2, <2>3, <2>4, <3>1, <3>2, <3>3 DEF RedisLive
  <2>5. CASE update.id # id
    BY <1>3, <2>2, <2>3, <2>5 DEF RedisLive, RedisPipelineSet, OnRedis, Inv, TypeOK
  <2> QED
    BY <2>4, <2>5
<1>8. CallsOK'
  <2>1. backend' = "redis" /\ update' = update
    BY DEF RedisPipelineSet, OnRedis
  <2>2. audit'[pipe'.id] # None
    BY <1>1, <1>2, <1>3, <1>4 DEF Inv, TypeOK
  <2> QED
    BY <1>4, <1>7, <2>1, <2>2 DEF CallsOK
<1>9. Contract!PutAuditRecord(id, Truncate(pipe.nanos))
  BY <1>2, <1>3, OpenedSame DEF Contract!PutAuditRecord, RedisPipelineSet, OnRedis
<1> QED
  BY <1>1, <1>5, <1>6, <1>8, <1>9, MicrosNat DEF Inv, Contract!Next

LEMMA RedisPipelineIndexStep ==
  ASSUME Inv, workload' = workload, RedisPipelineIndex
  PROVE  Inv' /\ UNCHANGED Contract!vars
<1>1. pipe \in Pipelines /\ pipe.id \in Ids /\ Truncate(pipe.nanos) \in Micros
  BY NoneAssumption, MicrosNat DEF RedisPipelineIndex, Inv, TypeOK, Pipelines
<1>2. /\ pipe' = None \/ (pipe' \in Pipelines /\ pipe'.next = "zrem")
      /\ index' \in [Ids -> Micros \cup {None}]
      /\ \A id \in Ids : index'[id] # None => audit'[id] # None
  BY <1>1 DEF RedisPipelineIndex, ZRemRangeByScore, Inv, TypeOK, CallsOK, Pipelines
<1>3. Inv'
  BY <1>2 DEF Inv, TypeOK, PayloadsOK, CallsOK, RedisLive, RedisPipelineIndex, OnRedis
<1> QED
  BY <1>3, Invisible DEF RedisPipelineIndex, OnRedis

LEMMA GetAuditStep ==
  ASSUME Inv, workload' = workload, NEW id \in Ids,
         MemoryGetAuditRecord(id) \/ RedisGetAuditRecord(id) \/ PostgresGetAuditRecord(id)
  PROVE  Inv' /\ Contract!Next
<1> USE DEF InMemory, OnRedis, OnPostgres, tables, calls
<1>0. now \in Nat /\ (audit[id] # None => audit[id].expires \in Nat)
  BY DEF Inv, TypeOK, AuditEntries
<1>1. Inv'
  BY TablesSame DEF MemoryGetAuditRecord, RedisGetAuditRecord, PostgresGetAuditRecord
<1>2. PICK live \in BOOLEAN :
         /\ live => Contract!MayBeLive(audit[id])
         /\ ~live => Contract!MayBeGone(audit[id])
         /\ Answer(IF live THEN <<"record", audit[id]>> ELSE <<"not found">>)
  <2>1. CASE MemoryGetAuditRecord(id)
    <3>1. MemoryLive(audit[id]) => Contract!MayBeLive(audit[id])
      BY DEF MemoryLive, Contract!MayBeLive
    <3>2. ~MemoryLive(audit[id]) => Contract!MayBeGone(audit[id])
      BY <1>0 DEF MemoryLive, Contract!MayBeGone
    <3> MemoryLive(audit[id]) \in BOOLEAN
      BY DEF MemoryLive
    <3> WITNESS MemoryLive(audit[id]) \in BOOLEAN
    <3> QED
      BY <2>1, <3>1, <3>2 DEF MemoryGetAuditRecord
  <2>2. CASE RedisGetAuditRecord(id)
    <3>1. RedisLive(audit[id]) => Contract!MayBeLive(audit[id])
      BY <1>0 DEF RedisLive, Contract!MayBeLive
    <3>2. ~RedisLive(audit[id]) => Contract!MayBeGone(audit[id])
      BY <1>0 DEF RedisLive, Contract!MayBeGone
    <3> RedisLive(audit[id]) \in BOOLEAN
      BY DEF RedisLive
    <3> WITNESS RedisLive(audit[id]) \in BOOLEAN
    <3> QED
      BY <2>2, <3>1, <3>2 DEF RedisGetAuditRecord
  <2>3. CASE PostgresGetAuditRecord(id)
    <3>1. PostgresLive(audit[id]) => Contract!MayBeLive(audit[id])
      BY <1>0 DEF PostgresLive, Contract!MayBeLive
    <3>2. ~PostgresLive(audit[id]) => Contract!MayBeGone(audit[id])
      BY <1>0 DEF PostgresLive, Contract!MayBeGone
    <3> PostgresLive(audit[id]) \in BOOLEAN
      BY DEF PostgresLive
    <3> WITNESS PostgresLive(audit[id]) \in BOOLEAN
    <3> QED
      BY <2>3, <3>1, <3>2 DEF PostgresGetAuditRecord
  <2> QED
    BY <2>1, <2>2, <2>3
<1>3. Contract!GetAuditRecord(id)
  BY <1>2, OpenedSame DEF MemoryGetAuditRecord, RedisGetAuditRecord, PostgresGetAuditRecord, Answer,
     Contract!GetAuditRecord, Contract!Answer, Contract!Shared
<1> QED
  BY <1>1, <1>3 DEF Contract!Next

LEMMA SetTextsStep ==
  ASSUME Inv, workload' = workload, NEW id \in Ids, NEW texts \in Texts,
         MemorySetAuditResponseTexts(id, texts) \/ PostgresSetAuditResponseTexts(id, texts)
  PROVE  Inv' /\ Contract!Next
<1> DEFINE live == IF backend = "memory" THEN MemoryLive(audit[id]) ELSE PostgresLive(audit[id])
<1> USE DEF InMemory, OnPostgres
<1>1. /\ backend' = backend /\ now' = now /\ masking' = masking /\ rules' = rules /\ disabled' = disabled
      /\ settings' = settings /\ index' = index /\ pipe' = pipe /\ update' = update
      /\ pipe = None /\ update = None /\ \A j \in Ids : index[j] = None
  BY DEF MemorySetAuditResponseTexts, PostgresSetAuditResponseTexts, Inv, TypeOK, CallsOK
<1>2. \/ live /\ audit' = [audit EXCEPT ![id].texts = texts] /\ Answer(<<"ok">>)
      \/ ~live /\ audit' = audit /\ Answer(<<"not found">>)
  BY DEF MemorySetAuditResponseTexts, PostgresSetAuditResponseTexts
<1>3. /\ now \in Nat
      /\ audit[id] # None => audit[id] \in AuditEntries /\ audit[id].expires \in Nat /\ audit[id].ts \in Nat
  BY MicrosNat DEF Inv, TypeOK, AuditEntries
<1>4. live => Contract!MayBeLive(audit[id])
  BY <1>3 DEF MemoryLive, PostgresLive, Contract!MayBeLive
<1>5. ~live => Contract!MayBeGone(audit[id])
  BY <1>3 DEF MemoryLive, PostgresLive, Contract!MayBeGone
<1> HIDE DEF live
<1>6. CASE live
  <2>1. audit[id] # None
    BY <1>4, <1>6 DEF Contract!MayBeLive
  <2>2. audit' = [audit EXCEPT ![id].texts = texts]
    BY <1>2, <1>6
  <2>3. [audit[id] EXCEPT !.texts = texts] \in AuditEntries
    BY <1>3, <2>1 DEF AuditEntries
  <2>4. audit' \in [Ids -> AuditEntries \cup {None}]
    BY <2>2, <2>3 DEF Inv, TypeOK
  <2>5. Inv'
    BY <1>1, <2>4 DEF Inv, TypeOK, PayloadsOK, CallsOK
  <2>6. audit' = [audit EXCEPT ![id].ts = audit[id].ts, ![id].texts = texts]
    BY <1>3, <2>1, <2>2 DEF Inv, TypeOK, AuditEntries
  <2>7. audit[id].ts \in 0..audit[id].ts
    BY <1>3, <2>1
  <2>8. Contract!SetAuditResponseTexts(id, texts)
    BY <1>1, <1>2, <1>4, <1>6, <2>6, <2>7, OpenedSame
    DEF Contract!SetAuditResponseTexts, Contract!Answer, Contract!Shared, Answer
  <2> QED
    BY <2>5, <2>8 DEF Contract!Next
<1>7. CASE ~live
  <2>1. audit' = audit
    BY <1>2, <1>7
  <2>2. Inv'
    BY <1>1, <2>1, TablesSame
  <2>3. Contract!SetAuditResponseTexts(id, texts)
    BY <1>1, <1>2, <1>5, <1>7, <2>1, OpenedSame
    DEF Contract!SetAuditResponseTexts, Contract!Answer, Contract!Shared, Answer
  <2> QED
    BY <2>2, <2>3 DEF Contract!Next
<1> QED
  BY <1>6, <1>7

\* The Get of an update is invisible when it finds the record.
LEMMA RedisGetForUpdateStep ==
  ASSUME Inv, workload' = workload, NEW id \in Ids, NEW texts \in Texts, RedisGetForUpdate(id, texts)
  PROVE  Inv' /\ (Contract!Next \/ UNCHANGED Contract!vars)
<1> USE DEF OnRedis, tables
<1>1. CASE RedisLive(audit[id])
  <2>1. /\ update' = [id |-> id, ts |-> audit[id].ts, texts |-> texts] /\ reply' = reply
    BY <1>1 DEF RedisGetForUpdate
  <2>2. audit[id] \in AuditEntries /\ audit[id].ts \in Nat
    BY <1>1, MicrosNat DEF RedisLive, Inv, TypeOK, AuditEntries
  <2>3. update' \in Updates
    BY <2>1, <2>2 DEF Updates, AuditEntries
  <2>4. RedisLive(audit[update.id])' /\ update'.ts <= audit'[update'.id].ts
    <3>1. update'.id = id /\ update'.ts = audit[id].ts
      BY <2>1
    <3>2. audit' = audit /\ now' = now
      BY DEF RedisGetForUpdate
    <3>3. audit'[update'.id] = audit[id]
      BY <3>1, <3>2
    <3> QED
      BY <1>1, <2>2, <3>1, <3>2, <3>3 DEF RedisLive
  <2>5. Inv'
    BY <2>3, <2>4 DEF Inv, TypeOK, PayloadsOK, CallsOK, RedisGetForUpdate
  <2> QED
    BY <2>1, <2>5, Invisible DEF RedisGetForUpdate
<1>2. CASE ~RedisLive(audit[id])
  <2>1. update' = None /\ update = None /\ Answer(<<"not found">>)
    BY <1>2 DEF RedisGetForUpdate
  <2>2. Inv'
    BY <2>1, TablesSame DEF RedisGetForUpdate
  <2>3. Contract!MayBeGone(audit[id])
    BY <1>2 DEF Contract!MayBeGone, RedisLive, Inv, TypeOK, AuditEntries
  <2>4. Contract!SetAuditResponseTexts(id, texts)
    BY <2>1, <2>3, OpenedSame
    DEF RedisGetForUpdate, Contract!SetAuditResponseTexts, Contract!Answer, Contract!Shared, Answer
  <2> QED
    BY <2>2, <2>4 DEF Contract!Next
<1> QED
  BY <1>1, <1>2

LEMMA RecordUpdated ==
  ASSUME NEW r \in AuditEntries, NEW ts, NEW texts
  PROVE  [[r EXCEPT !.ts = ts] EXCEPT !.texts = texts] = [ts |-> ts, texts |-> texts, expires |-> r.expires]
<1>1. [r EXCEPT !.ts = ts] = [ts |-> ts, texts |-> r.texts, expires |-> r.expires]
  BY DEF AuditEntries
<1>2. [[ts |-> ts, texts |-> r.texts, expires |-> r.expires] EXCEPT !.texts = texts]
         = [ts |-> ts, texts |-> texts, expires |-> r.expires]
  OBVIOUS
<1> QED
  BY <1>1, <1>2, Zenon

LEMMA RedisSetKeepTTLStep ==
  ASSUME Inv, workload' = workload, RedisSetKeepTTL
  PROVE  Inv' /\ Contract!Next
<1> DEFINE id == update.id
           old == audit[id]
           new == [ts |-> update.ts, texts |-> update.texts, expires |-> old.expires]
<1>1. update \in Updates /\ id \in Ids /\ update.ts \in Micros /\ update.ts \in Nat /\ update.texts \in Texts
  BY MicrosNat DEF RedisSetKeepTTL, Inv, TypeOK, Updates
<1>2. RedisLive(old) /\ update.ts <= old.ts
  BY DEF RedisSetKeepTTL, Inv, CallsOK
<1>3. old \in AuditEntries /\ old.ts \in Nat /\ old.expires \in Nat
  BY <1>1, <1>2, MicrosNat DEF Inv, TypeOK, RedisLive, AuditEntries
<1>4. audit' = [audit EXCEPT ![id] = new]
  BY <1>2 DEF RedisSetKeepTTL
<1>5. new \in AuditEntries /\ new # None
  <2>1. new \in AuditEntries
    BY <1>1, <1>3 DEF AuditEntries
  <2> QED
    BY <2>1, NoneAssumption
<1>6. update' = None /\ backend' = backend /\ now' = now /\ backend = "redis"
      /\ masking' = masking /\ index' = index /\ rules' = rules /\ disabled' = disabled
      /\ settings' = settings /\ pipe' = pipe /\ Answer(<<"ok">>)
  BY DEF RedisSetKeepTTL, OnRedis
<1>7. TypeOK'
  BY <1>1, <1>4, <1>5, <1>6 DEF Inv, TypeOK
<1>8. PayloadsOK'
  BY <1>6 DEF Inv, PayloadsOK
<1>9. CallsOK'
  <2>1. (pipe # None /\ pipe.next = "zadd") => audit'[pipe.id] # None
    BY <1>1, <1>4, <1>5, <1>3 DEF Inv, TypeOK, CallsOK
  <2>2. (pipe # None /\ pipe.next = "set" /\ audit'[pipe.id] # None)
           => audit'[pipe.id].ts <= Truncate(pipe.nanos)
    <3>1. SUFFICES ASSUME pipe # None, pipe.next = "set", audit'[pipe.id] # None
                   PROVE  audit'[pipe.id].ts <= Truncate(pipe.nanos)
      OBVIOUS
    <3>2. pipe.id \in Ids /\ Truncate(pipe.nanos) \in Nat
      BY <3>1, MicrosNat DEF Inv, TypeOK, Pipelines
    <3>3. CASE pipe.id = id
      <4>1. old.ts <= Truncate(pipe.nanos)
        BY <3>1, <3>3, <1>2 DEF Inv, CallsOK, RedisLive
      <4>2. audit'[pipe.id] = new
        BY <1>1, <1>4, <3>3 DEF Inv, TypeOK
      <4>3. audit'[pipe.id].ts = update.ts
        BY <4>2
      <4> QED
        BY <1>1, <1>2, <1>3, <3>2, <4>1, <4>3
    <3>4. CASE pipe.id # id
      BY <1>4, <3>1, <3>2, <3>4 DEF Inv, TypeOK, CallsOK
    <3> QED
      BY <3>3, <3>4
  <2> QED
    BY <1>6, <2>1, <2>2 DEF CallsOK
<1>10. Contract!SetAuditResponseTexts(id, update.texts)
  <2>1. Contract!MayBeLive(audit[id])
    BY <1>2, <1>3 DEF RedisLive, Contract!MayBeLive, Inv, TypeOK
  <2>2. audit' = [audit EXCEPT ![id].ts = update.ts, ![id].texts = update.texts]
    <3>1. [[old EXCEPT !.ts = update.ts] EXCEPT !.texts = update.texts] = new
      BY <1>3, RecordUpdated
    <3> QED
      BY <1>1, <1>4, <3>1 DEF Inv, TypeOK
  <2>3. update.ts \in 0..audit[id].ts
    BY <1>1, <1>2, <1>3
  <2> QED
    BY <1>6, <2>1, <2>2, <2>3, OpenedSame
    DEF Contract!SetAuditResponseTexts, Contract!Answer, Contract!Shared, Answer
<1> QED
  BY <1>1, <1>6, <1>7, <1>8, <1>9, <1>10 DEF Inv, Contract!Next

-----------------------------------------------------------------------------
(* The steps that no caller takes, and the listing.                         *)

LEMMA TickStep ==
  ASSUME SlowUpdates = FALSE, Inv, workload' = workload, Tick
  PROVE  Inv' /\ Contract!Next
<1>1. update = None /\ now' = now + 1 /\ now' \in Nat
  BY DEF Tick, Inv, TypeOK
<1>2. Inv'
  BY <1>1 DEF Tick, tables, calls, Inv, TypeOK, PayloadsOK, CallsOK
<1>3. Contract!Tick
  BY OpenedSame DEF Tick, tables, calls, Contract!Tick
<1> QED
  BY <1>2, <1>3 DEF Contract!Next

LEMMA FailedCallStep ==
  ASSUME Inv, workload' = workload, Unavailable \/ RedisConnectionLost
  PROVE  Inv' /\ Contract!Next
<1>1. Inv'
  <2>1. CASE Unavailable
    BY <2>1, TablesSame DEF Unavailable, tables, calls
  <2>2. CASE RedisConnectionLost
    BY <2>2 DEF RedisConnectionLost, OnRedis, tables, Inv, TypeOK, PayloadsOK, CallsOK
  <2> QED
    BY <2>1, <2>2
<1>2. Contract!Unavailable
  BY OpenedSame DEF Unavailable, RedisConnectionLost, OnRedis, tables, Contract!Unavailable, Contract!Shared
<1> QED
  BY <1>1, <1>2 DEF Contract!Next

\* A sweep of masking that keeps what is live is a sweep of Opened.
LEMMA OpenedSwept ==
  ASSUME TypeOK, NEW gone \in SUBSET Ids,
         masking' = [id \in Ids |-> IF id \in gone THEN None ELSE masking[id]],
         \A id \in gone : Contract!MayBeGone(masking[id])
  PROVE  /\ gone \in SUBSET {id \in Ids : Contract!MayBeGone(Opened[id])}
         /\ Opened' = [id \in Ids |-> IF id \in gone THEN None ELSE Opened[id]]
<1>1. ASSUME NEW id \in gone PROVE Contract!MayBeGone(Opened[id])
  BY <1>1 DEF Contract!MayBeGone, Opened
<1>2. Opened' = [id \in Ids |-> IF id \in gone THEN None ELSE Opened[id]]
  BY DEF Opened
<1> QED
  BY <1>1, <1>2

LEMMA SweepStep ==
  ASSUME Inv, workload' = workload, backend # "redis", NEW goneM \in SUBSET Ids, NEW goneA \in SUBSET Ids,
         masking' = [id \in Ids |-> IF id \in goneM THEN None ELSE masking[id]],
         audit' = [id \in Ids |-> IF id \in goneA THEN None ELSE audit[id]],
         \A id \in goneM : Contract!MayBeGone(masking[id]),
         \A id \in goneA : Contract!MayBeGone(audit[id]),
         backend' = backend, now' = now, rules' = rules, disabled' = disabled, settings' = settings,
         reply' = reply, index' = index, pipe' = pipe, update' = update
  PROVE  Inv' /\ Contract!Next
<1>1. pipe = None /\ update = None /\ \A id \in Ids : index[id] = None
  BY DEF Inv, TypeOK, CallsOK
<1>2. TypeOK'
  BY <1>1 DEF Inv, TypeOK
<1>3. PayloadsOK'
  BY DEF Inv, TypeOK, PayloadsOK
<1>4. CallsOK'
  BY <1>1 DEF CallsOK
<1>5. Contract!Expire
  BY OpenedSwept DEF Inv, Contract!Expire, Contract!Swept
<1> QED
  BY <1>2, <1>3, <1>4, <1>5 DEF Inv, Contract!Next

LEMMA JanitorStep ==
  ASSUME Inv, workload' = workload, MemoryJanitor \/ PostgresJanitor
  PROVE  Inv' /\ Contract!Next
<1>0. /\ now \in Nat
      /\ \A id \in Ids : /\ masking[id] # None => masking[id].expires \in Nat
                         /\ audit[id] # None => audit[id].expires \in Nat
  BY DEF Inv, TypeOK, MaskEntries, AuditEntries
<1>1. CASE MemoryJanitor
  <2> DEFINE goneM == {id \in Ids : ~MemoryLive(masking[id])}
             goneA == {id \in Ids : ~MemoryLive(audit[id])}
  <2>1. /\ masking' = [id \in Ids |-> IF id \in goneM THEN None ELSE masking[id]]
        /\ audit' = [id \in Ids |-> IF id \in goneA THEN None ELSE audit[id]]
    BY <1>1 DEF MemoryJanitor
  <2>2. /\ \A id \in goneM : Contract!MayBeGone(masking[id])
        /\ \A id \in goneA : Contract!MayBeGone(audit[id])
    BY <1>0 DEF MemoryLive, Contract!MayBeGone
  <2>3. goneM \in SUBSET Ids /\ goneA \in SUBSET Ids
    OBVIOUS
  <2> HIDE DEF goneM, goneA
  <2> QED
    BY <1>1, <2>1, <2>2, <2>3, SweepStep DEF MemoryJanitor, InMemory
<1>2. CASE PostgresJanitor
  <2> DEFINE old(rows) == {id \in Ids : rows[id] # None /\ rows[id].expires < now}
  <2>1. PICK goneM \in {{}, old(masking)}, goneA \in {{}, old(audit)} :
           /\ masking' = [id \in Ids |-> IF id \in goneM THEN None ELSE masking[id]]
           /\ audit' = [id \in Ids |-> IF id \in goneA THEN None ELSE audit[id]]
    <3>1. \E goneM \in {{}, old(masking)} : masking' = [id \in Ids |-> IF id \in goneM THEN None ELSE masking[id]]
      BY <1>2 DEF PostgresJanitor, Inv, TypeOK
    <3>2. \E goneA \in {{}, old(audit)} : audit' = [id \in Ids |-> IF id \in goneA THEN None ELSE audit[id]]
      BY <1>2 DEF PostgresJanitor, Inv, TypeOK
    <3> QED
      BY <3>1, <3>2
  <2>2. /\ \A id \in goneM : Contract!MayBeGone(masking[id])
        /\ \A id \in goneA : Contract!MayBeGone(audit[id])
    BY <1>0 DEF Contract!MayBeGone
  <2>3. goneM \in SUBSET Ids /\ goneA \in SUBSET Ids
    OBVIOUS
  <2> QED
    BY <1>2, <2>1, <2>2, <2>3, SweepStep DEF PostgresJanitor, OnPostgres
<1> QED
  BY <1>1, <1>2

LEMMA RestartStep ==
  ASSUME Inv, workload' = workload, MemoryRestart
  PROVE  Inv' /\ Contract!Next
<1>1. pipe = None /\ update = None /\ \A id \in Ids : index[id] = None
  BY DEF Inv, TypeOK, CallsOK, MemoryRestart, InMemory
<1>2. Inv'
  BY <1>1 DEF MemoryRestart, InMemory, Inv, TypeOK, PayloadsOK, CallsOK
<1>3. Opened' = [id \in Ids |-> None]
  BY DEF MemoryRestart, Opened
<1>4. Contract!Restart
  BY <1>3 DEF MemoryRestart, InMemory, Contract!Restart, Contract!Shared
<1> QED
  BY <1>2, <1>4 DEF Contract!Next

LEMMA ListingStep ==
  ASSUME Inv, workload' = workload,
         \/ StartWalk \/ MemoryListAuditRecords \/ PostgresListAuditRecords
         \/ RedisListAuditRecords \/ RedisListIndex \/ RedisListRecords
  PROVE  Inv' /\ UNCHANGED Contract!vars
<1> USE DEF tables, InMemory, OnRedis, OnPostgres
<1>1. CASE StartWalk
  BY <1>1, TablesSame, Invisible DEF StartWalk
<1>2. CASE MemoryListAuditRecords
  BY <1>2, TablesSame, Invisible DEF MemoryListAuditRecords
<1>3. CASE PostgresListAuditRecords
  BY <1>3, TablesSame, Invisible DEF PostgresListAuditRecords
<1>4. CASE RedisListAuditRecords
  <2>1. /\ index' \in [Ids -> Micros \cup {None}]
        /\ \A id \in Ids : index'[id] # None => audit'[id] # None
    BY <1>4 DEF RedisListAuditRecords, ZRemRangeByScore, Inv, TypeOK
  <2>2. Inv'
    BY <1>4, <2>1 DEF RedisListAuditRecords, Inv, TypeOK, PayloadsOK, CallsOK, RedisLive
  <2> QED
    BY <1>4, <2>2, Invisible DEF RedisListAuditRecords
<1>5. CASE RedisListIndex
  BY <1>5, TablesSame, Invisible DEF RedisListIndex
<1>6. CASE RedisListRecords
  BY <1>6, TablesSame, Invisible DEF RedisListRecords
<1> QED
  BY <1>1, <1>2, <1>3, <1>4, <1>5, <1>6

-----------------------------------------------------------------------------

LEMMA AuditStep ==
  ASSUME Inv, workload' = workload, AuditCalls
  PROVE  Inv' /\ (Contract!Next \/ UNCHANGED Contract!vars)
<1>1. workload.ids \subseteq Ids /\ \A id \in Ids : workload.nanos[id] \subseteq Nanos
  BY WorkloadAssumption DEF Inv
<1>2. CASE PutAudit
  BY <1>1, <1>2, MemoryPutAuditStep, PostgresPutAuditStep, RedisPutAuditStep, RedisPipelineSetStep,
     RedisPipelineIndexStep DEF PutAudit
<1>3. CASE RedisSetKeepTTL
  BY <1>3, RedisSetKeepTTLStep
<1>4. CASE RedisConnectionLost
  BY <1>4, FailedCallStep
<1>5. CASE \E id \in workload.ids : MemoryGetAuditRecord(id) \/ RedisGetAuditRecord(id) \/ PostgresGetAuditRecord(id)
  BY <1>1, <1>5, GetAuditStep
<1>6. CASE \E id \in workload.ids, texts \in Texts :
             \/ MemorySetAuditResponseTexts(id, texts) \/ PostgresSetAuditResponseTexts(id, texts)
             \/ RedisGetForUpdate(id, texts)
  BY <1>1, <1>6, SetTextsStep, RedisGetForUpdateStep
<1> QED
  BY <1>2, <1>3, <1>4, <1>5, <1>6 DEF AuditCalls

\* Every step keeps the invariant and is a step of the contract, or one that
\* the callers cannot see.
LEMMA Step ==
  ASSUME SlowUpdates = FALSE, Inv, [Next]_allVars
  PROVE  Inv' /\ (Contract!Next \/ UNCHANGED Contract!vars)
<1>0. workload.ids \subseteq Ids /\ \A id \in Ids : workload.nanos[id] \subseteq Nanos
  BY WorkloadAssumption DEF Inv
<1>1. CASE UNCHANGED allVars
  BY <1>1, TablesSame, Invisible DEF allVars, vars, tables, calls
<1>2. CASE Next
  <2>1. workload' = workload
    BY <1>2 DEF Next, Observe
  <2>2. CASE Tick
    BY <2>1, <2>2, TickStep
  <2>3. CASE Unavailable
    BY <2>1, <2>3, FailedCallStep
  <2>4. CASE MemoryJanitor \/ PostgresJanitor
    BY <2>1, <2>4, JanitorStep
  <2>5. CASE MemoryRestart
    BY <2>1, <2>5, RestartStep
  <2>6. CASE MaskingCalls
    BY <1>0, <2>1, <2>6, MaskingStep DEF MaskingCalls
  <2>7. CASE AuditCalls
    BY <2>1, <2>7, AuditStep
  <2>8. CASE ListingCalls
    <3>1. CASE PutAudit
      BY <1>0, <2>1, <3>1, MemoryPutAuditStep, PostgresPutAuditStep, RedisPutAuditStep, RedisPipelineSetStep,
         RedisPipelineIndexStep DEF PutAudit
    <3> QED
      BY <2>1, <2>8, <3>1, ListingStep DEF ListingCalls
  <2>9. CASE RuleAndSettingsCalls
    <3>1. CASE \E id \in RuleIds, c \in Contents :
             \/ MemoryCreateRule(id, c) \/ MemorySaveRule(id, c) \/ MemoryDeleteRule(id)
             \/ RedisCreateRule(id, c) \/ RedisSaveRule(id, c) \/ RedisDeleteRule(id)
             \/ PostgresCreateRule(id, c) \/ PostgresSaveRule(id, c) \/ PostgresDeleteRule(id)
      BY <2>1, <3>1, RuleStep
    <3> QED
      BY <2>1, <2>9, <3>1, ConfigStep DEF RuleAndSettingsCalls
  <2> QED
    BY <1>2, <2>2, <2>3, <2>4, <2>5, <2>6, <2>7, <2>8, <2>9 DEF Next
<1> QED
  BY <1>1, <1>2

\* The tables keep their types, and the Redis index names only records that
\* were written: for any number of requests and any interleaving of the
\* commands of pipelines.
THEOREM TypeCorrect ==
  ASSUME SlowUpdates = FALSE
  PROVE  Spec => []TypeOK
<1>1. Inv /\ [Next]_allVars => Inv'
  BY Step
<1>2. Inv => TypeOK
  BY DEF Inv
<1> QED
  BY <1>1, <1>2, InitInv, PTL DEF Spec

\* Every backend implements the contract of the repository, provided that
\* SetAuditResponseTexts of Redis is not so slow that the record expires
\* between its Get and its Set.
THEOREM ContractCorrect ==
  ASSUME SlowUpdates = FALSE
  PROVE  Spec => ImplementsContract
<1>1. Inv /\ [Next]_allVars => Inv' /\ [Contract!Next]_(Contract!vars)
  BY Step
<1> QED
  BY <1>1, InitInv, InitContract, PTL DEF Spec, ImplementsContract, Contract!Spec

-----------------------------------------------------------------------------
(* Listing audit records.  First the order of positions.                    *)

Positions == Micros \X Ids

LEMMA PositionNumbers ==
  ASSUME NEW p \in Positions
  PROVE  p[1] \in Nat /\ p[2] \in Nat /\ p = <<p[1], p[2]>> /\ p[1] \in Micros /\ p[2] \in Ids
<1>1. Micros \subseteq Nat /\ Ids \subseteq Nat
  BY MicrosNat, StoreAssumption
<1>2. PICK t \in Micros, id \in Ids : p = <<t, id>>
  BY DEF Positions
<1>3. p[1] = t /\ p[2] = id
  BY <1>2
<1> QED
  BY <1>1, <1>2, <1>3

LEMMA BeforeOrders ==
  ASSUME NEW p \in Positions, NEW q \in Positions
  PROVE  /\ ~ Before(p, p)
         /\ Before(p, q) => ~ Before(q, p) /\ p # q
         /\ p # q => Before(p, q) \/ Before(q, p)
         /\ \A r \in Positions : Before(p, q) /\ Before(q, r) => Before(p, r)
  BY PositionNumbers DEF Before

\* What Listing lists, it lists once and the newest first.
LEMMA ListingSorted ==
  ASSUME NEW S \in SUBSET Positions, IsFiniteSet(S)
  PROVE  /\ Listing(S) \in Seq(S) /\ Len(Listing(S)) = Cardinality(S)
         /\ \A m, n \in 1 .. Len(Listing(S)) : m < n => Before(Listing(S)[n], Listing(S)[m])
         /\ \A p \in S : \E n \in 1 .. Len(Listing(S)) : Listing(S)[n] = p
<1> DEFINE R == {x \in S \X S : Before(x[2], x[1])}
           N == Cardinality(S)
<1>3. \A x, y \in S : <<x, y>> \in R <=> Before(y, x)
  OBVIOUS
<1> HIDE DEF R
<1>1. StrictlyOrders(R, S)
  BY <1>3, BeforeOrders DEF StrictlyOrders
<1>2. \A p \in S : {q \in S : <<q, p>> \in R} = {q \in S : Before(p, q)}
  BY <1>3
<1>4. ByRank(S, R) = Listing(S)
  <2> DEFINE newest(n) == CHOOSE p \in S : Cardinality({q \in S : Before(p, q)}) = n - 1
             byRank(n) == CHOOSE p \in S : Cardinality({q \in S : <<q, p>> \in R}) = n - 1
  <2>1. \A n : newest(n) = byRank(n)
    BY <1>2
  <2>2. Listing(S) = [n \in 1 .. N |-> newest(n)]
    BY DEF Listing
  <2>3. ByRank(S, R) = [n \in 1 .. N |-> byRank(n)]
    BY DEF ByRank
  <2> HIDE DEF newest, byRank
  <2> QED
    BY <2>1, <2>2, <2>3
<1>5. /\ N \in Nat /\ Listing(S) \in [1 .. N -> S]
      /\ \A m, n \in 1 .. N : m < n => <<Listing(S)[m], Listing(S)[n]>> \in R
      /\ \A p \in S : \E n \in 1 .. N : Listing(S)[n] = p
  BY <1>1, <1>4, RankListing
<1> HIDE DEF N
<1>6. Listing(S) \in Seq(S) /\ Len(Listing(S)) = N
  BY <1>5
<1> QED
  BY <1>3, <1>5, <1>6 DEF N

\* The last position of a set.
LEMMA LastExists ==
  ASSUME NEW S \in SUBSET Positions, S # {}
  PROVE  LastOf(S) \in S /\ \A q \in S : q = LastOf(S) \/ Before(LastOf(S), q)
<1>1. \A p \in S : p[1] \in Nat /\ p[2] \in Nat /\ p = <<p[1], p[2]>>
  BY PositionNumbers
<1> DEFINE stamps == {p[1] : p \in S}
<1>2. PICK t \in stamps : \A u \in stamps : t <= u
  BY <1>1, NatMinimum
<1> DEFINE ties == {p[2] : p \in {q \in S : q[1] = t}}
<1>3. PICK d \in ties : \A id \in ties : d <= id
  <2>1. ties # {} /\ ties \in SUBSET Nat
    BY <1>1, <1>2
  <2> QED
    BY <2>1, NatMinimum
<1>4. PICK p \in S : p[1] = t /\ p[2] = d
  BY <1>3
<1>5. ASSUME NEW q \in S, q # p PROVE Before(p, q)
  <2>1. p[1] <= q[1]
    BY <1>2, <1>4
  <2>2. q[1] = p[1] => p[2] <= q[2]
    BY <1>3, <1>4
  <2>3. q[1] # p[1] \/ q[2] # p[2]
    BY <1>1, <1>5
  <2> QED
    BY <1>1, <2>1, <2>2, <2>3 DEF Before
<1> QED
  BY <1>5 DEF LastOf

\* Those of a finite set of positions with fewer than B ahead of them come
\* before the others, and there are B of them if there are others.
LEMMA WindowSplits ==
  ASSUME NEW S \in SUBSET Positions, IsFiniteSet(S), NEW B \in Nat,
         NEW Z, Z = {p \in S : Cardinality({q \in S : Before(p, q)}) < B}
  PROVE  /\ IsFiniteSet(Z) /\ Z \subseteq S
         /\ \A p \in S \ Z, q \in Z : Before(p, q)
         /\ Cardinality(Z) < B => Z = S
<1> DEFINE ahead(p) == {q \in S : Before(p, q)}
<1>1. \A p \in S : IsFiniteSet(ahead(p)) /\ Cardinality(ahead(p)) \in Nat
  BY FS_Subset, FS_CardinalityType
<1>2. IsFiniteSet(Z) /\ Z \subseteq S
  BY FS_Subset
<1>3. ASSUME NEW p \in S, NEW q \in S, Before(p, q) PROVE Cardinality(ahead(q)) < Cardinality(ahead(p))
  <2>1. ahead(q) \in SUBSET ahead(p) /\ q \in ahead(p) /\ q \notin ahead(q)
    BY <1>3, BeforeOrders
  <2>2. Cardinality(ahead(q)) <= Cardinality(ahead(p)) /\ Cardinality(ahead(q)) # Cardinality(ahead(p))
    BY <1>1, <2>1, FS_Subset
  <2> QED
    BY <1>1, <2>2
<1>3a. \A p \in S : p \in Z <=> Cardinality(ahead(p)) < B
  OBVIOUS
<1>3b. \A p \in S : \A q : q \in ahead(p) <=> q \in S /\ Before(p, q)
  OBVIOUS
<1> HIDE DEF ahead
<1>4. ASSUME NEW p \in S \ Z, NEW q \in Z PROVE Before(p, q)
  <2>1. ~ (Cardinality(ahead(p)) < B) /\ Cardinality(ahead(q)) < B /\ p # q /\ q \in S
    BY <1>2, <1>3a
  <2>2. ~ Before(q, p)
    BY <1>1, <1>3, <2>1
  <2> QED
    BY <2>1, <2>2, BeforeOrders
<1>5. ASSUME Z # S PROVE ~ (Cardinality(Z) < B)
  <2> DEFINE ranks == {Cardinality(ahead(p)) : p \in S \ Z}
  <2>1. ranks # {} /\ ranks \in SUBSET Nat
    BY <1>1, <1>2, <1>5
  <2>2. PICK n \in ranks : \A m \in ranks : n <= m
    BY <2>1, NatMinimum
  <2>3. PICK p \in S \ Z : n = Cardinality(ahead(p))
    BY <2>2
  <2>4. ASSUME NEW q \in ahead(p), q \notin Z PROVE FALSE
    <3>1. Cardinality(ahead(q)) \in ranks /\ Cardinality(ahead(q)) < n
      BY <1>3, <1>3b, <2>3, <2>4
    <3>2. \A r \in ranks : r \in Nat
      BY <2>1
    <3> HIDE DEF ranks
    <3> QED
      BY <2>2, <3>1, <3>2
  <2>5. Cardinality(ahead(p)) <= Cardinality(Z) /\ Cardinality(Z) \in Nat
    BY <1>2, <2>4, FS_Subset, FS_CardinalityType
  <2>6. ~ (Cardinality(ahead(p)) < B)
    BY <1>3a
  <2> QED
    BY <1>1, <2>5, <2>6
<1> QED
  BY <1>2, <1>4, <1>5

-----------------------------------------------------------------------------
(* The invariant of a walk.                                                 *)

Walks ==
    [phase : {"idle", "ready", "index", "records", "done"}, budget : Nat, cursor : Positions \cup {None},
     out : Seq(Positions), round : Nat, bound : Micros \cup {None}, seen : SUBSET Ids, ids : SUBSET Positions,
     exhausted : BOOLEAN, collected : Seq(Positions), last : Positions \cup {None}]

WalkTypeOK ==
    /\ walk \in Walks /\ stable \in SUBSET Ids
    /\ walk.phase = "idle" => walk.out = <<>> /\ walk.cursor = None /\ stable = {}
    /\ \A id \in stable : Listable(id)
    /\ walk.phase # "idle" => workload.uses = "listing"
    /\ workload.uses = "listing" => update = None
    /\ walk.phase \in {"index", "records"} => backend = "redis"

\* The records that the client is still to see.
Undelivered == {id \in stable : Delivered(id) = {}}

\* Between two calls: what is still to come lies after the cursor.  Pages that
\* are read in one step are in order from the first to the last.
PagesOK ==
    /\ \A n \in 1..Len(walk.out) : walk.out[n][2] \in stable => walk.out[n] = Position(walk.out[n][2])
    /\ ListingOrdered /\ ListingComplete
    /\ walk.phase # "done" => \A id \in Undelivered : AfterCursor(Position(id))
    /\ backend # "redis" =>
          /\ \A m, n \in 1..Len(walk.out) : m < n => Before(walk.out[n], walk.out[m])
          /\ walk.phase # "done" =>
                \A n \in 1..Len(walk.out) : walk.cursor # None /\ ~ Before(walk.out[n], walk.cursor)

Among(id, found, n) == \E k \in 1..n : found[k][2] = id

\* What a call has found so far: it comes before all that is still to come.
FoundOK(found) ==
    /\ \A k \in 1..Len(found) : found[k][2] \in stable => found[k] = Position(found[k][2])
    /\ \A k \in 1..Len(found), id \in Undelivered : Among(id, found, k) \/ Before(Position(id), found[k])

Collected(id) == Among(id, walk.collected, Len(walk.collected))

\* The next round of the call will read it.
Ahead(id) ==
    walk.bound = None \/ audit[id].ts < walk.bound \/ (audit[id].ts = walk.bound /\ id \notin walk.seen)

\* Between the rounds of a call of Redis.
CallOK ==
    walk.phase \in {"index", "records"} =>
    /\ FoundOK(walk.collected)
    /\ Cardinality(walk.seen) < Batch
    /\ \A id \in walk.seen \cap stable : walk.bound # None /\ audit[id].ts = walk.bound
    /\ walk.phase = "index" => \A id \in Undelivered : Collected(id) \/ Ahead(id)
    /\ walk.phase = "records" =>
          /\ IsFiniteSet(walk.ids)
          /\ \A p \in walk.ids : audit[p[2]] # None /\ p[1] <= audit[p[2]].ts
          /\ walk.exhausted \/ walk.last # None
          /\ \A id \in Undelivered :
                \/ Collected(id) \/ Position(id) \in walk.ids
                \/ /\ ~ walk.exhausted /\ Ahead(id) /\ Before(Position(id), walk.last)
                   /\ \A p \in walk.ids : Before(Position(id), p)

\* The index of Redis lags behind the records, and no microsecond is crowded.
Crowd(score) == {id \in Ids : index[id] = score}

IndexOK ==
    workload.uses = "listing" /\ backend = "redis" =>
    /\ \A id \in Ids : index[id] # None => index[id] <= audit[id].ts
    /\ \A score \in Micros : Cardinality(Crowd(score)) < Batch
    /\ pipe # None /\ pipe.next # "zrem" => Cardinality(Crowd(Truncate(pipe.nanos)) \ {pipe.id}) + 1 < Batch
    /\ pipe # None /\ pipe.next = "zadd" => Truncate(pipe.nanos) <= audit[pipe.id].ts

WalkInv == WalkTypeOK /\ PagesOK /\ CallOK /\ IndexOK

-----------------------------------------------------------------------------
(* Steps that leave the walk alone.                                         *)

LEMMA WalkFields ==
  ASSUME WalkTypeOK
  PROVE  /\ walk.out \in Seq(Positions) /\ walk.collected \in Seq(Positions)
         /\ Len(walk.out) \in Nat /\ DOMAIN walk.out = 1 .. Len(walk.out)
         /\ \A n \in 1 .. Len(walk.out) : walk.out[n] \in Positions
         /\ Len(walk.collected) \in Nat /\ DOMAIN walk.collected = 1 .. Len(walk.collected)
         /\ \A n \in 1 .. Len(walk.collected) : walk.collected[n] \in Positions
         /\ walk.ids \in SUBSET Positions /\ walk.seen \in SUBSET Ids
         /\ walk.cursor \in Positions \cup {None} /\ walk.last \in Positions \cup {None}
         /\ walk.bound \in Micros \cup {None} /\ walk.exhausted \in BOOLEAN
         /\ walk.phase \in {"idle", "ready", "index", "records", "done"}
<1>1. /\ walk.out \in Seq(Positions) /\ walk.collected \in Seq(Positions)
      /\ walk.ids \in SUBSET Positions /\ walk.seen \in SUBSET Ids
      /\ walk.cursor \in Positions \cup {None} /\ walk.last \in Positions \cup {None}
      /\ walk.bound \in Micros \cup {None} /\ walk.exhausted \in BOOLEAN
      /\ walk.phase \in {"idle", "ready", "index", "records", "done"}
  BY DEF WalkTypeOK, Walks
<1> QED
  BY <1>1

\* A record that is listed has a position.
LEMMA StablePositions ==
  ASSUME Inv, WalkTypeOK, NEW id \in stable
  PROVE  /\ id \in Ids /\ audit[id] # None /\ audit[id].ts \in Micros /\ audit[id].ts \in Nat
         /\ Position(id) \in Positions /\ Position(id)[1] = audit[id].ts /\ Position(id)[2] = id
         /\ backend = "redis" => index[id] = audit[id].ts /\ RedisLive(audit[id])
         /\ Matches(id) /\ audit[id].expires > now
<1>1. id \in Ids /\ Listable(id)
  BY DEF WalkTypeOK
<1>2. audit[id] \in AuditEntries
  BY <1>1 DEF Inv, TypeOK, Listable
<1>3. audit[id].ts \in Micros
  BY <1>2 DEF AuditEntries
<1> QED
  BY <1>1, <1>3, MicrosNat DEF Listable, Position, Positions, RedisLive

\* What does not touch the listed records keeps what was found in order.
LEMMA FoundSame ==
  ASSUME NEW found, FoundOK(found), stable' \subseteq stable, walk'.out = walk.out,
         \A id \in stable' : audit'[id] = audit[id]
  PROVE  FoundOK(found)'
<1>1. \A id \in stable' : id \in stable /\ Position(id)' = Position(id)
  BY DEF Position
<1>2. Undelivered' \subseteq Undelivered
  BY <1>1 DEF Undelivered, Delivered
<1>3. \A id \in Undelivered' : id \in stable'
  BY DEF Undelivered
<1>4. \A p, q : Before(p, q)' = Before(p, q)
  BY DEF Before
<1>5. ASSUME NEW k \in 1 .. Len(found), found[k][2] \in stable' PROVE found[k] = Position(found[k][2])'
  BY <1>1, <1>5 DEF FoundOK
<1>6. ASSUME NEW k \in 1 .. Len(found), NEW id \in Undelivered'
      PROVE  Among(id, found, k)' \/ Before(Position(id), found[k])'
  <2>1. Among(id, found, k) \/ Before(Position(id), found[k])
    BY <1>2, <1>6 DEF FoundOK
  <2> QED
    BY <1>1, <1>3, <2>1 DEF Among, Before
<1> QED
  BY <1>5, <1>6 DEF FoundOK

\* The same for what was delivered, when no page is.
LEMMA PagesKept ==
  ASSUME WalkTypeOK, PagesOK, walk'.out = walk.out, walk'.cursor = walk.cursor,
         walk'.phase = "done" <=> walk.phase = "done", backend' = backend,
         stable' = {id \in stable : audit'[id] = audit[id] /\ Listable(id)'}
  PROVE  /\ PagesOK' /\ Undelivered' \subseteq Undelivered /\ stable' \in SUBSET Ids
         /\ \A id \in Undelivered' : id \in stable'
         /\ \A id \in stable' : id \in stable /\ Position(id)' = Position(id) /\ audit'[id] = audit[id]
         /\ \A id \in stable' : Listable(id)'
<1>1. /\ \A id \in stable' : id \in stable /\ Position(id)' = Position(id) /\ audit'[id] = audit[id]
      /\ \A id \in stable' : Listable(id)'
      /\ stable' \in SUBSET Ids
  BY DEF Position, WalkTypeOK
<1>2. \A id : Delivered(id)' = Delivered(id)
  BY DEF Delivered
<1>3. Undelivered' \subseteq Undelivered /\ \A id \in Undelivered' : id \in stable'
  BY <1>1, <1>2 DEF Undelivered
<1>4. \A p, q : Before(p, q)' = Before(p, q)
  BY DEF Before
<1>6. PagesOK'
  <2>1. \A n \in 1..Len(walk.out) :
           walk.out[n][2] \in stable' => walk.out[n] = <<audit'[walk.out[n][2]].ts, walk.out[n][2]>>
    BY <1>1 DEF PagesOK, Position
  <2>2. ListingOrdered'
    BY <1>1, <1>2, <1>4 DEF PagesOK, ListingOrdered, Before
  <2>3. ListingComplete'
    BY <1>1, <1>2 DEF PagesOK, ListingComplete
  <2>4. walk'.phase # "done" => \A id \in Undelivered' : AfterCursor(Position(id))'
    BY <1>1, <1>3, <1>4 DEF PagesOK, AfterCursor, Before
  <2>5. backend' # "redis" =>
           /\ \A m, n \in 1..Len(walk'.out) : m < n => Before(walk'.out[n], walk'.out[m])
           /\ walk'.phase # "done" =>
                 \A n \in 1..Len(walk'.out) : walk'.cursor # None /\ ~ Before(walk'.out[n], walk'.cursor)
    BY DEF PagesOK
  <2> QED
    BY <2>1, <2>2, <2>3, <2>4, <2>5 DEF PagesOK, Before, Position
<1> QED
  BY <1>1, <1>3, <1>6

LEMMA QuietWalk ==
  ASSUME Inv, WalkInv, walk' = walk, workload' = workload, backend' = backend,
         stable' = {id \in stable : audit'[id] = audit[id] /\ Listable(id)'},
         workload.uses = "listing" => update' = None,
         walk.phase = "records" => \A id \in Ids :
            audit[id] # None => audit'[id] # None /\ audit[id].ts <= audit'[id].ts /\ audit'[id].ts \in Nat,
         IndexOK'
  PROVE  WalkInv'
<1>1. /\ \A id \in stable' : id \in stable /\ Position(id)' = Position(id) /\ audit'[id] = audit[id]
      /\ \A id \in stable' : Listable(id)'
      /\ stable' \in SUBSET Ids
  BY PagesKept DEF WalkInv
<1>3. Undelivered' \subseteq Undelivered /\ \A id \in Undelivered' : id \in stable'
  BY PagesKept DEF WalkInv
<1>5. WalkTypeOK'
  <2>1. stable' \in SUBSET Ids /\ stable' \subseteq stable
    BY <1>1
  <2>2. Walks' = Walks
    BY DEF Walks
  <2> QED
    BY <1>1, <2>1, <2>2 DEF WalkInv, WalkTypeOK
<1>6. PagesOK'
  BY PagesKept DEF WalkInv
<1>7. CallOK'
  <2> SUFFICES ASSUME walk.phase \in {"index", "records"} PROVE CallOK'
    BY DEF CallOK
  <2>1. FoundOK(walk.collected)'
    <3>1. FoundOK(walk.collected)
      BY DEF WalkInv, CallOK
    <3> DEFINE found == walk.collected
    <3>2. FoundOK(found)'
      <4> HIDE DEF found
      <4>1. found' = found
        BY DEF found
      <4> QED
        BY <1>1, <3>1, <4>1, FoundSame DEF found, FoundOK
    <3> QED
      BY <3>2
  <2>2. \A id \in walk.seen \cap stable' : walk.bound # None /\ audit'[id].ts = walk.bound
    BY <1>1 DEF WalkInv, CallOK
  <2>3. \A id \in Undelivered' : Ahead(id)' = Ahead(id) /\ Collected(id)' = Collected(id)
    BY <1>1, <1>3 DEF Ahead, Collected, Among
  <2>4. walk.phase = "index" => \A id \in Undelivered' : Collected(id)' \/ Ahead(id)'
    BY <1>3, <2>3 DEF WalkInv, CallOK
  <2>5. ASSUME walk.phase = "records"
        PROVE  /\ \A p \in walk.ids : audit'[p[2]] # None /\ p[1] <= audit'[p[2]].ts
               /\ \A id \in Undelivered' :
                     \/ Collected(id)' \/ Position(id)' \in walk.ids
                     \/ /\ ~ walk.exhausted /\ Ahead(id)' /\ Before(Position(id), walk.last)'
                        /\ \A p \in walk.ids : Before(Position(id)', p)
    <3>1. ASSUME NEW p \in walk.ids PROVE audit'[p[2]] # None /\ p[1] <= audit'[p[2]].ts
      <4>1. p \in Positions
        BY WalkFields DEF WalkInv
      <4>2. p[2] \in Ids /\ p[1] \in Nat
        BY <4>1, PositionNumbers
      <4>3. audit[p[2]] # None /\ p[1] <= audit[p[2]].ts
        BY <2>5 DEF WalkInv, CallOK
      <4>4. audit[p[2]].ts \in Nat
        <5>1. audit[p[2]] \in AuditEntries
          BY <4>2, <4>3 DEF Inv, TypeOK
        <5> QED
          BY <5>1, MicrosNat DEF AuditEntries
      <4> QED
        BY <2>5, <4>2, <4>3, <4>4
    <3>2. ASSUME NEW id \in Undelivered'
          PROVE  \/ Collected(id)' \/ Position(id)' \in walk.ids
                 \/ /\ ~ walk.exhausted /\ Ahead(id)' /\ Before(Position(id), walk.last)'
                    /\ \A p \in walk.ids : Before(Position(id)', p)
      <4>1. id \in stable' /\ id \in Undelivered /\ Position(id)' = Position(id)
        BY <1>1, <1>3
      <4>2. \/ Collected(id) \/ Position(id) \in walk.ids
            \/ /\ ~ walk.exhausted /\ Ahead(id) /\ Before(Position(id), walk.last)
               /\ \A p \in walk.ids : Before(Position(id), p)
        BY <2>5, <4>1 DEF WalkInv, CallOK
      <4> QED
        BY <2>3, <4>1, <4>2 DEF Before
    <3> QED
      BY <3>1, <3>2
  <2>6. Batch' = Batch
    BY DEF Batch, ClampAuditLimit
  <2> QED
    BY <2>1, <2>2, <2>4, <2>5, <2>6 DEF WalkInv, CallOK, Before
<1> QED
  BY <1>5, <1>6, <1>7 DEF WalkInv

-----------------------------------------------------------------------------
(* A page is delivered.                                                     *)

LEMMA LimitPositive == ClampAuditLimit \in Nat /\ ClampAuditLimit >= 1 /\ Batch \in Nat /\ Batch >= 2
<1>1. ClampAuditLimit \in Nat /\ ClampAuditLimit >= 1
  BY StoreAssumption DEF ClampAuditLimit
<1> QED
  BY <1>1, StoreAssumption DEF Batch

\* What is found, and what is still to come if the call gives up here.
Promised(found, otherwise) ==
    \A id \in Undelivered :
       Among(id, found, Len(found)) \/ (otherwise # None /\ Before(Position(id), otherwise))

\* What a page read in one step finds.
FoundAtOnce(found, otherwise) ==
    /\ otherwise = None
    /\ \A m, n \in 1 .. Len(found) : m < n => Before(found[n], found[m])
    /\ \A n \in 1 .. Len(found) : AfterCursor(found[n])

LEMMA PageCut ==
  ASSUME NEW found \in Seq(Positions), FoundOK(found), NEW otherwise \in Positions \cup {None},
         Promised(found, otherwise), backend # "redis" => FoundAtOnce(found, otherwise),
         DeliverPage(found, otherwise)
  PROVE  \E lim \in 0 .. Len(found), c \in Positions \cup {None} :
            /\ walk' = [walk EXCEPT !.out = @ \o SubSeq(found, 1, lim), !.cursor = c,
                                    !.phase = IF c = None THEN "done" ELSE "ready"]
            /\ c = None => lim = Len(found)
            /\ \A id \in Undelivered : Among(id, found, lim) \/ (c # None /\ Before(Position(id), c))
            /\ backend # "redis" /\ c # None => lim >= 1 /\ c = found[lim]
<1> DEFINE L == ClampAuditLimit
<1>1. Len(found) \in Nat /\ \A k \in 1 .. Len(found) : found[k] \in Positions
  OBVIOUS
<1>2. CASE Len(found) > L
  <2>1. L \in 1 .. Len(found) /\ L \in 0 .. Len(found) /\ L >= 1
    BY <1>1, <1>2, LimitPositive
  <2>2. EncodeAuditCursor(found[L][1], found[L][2]) = found[L] /\ found[L] \in Positions /\ found[L] # None
    BY <1>1, <2>1, PositionNumbers, NoneAssumption DEF EncodeAuditCursor, Positions
  <2>3. walk' = [walk EXCEPT !.out = @ \o SubSeq(found, 1, L), !.cursor = found[L],
                             !.phase = IF found[L] = None THEN "done" ELSE "ready"]
    BY <1>2, <2>2 DEF DeliverPage, Deliver
  <2>4. \A id \in Undelivered : Among(id, found, L) \/ Before(Position(id), found[L])
    BY <2>1 DEF FoundOK
  <2> HIDE DEF L
  <2> QED
    BY <2>1, <2>2, <2>3, <2>4
<1>3. CASE ~ (Len(found) > L)
  <2>1. SubSeq(found, 1, Len(found)) = found /\ Len(found) \in 0 .. Len(found)
    BY <1>1
  <2>2. walk' = [walk EXCEPT !.out = @ \o SubSeq(found, 1, Len(found)), !.cursor = otherwise,
                             !.phase = IF otherwise = None THEN "done" ELSE "ready"]
    BY <1>3, <2>1 DEF DeliverPage, Deliver
  <2>3. \A id \in Undelivered :
           Among(id, found, Len(found)) \/ (otherwise # None /\ Before(Position(id), otherwise))
    BY DEF Promised
  <2>4. backend # "redis" => otherwise = None
    BY DEF FoundAtOnce
  <2> QED
    BY <2>1, <2>2, <2>3, <2>4
<1> QED
  BY <1>2, <1>3

LEMMA Appended ==
  ASSUME NEW S, NEW s \in Seq(S), NEW t \in Seq(S)
  PROVE  /\ s \o t \in Seq(S) /\ Len(s \o t) = Len(s) + Len(t)
         /\ \A n \in 1 .. Len(s) : n \in 1 .. Len(s) + Len(t) /\ (s \o t)[n] = s[n]
         /\ \A k \in 1 .. Len(t) : Len(s) + k \in 1 .. Len(s) + Len(t) /\ (s \o t)[Len(s) + k] = t[k]
         /\ \A n \in 1 .. Len(s) + Len(t) : n \in 1 .. Len(s) \/ \E k \in 1 .. Len(t) : n = Len(s) + k
<1>1. Len(s) \in Nat /\ Len(t) \in Nat
  OBVIOUS
<1>2. ASSUME NEW n \in 1 .. Len(s) + Len(t), n \notin 1 .. Len(s) PROVE \E k \in 1 .. Len(t) : n = Len(s) + k
  <2>1. n - Len(s) \in 1 .. Len(t) /\ n = Len(s) + (n - Len(s))
    BY <1>1, <1>2
  <2> QED
    BY <2>1
<1>3. \A n \in 1 .. Len(s) : n \in 1 .. Len(s) + Len(t) /\ (s \o t)[n] = s[n]
  BY <1>1
<1>4. \A k \in 1 .. Len(t) : Len(s) + k \in 1 .. Len(s) + Len(t) /\ (s \o t)[Len(s) + k] = t[k]
  BY <1>1
<1>5. s \o t \in Seq(S) /\ Len(s \o t) = Len(s) + Len(t)
  OBVIOUS
<1> QED
  BY <1>2, <1>3, <1>4, <1>5

LEMMA PageDelivered ==
  ASSUME Inv, WalkInv, walk.phase \in {"ready", "index", "records"},
         workload' = workload, backend' = backend, audit' = audit, update' = update,
         stable' = {id \in stable : audit'[id] = audit[id] /\ Listable(id)'},
         NEW found \in Seq(Positions), FoundOK(found), NEW otherwise \in Positions \cup {None},
         Promised(found, otherwise), backend # "redis" => FoundAtOnce(found, otherwise),
         DeliverPage(found, otherwise), IndexOK'
  PROVE  WalkInv'
<1>1. PICK lim \in 0 .. Len(found), c \in Positions \cup {None} :
         /\ walk' = [walk EXCEPT !.out = @ \o SubSeq(found, 1, lim), !.cursor = c,
                                 !.phase = IF c = None THEN "done" ELSE "ready"]
         /\ c = None => lim = Len(found)
         /\ \A id \in Undelivered : Among(id, found, lim) \/ (c # None /\ Before(Position(id), c))
         /\ backend # "redis" /\ c # None => lim >= 1 /\ c = found[lim]
  BY PageCut
<1> DEFINE out == walk.out
           len == Len(walk.out)
           new == walk'.out
<1>2. WalkTypeOK /\ PagesOK
  BY DEF WalkInv
<1>3. out \in Seq(Positions) /\ len \in Nat /\ \A n \in 1 .. len : out[n] \in Positions
  BY <1>2, WalkFields
<1>4. Len(found) \in Nat /\ lim \in Nat /\ lim <= Len(found) /\ \A k \in 1 .. lim : k \in 1 .. Len(found) /\ found[k] \in Positions
  OBVIOUS
<1>5. /\ SubSeq(found, 1, lim) \in Seq(Positions) /\ Len(SubSeq(found, 1, lim)) = lim
      /\ \A k \in 1 .. lim : SubSeq(found, 1, lim)[k] = found[k]
  <2>1. \A k \in 1 .. Len(found) : found[k] \in Positions
    BY <1>4
  <2> QED
    BY <1>4, <2>1
<1>6. /\ walk'.out = out \o SubSeq(found, 1, lim) /\ walk'.cursor = c
      /\ walk'.phase = IF c = None THEN "done" ELSE "ready"
      /\ walk' \in Walks
  <2> DEFINE page == SubSeq(found, 1, lim)
  <2> HIDE DEF page
  <2>1. walk \in Walks /\ page \in Seq(Positions)
    BY <1>2, <1>5 DEF WalkTypeOK, page
  <2>2. walk' = [walk EXCEPT !.out = @ \o page, !.cursor = c, !.phase = IF c = None THEN "done" ELSE "ready"]
    BY <1>1 DEF page
  <2>3. walk.out \o page \in Seq(Positions)
    BY <1>3, <2>1
  <2>4. walk'.out = walk.out \o page /\ walk'.cursor = c /\ walk'.phase = IF c = None THEN "done" ELSE "ready"
    BY <2>1, <2>2 DEF Walks
  <2>5. walk' \in Walks
    BY <2>1, <2>2, <2>3 DEF Walks
  <2> QED
    BY <2>4, <2>5 DEF page
<1>7. /\ new \in Seq(Positions) /\ Len(new) = len + lim
      /\ \A n \in 1 .. len : n \in 1 .. len + lim /\ new[n] = out[n]
      /\ \A k \in 1 .. lim : len + k \in 1 .. len + lim /\ new[len + k] = found[k]
      /\ \A n \in 1 .. len + lim : n \in 1 .. len \/ \E k \in 1 .. lim : n = len + k
  <2> DEFINE page == SubSeq(found, 1, lim)
  <2>1. page \in Seq(Positions) /\ Len(page) = lim /\ \A k \in 1 .. lim : page[k] = found[k]
    BY <1>5
  <2>2. new = out \o page /\ len = Len(out) /\ out \in Seq(Positions)
    BY <1>3, <1>6
  <2> HIDE DEF page, out, new, len
  <2>3. /\ out \o page \in Seq(Positions) /\ Len(out \o page) = Len(out) + Len(page)
        /\ \A n \in 1 .. Len(out) : n \in 1 .. Len(out) + Len(page) /\ (out \o page)[n] = out[n]
        /\ \A k \in 1 .. Len(page) :
              Len(out) + k \in 1 .. Len(out) + Len(page) /\ (out \o page)[Len(out) + k] = page[k]
        /\ \A n \in 1 .. Len(out) + Len(page) :
              n \in 1 .. Len(out) \/ \E k \in 1 .. Len(page) : n = Len(out) + k
    BY <2>1, <2>2, Appended
  <2> QED
    BY <2>1, <2>2, <2>3
<1>8. /\ \A id \in stable' : id \in stable /\ Position(id)' = Position(id)
      /\ \A id \in stable' : Listable(id)'
      /\ stable' \subseteq stable
  BY DEF Position
<1>9. \A id, n : n \in Delivered(id) => n \in Delivered(id)'
  BY <1>7 DEF Delivered
<1>10. ASSUME NEW id, NEW k \in 1 .. lim, found[k][2] = id PROVE len + k \in Delivered(id)'
  BY <1>7, <1>10 DEF Delivered
<1>11. ASSUME NEW id \in Undelivered' PROVE id \in Undelivered /\ id \in stable' /\ ~ Among(id, found, lim)
  <2>1. id \in stable' /\ id \in stable /\ Delivered(id)' = {}
    BY <1>8 DEF Undelivered
  <2>2. Delivered(id) = {}
    BY <1>9, <2>1
  <2>3. ~ Among(id, found, lim)
    BY <1>10, <2>1 DEF Among
  <2> QED
    BY <2>1, <2>2, <2>3 DEF Undelivered
<1>12. \A id \in stable : id \in Undelivered \/ \E m \in 1 .. len : m \in Delivered(id)
  BY DEF Undelivered, Delivered
<1>13. \A p, q : Before(p, q)' = Before(p, q)
  BY DEF Before
<1> HIDE DEF out, new
<1>14. WalkTypeOK'
  <2>1. stable' \in SUBSET Ids
    BY <1>2, <1>8 DEF WalkTypeOK
  <2>2. walk'.phase \in {"done", "ready"}
    BY <1>6
  <2>3. workload.uses = "listing" /\ (workload.uses = "listing" => update = None)
    BY <1>2 DEF WalkTypeOK
  <2>4. Walks' = Walks
    BY DEF Walks
  <2> QED
    BY <1>6, <1>8, <2>1, <2>2, <2>3, <2>4 DEF WalkTypeOK
<1>15. \A n \in 1 .. Len(new) : new[n][2] \in stable' => new[n] = <<audit'[new[n][2]].ts, new[n][2]>>
  <2>1. ASSUME NEW n \in 1 .. len, new[n][2] \in stable' PROVE new[n] = <<audit'[new[n][2]].ts, new[n][2]>>
    <3>1. out[n] = Position(out[n][2]) /\ new[n] = out[n]
      BY <1>2, <1>7, <1>8, <2>1 DEF PagesOK, out
    <3> QED
      BY <3>1 DEF Position
  <2>2. ASSUME NEW k \in 1 .. lim, new[len + k][2] \in stable'
        PROVE  new[len + k] = <<audit'[new[len + k][2]].ts, new[len + k][2]>>
    <3>1. found[k] = Position(found[k][2]) /\ new[len + k] = found[k]
      BY <1>4, <1>7, <1>8, <2>2 DEF FoundOK
    <3> QED
      BY <3>1 DEF Position
  <2>3. ASSUME NEW n \in 1 .. len + lim, new[n][2] \in stable'
        PROVE  new[n] = <<audit'[new[n][2]].ts, new[n][2]>>
    <3>1. CASE n \in 1 .. len
      BY <2>1, <2>3, <3>1
    <3>2. ASSUME NEW k \in 1 .. lim, n = len + k PROVE new[n] = <<audit'[new[n][2]].ts, new[n][2]>>
      BY <2>2, <2>3, <3>2
    <3> QED
      BY <1>7, <3>1, <3>2
  <2> QED
    BY <1>7, <2>3
<1>16. ListingOrdered'
  <2> SUFFICES ASSUME NEW n \in 1 .. Len(new), NEW id \in stable',
                      new[n][2] \in stable', Before(new[n], Position(id)')
               PROVE  \E m \in Delivered(id)' : m < n
    BY DEF ListingOrdered, new, Before
  <2>1. id \in stable /\ Position(id)' = Position(id)
    BY <1>8
  <2>2. CASE n \in 1 .. len
    <3>1. \E m \in Delivered(id) : m < n
      BY <1>2, <1>7, <1>8, <2>1, <2>2 DEF PagesOK, ListingOrdered, out
    <3> QED
      BY <1>9, <3>1
  <2>3. ASSUME NEW k \in 1 .. lim, n = len + k PROVE \E m \in Delivered(id)' : m < n
    <3>1. CASE \E m \in 1 .. len : m \in Delivered(id)
      <4>1. PICK m \in 1 .. len : m \in Delivered(id)
        BY <3>1
      <4>2. m < n
        BY <1>3, <2>3
      <4> QED
        BY <1>9, <4>1, <4>2
    <3>2. CASE id \in Undelivered
      <4>1. found[k] \in Positions /\ new[n] = found[k] /\ Position(id) \in Positions /\ k \in 1 .. Len(found)
        BY <1>2, <1>4, <1>7, <2>1, <2>3, StablePositions
      <4>2. Among(id, found, k)
        BY <2>1, <3>2, <4>1, BeforeOrders DEF FoundOK
      <4>3. PICK j \in 1 .. k : found[j][2] = id
        BY <4>2 DEF Among
      <4>4. j # k
        <5>1. found[k][2] = id => found[k] = Position(id)
          BY <2>1, <4>1 DEF FoundOK
        <5> QED
          BY <2>1, <4>1, <4>3, <5>1, BeforeOrders
      <4>5. j \in 1 .. lim /\ len + j < n
        BY <1>3, <1>4, <2>3, <4>4
      <4> QED
        BY <1>10, <4>3, <4>5
    <3> QED
      BY <1>12, <2>1, <3>1, <3>2
  <2> QED
    BY <1>7, <2>2, <2>3
<1>17. ListingComplete'
  <2> SUFFICES ASSUME walk'.phase = "done", NEW id \in stable' PROVE Delivered(id)' # {}
    BY DEF ListingComplete
  <2>1. c = None /\ id \in stable
    BY <1>6, <1>8
  <2>2. CASE id \in Undelivered
    <3>1. Among(id, found, lim)
      BY <1>1, <2>1, <2>2
    <3> QED
      BY <1>10, <3>1 DEF Among
  <2> QED
    BY <1>9, <1>12, <2>1, <2>2
<1>18. walk'.phase # "done" => \A id \in Undelivered' : AfterCursor(Position(id))'
  <2> SUFFICES ASSUME walk'.phase # "done", NEW id \in Undelivered' PROVE AfterCursor(Position(id))'
    OBVIOUS
  <2>1. Before(Position(id), c)
    BY <1>1, <1>11
  <2>2. Before(Position(id)', c)
    BY <1>8, <1>11, <2>1
  <2> QED
    BY <1>6, <2>2 DEF AfterCursor, Before
<1>19. ASSUME backend # "redis"
       PROVE  /\ \A m, n \in 1..Len(new) : m < n => Before(new[n], new[m])
              /\ walk'.phase # "done" => \A n \in 1..Len(new) : c # None /\ ~ Before(new[n], c)
  <2>0. /\ \A m, n \in 1 .. Len(found) : m < n => Before(found[n], found[m])
        /\ \A n \in 1 .. Len(found) : AfterCursor(found[n])
        /\ walk.phase # "done" /\ walk.cursor \in Positions \cup {None}
    BY <1>2, <1>19, WalkFields DEF FoundAtOnce
  <2>1. ASSUME NEW m \in 1 .. len, NEW k \in 1 .. lim PROVE Before(found[k], out[m])
    <3>1. walk.cursor \in Positions /\ ~ Before(out[m], walk.cursor) /\ walk.cursor # None
      BY <1>2, <1>19, <2>0 DEF PagesOK, out
    <3>2. Before(found[k], walk.cursor) /\ found[k] \in Positions /\ out[m] \in Positions
      BY <1>3, <1>4, <2>0, <3>1 DEF AfterCursor
    <3>3. walk.cursor = out[m] \/ Before(walk.cursor, out[m])
      BY <3>1, <3>2, BeforeOrders
    <3> QED
      BY <3>1, <3>2, <3>3, BeforeOrders
  <2>2. ASSUME NEW m \in 1 .. Len(new), NEW n \in 1 .. Len(new), m < n PROVE Before(new[n], new[m])
    <3>1. CASE n \in 1 .. len
      <4>1. m \in 1 .. len
        BY <1>3, <1>7, <2>2, <3>1
      <4> QED
        BY <1>2, <1>7, <1>19, <2>2, <3>1, <4>1 DEF PagesOK, out
    <3>2. ASSUME NEW k \in 1 .. lim, n = len + k, m \in 1 .. len PROVE Before(new[n], new[m])
      BY <1>7, <2>1, <3>2
    <3>3. ASSUME NEW k \in 1 .. lim, n = len + k, NEW j \in 1 .. lim, m = len + j PROVE Before(new[n], new[m])
      <4>1. j < k
        BY <1>3, <1>4, <2>2, <3>3
      <4>2. j \in 1 .. Len(found) /\ k \in 1 .. Len(found)
        BY <1>4
      <4> QED
        BY <1>7, <2>0, <3>3, <4>1, <4>2
    <3> QED
      BY <1>7, <3>1, <3>2, <3>3
  <2>3. ASSUME walk'.phase # "done", NEW n \in 1 .. Len(new) PROVE c # None /\ ~ Before(new[n], c)
    <3>1. c # None /\ lim >= 1 /\ c = found[lim] /\ lim \in 1 .. lim /\ c \in Positions
      BY <1>1, <1>4, <1>6, <1>19, <2>3
    <3>2. ASSUME n \in 1 .. len PROVE ~ Before(new[n], c)
      <4>1. Before(c, out[n]) /\ out[n] \in Positions
        BY <1>3, <2>1, <3>1, <3>2
      <4> QED
        BY <1>7, <3>1, <3>2, <4>1, BeforeOrders
    <3>3. ASSUME NEW k \in 1 .. lim, n = len + k PROVE ~ Before(new[n], c)
      <4>1. found[k] \in Positions /\ (k = lim \/ Before(c, found[k])) /\ new[n] = found[k]
        BY <1>4, <1>7, <2>0, <3>1, <3>3
      <4> QED
        BY <3>1, <4>1, BeforeOrders
    <3> QED
      BY <1>7, <3>1, <3>2, <3>3
  <2> QED
    BY <2>2, <2>3
<1>20. PagesOK'
  <2>1. \A n \in 1 .. Len(walk'.out) :
           walk'.out[n][2] \in stable' => walk'.out[n] = <<audit'[walk'.out[n][2]].ts, walk'.out[n][2]>>
    BY <1>15 DEF new
  <2>2. backend' # "redis" =>
           /\ \A m, n \in 1 .. Len(walk'.out) : m < n => Before(walk'.out[n], walk'.out[m])
           /\ walk'.phase # "done" =>
                 \A n \in 1 .. Len(walk'.out) : walk'.cursor # None /\ ~ Before(walk'.out[n], walk'.cursor)
    BY <1>6, <1>19 DEF new
  <2> QED
    BY <1>16, <1>17, <1>18, <2>1, <2>2 DEF PagesOK, Position, Before
<1>21. CallOK'
  BY <1>6 DEF CallOK
<1> QED
  BY <1>14, <1>20, <1>21 DEF WalkInv

-----------------------------------------------------------------------------
(* The steps of a walk.                                                     *)

LEMMA StartWalkStep ==
  ASSUME Inv, WalkInv, workload.uses = "listing", StartWalk, Observe
  PROVE  WalkInv'
<1>1. /\ walk.phase = "idle" /\ walk' = [walk EXCEPT !.phase = "ready"] /\ backend' = backend /\ now' = now
      /\ audit' = audit /\ index' = index /\ pipe' = pipe /\ update' = update /\ workload' = workload
  BY DEF StartWalk, Observe, tables
<1>2. walk \in Walks /\ walk.out = <<>> /\ walk.cursor = None /\ update = None
  BY <1>1 DEF WalkInv, WalkTypeOK
<1>3. walk'.phase = "ready" /\ walk'.out = <<>> /\ walk'.cursor = None /\ walk' \in Walks
  BY <1>1, <1>2 DEF Walks
<1>4. stable' = {id \in Ids : Listable(id)}
  BY <1>1, <1>3 DEF Observe
<1>5. \A id : Listable(id)' = Listable(id)
  BY <1>1 DEF Listable, Matches
<1>6. WalkTypeOK'
  <2>1. stable' \in SUBSET Ids /\ \A id \in stable' : Listable(id)'
    BY <1>4, <1>5
  <2>2. Walks' = Walks
    BY DEF Walks
  <2> QED
    BY <1>1, <1>2, <1>3, <2>1, <2>2 DEF WalkTypeOK
<1>7. PagesOK'
  BY <1>3 DEF PagesOK, ListingOrdered, ListingComplete, AfterCursor
<1>8. CallOK'
  BY <1>3 DEF CallOK
<1>9. IndexOK'
  BY <1>1 DEF WalkInv, IndexOK, Crowd, Batch, ClampAuditLimit
<1> QED
  BY <1>6, <1>7, <1>8, <1>9 DEF WalkInv

LEMMA ImageFinite ==
  ASSUME NEW S, IsFiniteSet(S), NEW T, NEW f \in [S -> T]
  PROVE  IsFiniteSet({f[x] : x \in S})
<1> DEFINE image == {f[x] : x \in S}
<1>1. f \in Surjection(S, image)
  BY DEF Surjection
<1> HIDE DEF image
<1>2. IsFiniteSet(image)
  BY <1>1, FS_Surjection
<1> QED
  BY <1>2 DEF image

\* A page of the memory and of PostgreSQL: all that matches, in one step.
LEMMA PageStep ==
  ASSUME Inv, WalkInv, backend # "redis", walk.phase = "ready",
         workload' = workload, backend' = backend, audit' = audit, update' = update,
         stable' = {id \in stable : audit'[id] = audit[id] /\ Listable(id)'},
         NEW S \in SUBSET Ids, \A id \in S : audit[id] # None,
         \A id \in Ids : audit[id] # None /\ audit[id].expires > now => id \in S, Page(S)
  PROVE  WalkInv'
<1> DEFINE T == {j \in S : Matches(j)}
           all == {Position(id) : id \in T}
           P == {p \in all : AfterCursor(p)}
           found == Listing(P)
<1>0. WalkTypeOK /\ PagesOK
  BY DEF WalkInv
<1>1. \A id \in T : id \in Ids /\ Position(id) \in Positions /\ Position(id)[2] = id
  <2> SUFFICES ASSUME NEW id \in T PROVE id \in Ids /\ Position(id) \in Positions /\ Position(id)[2] = id
    OBVIOUS
  <2>1. audit[id] \in AuditEntries
    BY DEF Inv, TypeOK
  <2> QED
    BY <2>1 DEF AuditEntries, Position, Positions
<1>2. IsFiniteSet(P) /\ P \in SUBSET Positions
  <2> DEFINE f == [id \in T |-> Position(id)]
  <2>1. IsFiniteSet(T) /\ f \in [T -> Positions]
    <3>1. T \in SUBSET Ids
      OBVIOUS
    <3> QED
      BY <1>1, <3>1, StoreAssumption, FS_Subset
  <2>2. all = {f[x] : x \in T}
    OBVIOUS
  <2>3. IsFiniteSet(all) /\ all \in SUBSET Positions /\ P \in SUBSET all
    <3>1. IsFiniteSet({f[x] : x \in T})
      <4> HIDE DEF f, T
      <4> QED
        BY <2>1, ImageFinite
    <3> QED
      BY <1>1, <2>2, <3>1
  <2> QED
    BY <2>3, FS_Subset
<1>3. \A p \in P : p = Position(p[2]) /\ AfterCursor(p)
  BY <1>1
<1>4. \A id \in Undelivered : Position(id) \in P /\ Position(id)[2] = id
  <2> SUFFICES ASSUME NEW id \in Undelivered PROVE Position(id) \in P /\ Position(id)[2] = id
    OBVIOUS
  <2>1. id \in stable
    BY DEF Undelivered
  <2>2. id \in T
    BY <1>0, <2>1, StablePositions
  <2>3. AfterCursor(Position(id))
    BY <1>0 DEF PagesOK
  <2> QED
    BY <1>1, <2>2, <2>3
<1>5. DeliverPage(found, None)
  BY DEF Page
<1> HIDE DEF P
<1>6. /\ found \in Seq(P) /\ found \in Seq(Positions)
      /\ \A m, n \in 1 .. Len(found) : m < n => Before(found[n], found[m])
      /\ \A p \in P : \E n \in 1 .. Len(found) : found[n] = p
  <2>1. /\ found \in Seq(P)
        /\ \A m, n \in 1 .. Len(found) : m < n => Before(found[n], found[m])
        /\ \A p \in P : \E n \in 1 .. Len(found) : found[n] = p
    BY <1>2, ListingSorted
  <2> HIDE DEF found
  <2>2. found \in Seq(Positions)
    BY <1>2, <2>1
  <2> QED
    BY <2>1, <2>2
<1> HIDE DEF found
<1>7. Len(found) \in Nat /\ \A k \in 1 .. Len(found) : found[k] \in P
  BY <1>6
<1>8. FoundOK(found)
  <2>1. \A k \in 1 .. Len(found) : found[k] = Position(found[k][2])
    BY <1>3, <1>7
  <2>2. ASSUME NEW k \in 1 .. Len(found), NEW id \in Undelivered
        PROVE  Among(id, found, k) \/ Before(Position(id), found[k])
    <3>1. PICK n \in 1 .. Len(found) : found[n] = Position(id)
      BY <1>4, <1>6
    <3>2. n \in 1 .. k \/ k < n
      BY <1>7
    <3>3. k < n => Before(found[n], found[k])
      BY <1>6
    <3> QED
      BY <1>4, <3>1, <3>2, <3>3 DEF Among
  <2> QED
    BY <2>1, <2>2 DEF FoundOK
<1>9. Promised(found, None)
  BY <1>4, <1>6 DEF Promised, Among
<1>10. FoundAtOnce(found, None)
  BY <1>3, <1>6, <1>7 DEF FoundAtOnce
<1>11. IndexOK'
  BY DEF IndexOK
<1> QED
  BY <1>5, <1>6, <1>8, <1>9, <1>10, <1>11, PageDelivered

\* The index names only positions of records.
LEMMA IndexPositions ==
  ASSUME Inv, NEW id \in Ids, index[id] # None
  PROVE  /\ ZPosition(id) \in Positions /\ ZPosition(id)[1] = index[id] /\ ZPosition(id)[2] = id
         /\ audit[id] # None /\ index[id] \in Micros /\ index[id] \in Nat /\ audit[id].ts \in Nat
<1>1. index[id] \in Micros /\ audit[id] # None
  BY DEF Inv, TypeOK
<1>2. audit[id] \in AuditEntries
  BY <1>1 DEF Inv, TypeOK
<1> QED
  BY <1>1, <1>2, MicrosNat DEF AuditEntries, ZPosition, Positions

\* ZREMRANGEBYSCORE only shrinks the index.
LEMMA TrimmedIndex ==
  ASSUME Inv, IndexOK, NEW score, index' = ZRemRangeByScore(score), audit' = audit,
         pipe' \in {pipe, None}, workload' = workload, backend' = backend
  PROVE  IndexOK'
<1> SUFFICES ASSUME workload.uses = "listing", backend = "redis" PROVE IndexOK'
  BY DEF IndexOK
<1>1. \A id \in Ids : index'[id] # None => index'[id] = index[id]
  BY DEF ZRemRangeByScore
<1>2. \A s \in Micros : /\ Crowd(s)' \in SUBSET Crowd(s) /\ IsFiniteSet(Crowd(s)) /\ Cardinality(Crowd(s)) < Batch
  BY <1>1, StoreAssumption, NoneAssumption, FS_Subset DEF Crowd, IndexOK
<1>3. \A s \in Micros : Cardinality(Crowd(s)') < Batch
  <2> SUFFICES ASSUME NEW s \in Micros PROVE Cardinality(Crowd(s)') < Batch
    OBVIOUS
  <2>1. /\ Cardinality(Crowd(s)') <= Cardinality(Crowd(s)) /\ IsFiniteSet(Crowd(s)')
    BY <1>2, FS_Subset
  <2> QED
    BY <1>2, <2>1, FS_CardinalityType, LimitPositive
<1>4. ASSUME NEW s \in Micros, NEW x, Cardinality(Crowd(s) \ {x}) + 1 < Batch
      PROVE  Cardinality(Crowd(s)' \ {x}) + 1 < Batch
  <2> DEFINE c == Crowd(s) \ {x}
             d == Crowd(s)' \ {x}
  <2>1. d \in SUBSET c /\ c \in SUBSET Ids
    BY <1>2 DEF Crowd
  <2>2. Cardinality(c) + 1 < Batch
    BY <1>4
  <2> HIDE DEF c, d
  <2>3. Cardinality(d) <= Cardinality(c) /\ Cardinality(d) \in Nat /\ Cardinality(c) \in Nat
    BY <2>1, StoreAssumption, FS_Subset, FS_CardinalityType
  <2>4. Cardinality(d) + 1 < Batch
    BY <2>2, <2>3, LimitPositive
  <2> QED
    BY <2>4 DEF d
<1>5. Batch' = Batch
  BY DEF Batch, ClampAuditLimit
<1>6. \A id \in Ids : index'[id] # None => index'[id] <= audit'[id].ts
  BY <1>1 DEF IndexOK
<1>7. pipe' # None => pipe' = pipe
  OBVIOUS
<1>8. ASSUME pipe' # None, pipe'.next # "zrem"
      PROVE  Cardinality({id \in Ids : index'[id] = Truncate(pipe'.nanos)} \ {pipe'.id}) + 1 < Batch
  <2>1. Truncate(pipe.nanos) \in Micros
    BY <1>7, <1>8, MicrosNat DEF Inv, TypeOK, Pipelines
  <2>2. Cardinality(Crowd(Truncate(pipe.nanos)) \ {pipe.id}) + 1 < Batch
    BY <1>7, <1>8 DEF IndexOK
  <2> DEFINE s == Truncate(pipe.nanos)
  <2>3. Cardinality({id \in Ids : index'[id] = s} \ {pipe.id}) + 1 < Batch
    <3> HIDE DEF s
    <3> QED
      BY <1>4, <2>1, <2>2 DEF s, Crowd
  <2> QED
    BY <1>7, <1>8, <2>3
<1>9. pipe' # None /\ pipe'.next = "zadd" => Truncate(pipe'.nanos) <= audit'[pipe'.id].ts
  BY <1>7 DEF IndexOK
<1> QED
  BY <1>3, <1>5, <1>6, <1>8, <1>9 DEF IndexOK, Truncate, Crowd

LEMMA RedisListStartStep ==
  ASSUME Inv, WalkInv, workload.uses = "listing", RedisListAuditRecords, Observe
  PROVE  WalkInv'
<1>1. /\ walk.phase = "ready" /\ backend = "redis" /\ backend' = backend /\ now' = now
      /\ audit' = audit /\ pipe' = pipe /\ update' = update /\ workload' = workload
      /\ index' = ZRemRangeByScore(now - AuditTTL)
      /\ walk' = [walk EXCEPT !.phase = "index", !.round = 0, !.seen = {}, !.collected = <<>>, !.last = None,
                              !.bound = IF walk.cursor = None THEN None ELSE walk.cursor[1]]
  BY DEF RedisListAuditRecords, OnRedis, Observe
<1>2. WalkTypeOK /\ PagesOK /\ IndexOK /\ walk \in Walks
  BY DEF WalkInv, WalkTypeOK
<1> DEFINE bound == IF walk.cursor = None THEN None ELSE walk.cursor[1]
<1>3. bound \in Micros \cup {None}
  BY <1>2, WalkFields, PositionNumbers
<1>4. /\ walk' \in Walks /\ walk'.phase = "index" /\ walk'.seen = {} /\ walk'.collected = <<>>
      /\ walk'.bound = bound /\ walk'.out = walk.out /\ walk'.cursor = walk.cursor
  <2> HIDE DEF bound
  <2>1. walk' = [walk EXCEPT !.phase = "index", !.round = 0, !.seen = {}, !.collected = <<>>, !.last = None,
                             !.bound = bound]
    BY <1>1 DEF bound
  <2>2. <<>> \in Seq(Positions) /\ {} \in SUBSET Ids /\ 0 \in Nat
    OBVIOUS
  <2>3. walk' \in Walks
    BY <1>2, <1>3, <2>1, <2>2 DEF Walks
  <2>4. /\ walk'.phase = "index" /\ walk'.seen = {} /\ walk'.collected = <<>>
        /\ walk'.bound = bound /\ walk'.out = walk.out /\ walk'.cursor = walk.cursor
    BY <1>2, <2>1 DEF Walks
  <2> QED
    BY <2>3, <2>4
<1>5. stable' = {id \in stable : audit'[id] = audit[id] /\ Listable(id)'}
  BY <1>1 DEF Observe
<1>6. /\ PagesOK' /\ Undelivered' \subseteq Undelivered /\ stable' \in SUBSET Ids
      /\ \A id \in Undelivered' : id \in stable'
      /\ \A id \in stable' : id \in stable /\ Position(id)' = Position(id) /\ audit'[id] = audit[id]
      /\ \A id \in stable' : Listable(id)'
  BY <1>1, <1>2, <1>4, <1>5, PagesKept
<1>7. WalkTypeOK'
  <2>1. Walks' = Walks
    BY DEF Walks
  <2> QED
    BY <1>1, <1>2, <1>4, <1>6, <2>1 DEF WalkTypeOK
<1>8. CallOK'
  <2>1. FoundOK(walk.collected)'
    BY <1>4 DEF FoundOK
  <2>2. Cardinality(walk'.seen) < Batch'
    BY <1>4, LimitPositive, FS_EmptySet DEF Batch, ClampAuditLimit
  <2>3. ASSUME NEW id \in Undelivered' PROVE Ahead(id)'
    <3>1. id \in stable /\ id \in Undelivered /\ audit'[id] = audit[id]
      BY <1>6, <2>3
    <3>2. AfterCursor(Position(id)) /\ Position(id)[1] = audit[id].ts
      BY <1>1, <1>2, <3>1, StablePositions DEF PagesOK
    <3>3. walk.cursor # None => audit[id].ts < walk.cursor[1] \/ audit[id].ts = walk.cursor[1]
      BY <3>2 DEF AfterCursor, Before
    <3>4. walk'.bound = None \/ audit'[id].ts < walk'.bound \/ (audit'[id].ts = walk'.bound /\ id \notin walk'.seen)
      BY <1>4, <3>1, <3>3
    <3> QED
      BY <3>4 DEF Ahead
  <2> QED
    BY <1>4, <2>1, <2>2, <2>3 DEF CallOK
<1>9. IndexOK'
  BY <1>1, <1>2, TrimmedIndex
<1> QED
  BY <1>6, <1>7, <1>8, <1>9 DEF WalkInv

\* A batch of the index: its positions come before all that it leaves out.
LEMMA IndexBatch ==
  ASSUME Inv, NEW bound, NEW zs, zs = ZRevRangeByScore(bound)
  PROVE  /\ IsFiniteSet(zs) /\ zs \in SUBSET Positions /\ Cardinality(zs) \in Nat
         /\ \A z \in zs : z[2] \in Ids /\ index[z[2]] # None /\ z = ZPosition(z[2])
         /\ \A id \in Ids : index[id] # None /\ (bound = None \/ index[id] <= bound) =>
               \/ ZPosition(id) \in zs
               \/ ~ (Cardinality(zs) < Batch) /\ \A z \in zs : Before(ZPosition(id), z)
<1> DEFINE T == {j \in Ids : index[j] # None /\ (bound = None \/ index[j] <= bound)}
           S == {ZPosition(id) : id \in T}
           f == [id \in T |-> ZPosition(id)]
<1>1. zs = {p \in S : Cardinality({q \in S : Before(p, q)}) < Batch}
  BY DEF ZRevRangeByScore
<1>2. \A id \in T : id \in Ids /\ index[id] # None /\ ZPosition(id) \in Positions /\ ZPosition(id)[2] = id
  BY IndexPositions
<1>3. IsFiniteSet(T) /\ f \in [T -> Positions]
  <2>1. T \in SUBSET Ids
    OBVIOUS
  <2> QED
    BY <1>2, <2>1, StoreAssumption, FS_Subset
<1>4. S = {f[id] : id \in T}
  OBVIOUS
<1>5. IsFiniteSet(S)
  <2>1. IsFiniteSet({f[id] : id \in T})
    <3> HIDE DEF f, T
    <3> QED
      BY <1>3, ImageFinite
  <2> QED
    BY <1>4, <2>1
<1>6. S \in SUBSET Positions /\ \A p \in S : p[2] \in Ids /\ index[p[2]] # None /\ p = ZPosition(p[2])
  BY <1>2
<1>7. \A id \in Ids : index[id] # None /\ (bound = None \/ index[id] <= bound) => ZPosition(id) \in S
  OBVIOUS
<1> HIDE DEF S
<1>8. /\ IsFiniteSet(zs) /\ zs \subseteq S /\ \A p \in S \ zs, z \in zs : Before(p, z)
      /\ Cardinality(zs) < Batch => zs = S
  BY <1>1, <1>5, <1>6, LimitPositive, WindowSplits
<1> QED
  BY <1>6, <1>7, <1>8, FS_CardinalityType

LEMMA RedisListIndexStep ==
  ASSUME Inv, WalkInv, workload.uses = "listing", RedisListIndex, Observe
  PROVE  WalkInv'
<1> DEFINE zs == ZRevRangeByScore(walk.bound)
           fresh == {z \in zs : z[2] \notin walk.seen}
           minScore == LastOf(zs)[1]
           last == IF fresh = {} THEN walk.last ELSE LastOf(fresh)
           ids == {z \in fresh : AfterCursor(z)}
           exhausted == Cardinality(zs) < Batch \/ fresh = {}
           seen == {z[2] : z \in {y \in zs : y[1] = minScore}}
<1>1. /\ walk.phase = "index" /\ backend = "redis" /\ backend' = backend /\ now' = now /\ index' = index
      /\ audit' = audit /\ pipe' = pipe /\ update' = update /\ workload' = workload
  BY DEF RedisListIndex, OnRedis, Observe, tables
<1>2. WalkTypeOK /\ PagesOK /\ IndexOK /\ CallOK /\ walk \in Walks
  BY DEF WalkInv, WalkTypeOK
<1>3. stable' = {id \in stable : audit'[id] = audit[id] /\ Listable(id)'}
  BY <1>1 DEF Observe
<1>4. IndexOK'
  BY <1>1, <1>2 DEF IndexOK, Crowd, Batch, ClampAuditLimit, Truncate
<1>5. /\ IsFiniteSet(zs) /\ zs \in SUBSET Positions /\ Cardinality(zs) \in Nat
      /\ \A z \in zs : z[2] \in Ids /\ index[z[2]] # None /\ z = ZPosition(z[2])
      /\ \A id \in Ids : index[id] # None /\ (walk.bound = None \/ index[id] <= walk.bound) =>
            \/ ZPosition(id) \in zs
            \/ ~ (Cardinality(zs) < Batch) /\ \A z \in zs : Before(ZPosition(id), z)
  <2> HIDE DEF zs
  <2> QED
    BY IndexBatch DEF zs
\* A record that the call has not collected is in the batch or after it.
<1>6. ASSUME NEW id \in Undelivered, ~ Collected(id)
      PROVE  /\ id \notin walk.seen /\ Position(id) = ZPosition(id) /\ AfterCursor(Position(id))
             /\ \/ Position(id) \in zs
                \/ ~ (Cardinality(zs) < Batch) /\ \A z \in zs : Before(Position(id), z)
  <2>1. id \in stable
    BY DEF Undelivered
  <2>2. id \in Ids /\ audit[id].ts \in Nat /\ audit[id].ts \in Micros /\ index[id] = audit[id].ts
    BY <1>1, <1>2, <2>1, StablePositions
  <2>3. Position(id) = ZPosition(id) /\ index[id] # None
    BY <2>2, NoneAssumption DEF Position, ZPosition
  <2>4. Ahead(id)
    BY <1>1, <1>2, <1>6 DEF CallOK
  <2>5. id \in walk.seen => walk.bound # None /\ audit[id].ts = walk.bound
    BY <1>1, <1>2, <2>1 DEF CallOK
  <2>6. walk.bound = None \/ (walk.bound \in Nat /\ index[id] <= walk.bound)
    <3>1. walk.bound \in Micros \cup {None} /\ \A m \in Micros : m \in Nat
      BY <1>2, WalkFields, MicrosNat
    <3>2. walk.bound = None \/ audit[id].ts < walk.bound \/ audit[id].ts = walk.bound
      BY <2>4 DEF Ahead
    <3> QED
      BY <2>2, <3>1, <3>2
  <2>7. id \notin walk.seen
    BY <1>2, <2>2, <2>4, <2>5, WalkFields, MicrosNat DEF Ahead
  <2>8. AfterCursor(Position(id))
    BY <1>1, <1>2 DEF PagesOK
  <2> HIDE DEF zs
  <2> QED
    BY <1>5, <2>2, <2>3, <2>6, <2>7, <2>8
<1>7. CASE zs = {} /\ DeliverPage(walk.collected, None)
  <2>1. Promised(walk.collected, None)
    <3> SUFFICES ASSUME NEW id \in Undelivered, ~ Collected(id) PROVE FALSE
      BY DEF Promised, Collected
    <3>1. ~ (Cardinality(zs) < Batch)
      BY <1>6, <1>7
    <3> QED
      BY <1>7, <3>1, FS_EmptySet, LimitPositive
  <2>2. FoundOK(walk.collected) /\ walk.collected \in Seq(Positions)
    BY <1>1, <1>2, WalkFields DEF CallOK
  <2> HIDE DEF zs
  <2> QED
    BY <1>1, <1>3, <1>4, <1>7, <2>1, <2>2, PageDelivered
<1>8. CASE zs # {} /\ walk' = [walk EXCEPT !.phase = "records", !.last = last, !.ids = ids,
                                          !.exhausted = exhausted, !.bound = minScore, !.seen = seen]
  <2>1. LastOf(zs) \in zs /\ \A z \in zs : z = LastOf(zs) \/ Before(LastOf(zs), z)
    <3> HIDE DEF zs
    <3> QED
      BY <1>5, <1>8, LastExists
  <2>2. minScore \in Micros /\ minScore \in Nat
    <3> HIDE DEF zs
    <3> QED
      BY <1>5, <2>1, PositionNumbers, MicrosNat
  <2>3. fresh # {} => last \in fresh /\ last \in Positions
    <3>1. fresh \in SUBSET Positions /\ (fresh # {} => last = LastOf(fresh))
      BY <1>5
    <3> HIDE DEF fresh, last
    <3> QED
      BY <3>1, LastExists
  <2>4. \A id \in seen : id \in Ids /\ index[id] = minScore
    <3> HIDE DEF zs, minScore
    <3>1. ASSUME NEW z \in zs, z[1] = minScore PROVE z[2] \in Ids /\ index[z[2]] = minScore
      BY <1>5, <3>1 DEF ZPosition
    <3> QED
      BY <3>1
  <2>5. Cardinality(seen) < Batch
    <3>1. seen \in SUBSET Crowd(minScore) /\ Crowd(minScore) \in SUBSET Ids
      BY <2>4 DEF Crowd
    <3>2. Cardinality(Crowd(minScore)) < Batch
      BY <1>1, <1>2, <2>2 DEF IndexOK, WalkTypeOK
    <3> HIDE DEF seen, minScore
    <3>3. /\ IsFiniteSet(Crowd(minScore)) /\ IsFiniteSet(seen) /\ Cardinality(seen) <= Cardinality(Crowd(minScore))
      BY <3>1, StoreAssumption, FS_Subset
    <3> QED
      BY <3>2, <3>3, FS_CardinalityType, LimitPositive
  \* A full batch holds something new: fewer than a batch were seen.
  <2>6. fresh = {} => Cardinality(zs) < Batch
    <3> SUFFICES ASSUME fresh = {}, ~ (Cardinality(zs) < Batch) PROVE FALSE
      OBVIOUS
    <3> DEFINE name == [z \in zs |-> z[2]]
    <3>1. name \in [zs -> walk.seen]
      OBVIOUS
    <3>2. Cardinality(walk.seen) < Batch /\ IsFiniteSet(walk.seen) /\ Cardinality(walk.seen) \in Nat
      BY <1>1, <1>2, WalkFields, StoreAssumption, FS_Subset, FS_CardinalityType DEF CallOK
    <3>3. Cardinality(walk.seen) < Cardinality(zs)
      BY <1>5, <3>2, LimitPositive
    <3>4. \A y, z \in zs : name[y] = name[z] => y = z
      BY <1>5
    <3> HIDE DEF name, zs
    <3> QED
      BY <1>5, <3>1, <3>2, <3>3, <3>4, FS_PigeonHole
  <2> HIDE DEF zs, fresh, last, ids, exhausted, minScore, seen
  <2>7. walk.last \in Positions \cup {None} /\ last \in Positions \cup {None}
    BY <1>2, <2>3, WalkFields DEF last
  <2>8. ids \in SUBSET zs /\ ids \in SUBSET Positions /\ IsFiniteSet(ids)
    <3>1. ids \in SUBSET zs
      BY DEF ids, fresh
    <3> QED
      BY <1>5, <3>1, FS_Subset
  <2>9. exhausted \in BOOLEAN /\ seen \in SUBSET Ids
    BY <2>4 DEF exhausted
  <2>10. walk' \in Walks
    BY <1>2, <1>8, <2>2, <2>7, <2>8, <2>9 DEF Walks
  <2>11. /\ walk'.phase = "records" /\ walk'.last = last /\ walk'.ids = ids /\ walk'.exhausted = exhausted
         /\ walk'.bound = minScore /\ walk'.seen = seen /\ walk'.out = walk.out /\ walk'.cursor = walk.cursor
         /\ walk'.collected = walk.collected
    BY <1>2, <1>8 DEF Walks
  <2>12. /\ PagesOK' /\ Undelivered' \subseteq Undelivered /\ stable' \in SUBSET Ids
         /\ \A id \in Undelivered' : id \in stable'
         /\ \A id \in stable' : id \in stable /\ Position(id)' = Position(id) /\ audit'[id] = audit[id]
         /\ \A id \in stable' : Listable(id)'
    BY <1>1, <1>2, <1>3, <2>11, PagesKept
  <2>13. WalkTypeOK'
    <3>1. Walks' = Walks
      BY DEF Walks
    <3> QED
      BY <1>1, <1>2, <2>10, <2>11, <2>12, <3>1 DEF WalkTypeOK
  <2>14. FoundOK(walk.collected)'
    <3> DEFINE found == walk.collected
    <3>1. FoundOK(found) /\ walk'.out = walk.out /\ stable' \subseteq stable /\ \A id \in stable' : audit'[id] = audit[id]
      BY <1>1, <1>2, <2>11, <2>12 DEF CallOK
    <3>2. found' = found
      BY <2>11
    <3> QED
      BY <3>1, <3>2, FoundSame DEF FoundOK
  <2>15. ASSUME NEW id \in seen \cap stable' PROVE minScore # None /\ audit'[id].ts = minScore
    BY <1>1, <1>2, <2>2, <2>4, <2>12, <2>15, StablePositions, NoneAssumption
  <2>16. ASSUME NEW p \in ids PROVE audit'[p[2]] # None /\ p[1] <= audit'[p[2]].ts
    <3>1. p[2] \in Ids /\ index[p[2]] # None /\ p = ZPosition(p[2])
      BY <1>5, <2>8
    <3>2. audit[p[2]] # None /\ p[1] = index[p[2]] /\ index[p[2]] <= audit[p[2]].ts
      BY <1>1, <1>2, <3>1, IndexPositions DEF IndexOK, WalkTypeOK
    <3> QED
      BY <1>1, <3>2
  <2>17. exhausted \/ last # None
    BY <2>3, NoneAssumption DEF exhausted, Positions
  <2>18. ASSUME NEW id \in Undelivered', ~ Collected(id), Position(id) \notin ids
         PROVE  /\ ~ exhausted /\ Before(Position(id), last) /\ \A p \in ids : Before(Position(id), p)
                /\ audit[id].ts < minScore \/ (audit[id].ts = minScore /\ id \notin seen)
    <3>1. /\ id \in Undelivered /\ id \in stable /\ id \notin walk.seen /\ AfterCursor(Position(id))
          /\ Position(id) = ZPosition(id)
          /\ \/ Position(id) \in zs
             \/ ~ (Cardinality(zs) < Batch) /\ \A z \in zs : Before(Position(id), z)
      BY <1>6, <2>12, <2>18
    <3>2. Position(id) \in Positions /\ Position(id)[1] = audit[id].ts /\ Position(id)[2] = id
      BY <1>2, <3>1, StablePositions
    <3>3. Position(id) \notin zs
      BY <2>18, <3>1, <3>2 DEF ids, fresh
    <3>4. fresh # {} /\ ~ exhausted /\ last \in zs
      BY <2>3, <2>6, <3>1, <3>3 DEF exhausted, fresh
    <3>5. Before(Position(id), LastOf(zs))
      BY <2>1, <3>1, <3>3
    <3>6. id \notin seen
      <4>1. ASSUME NEW z \in zs, z[2] = id PROVE FALSE
        BY <1>5, <3>1, <3>3, <4>1
      <4> QED
        BY <4>1 DEF seen
    <3> QED
      BY <2>8, <3>1, <3>2, <3>3, <3>4, <3>5, <3>6 DEF Before, minScore
  <2>19. ASSUME NEW id \in Undelivered'
         PROVE  \/ Collected(id)' \/ Position(id)' \in walk'.ids
                \/ /\ ~ walk'.exhausted /\ Ahead(id)' /\ Before(Position(id), walk.last)'
                   /\ \A p \in walk'.ids : Before(Position(id)', p)
    <3>1. Position(id)' = Position(id) /\ audit'[id] = audit[id] /\ (Collected(id) => Collected(id)')
      BY <2>11, <2>12 DEF Collected, Among
    <3>2. CASE ~ Collected(id) /\ Position(id) \notin ids
      <4>1. walk'.bound = None \/ audit'[id].ts < walk'.bound \/ (audit'[id].ts = walk'.bound /\ id \notin walk'.seen)
        BY <2>11, <2>18, <3>1, <3>2
      <4>2. ~ exhausted /\ Before(Position(id), last) /\ \A p \in ids : Before(Position(id), p)
        BY <2>18, <3>2
      <4>3. Before(Position(id), walk.last)' /\ \A p \in walk'.ids : Before(Position(id)', p)
        BY <2>11, <3>1, <4>2 DEF Before
      <4> QED
        BY <2>11, <4>1, <4>2, <4>3 DEF Ahead
    <3> QED
      BY <2>11, <3>1, <3>2
  <2>20. Batch' = Batch
    BY DEF Batch, ClampAuditLimit
  <2>21. CallOK'
    BY <2>5, <2>8, <2>11, <2>14, <2>15, <2>16, <2>17, <2>19, <2>20 DEF CallOK
  <2> QED
    BY <1>4, <2>12, <2>13, <2>21 DEF WalkInv
<1> QED
  BY <1>7, <1>8 DEF RedisListIndex

LEMMA RedisListRecordsStep ==
  ASSUME Inv, WalkInv, workload.uses = "listing", RedisListRecords, Observe
  PROVE  WalkInv'
<1> DEFINE R == {z \in walk.ids : RedisLive(audit[z[2]]) /\ Matches(z[2])}
           found == Listing(R)
           page == [n \in DOMAIN found |-> Position(found[n][2])]
           before == walk.collected
           all == before \o page
           next == walk.round + 1
           otherwise == IF walk.exhausted THEN None ELSE walk.last
<1>1. /\ walk.phase = "records" /\ backend = "redis" /\ backend' = backend /\ now' = now /\ index' = index
      /\ audit' = audit /\ pipe' = pipe /\ update' = update /\ workload' = workload
  BY DEF RedisListRecords, OnRedis, Observe, tables
<1>2. WalkTypeOK /\ PagesOK /\ IndexOK /\ CallOK /\ walk \in Walks
  BY DEF WalkInv, WalkTypeOK
<1>3. stable' = {id \in stable : audit'[id] = audit[id] /\ Listable(id)'}
  BY <1>1 DEF Observe
<1>4. IndexOK'
  BY <1>1, <1>2 DEF IndexOK, Crowd, Batch, ClampAuditLimit, Truncate
<1>5. /\ IsFiniteSet(walk.ids) /\ walk.ids \in SUBSET Positions
      /\ \A p \in walk.ids : audit[p[2]] # None /\ p[1] <= audit[p[2]].ts
  BY <1>1, <1>2, WalkFields DEF CallOK
<1>6. IsFiniteSet(R) /\ R \in SUBSET Positions /\ R \in SUBSET walk.ids
  <2>1. R \in SUBSET walk.ids
    OBVIOUS
  <2> HIDE DEF R
  <2> QED
    BY <1>5, <2>1, FS_Subset
<1>7. \A z \in walk.ids : z \in R <=> RedisLive(audit[z[2]]) /\ Matches(z[2])
  OBVIOUS
<1> HIDE DEF R
<1>8. /\ found \in Seq(R) /\ Len(found) \in Nat /\ DOMAIN found = 1 .. Len(found)
      /\ \A n \in 1 .. Len(found) : found[n] \in R
      /\ \A m, n \in 1 .. Len(found) : m < n => Before(found[n], found[m])
      /\ \A p \in R : \E n \in 1 .. Len(found) : found[n] = p
  <2>1. /\ found \in Seq(R)
        /\ \A m, n \in 1 .. Len(found) : m < n => Before(found[n], found[m])
        /\ \A p \in R : \E n \in 1 .. Len(found) : found[n] = p
    BY <1>6, ListingSorted
  <2> HIDE DEF found
  <2> QED
    BY <2>1
<1> HIDE DEF found
<1>9. ASSUME NEW n \in 1 .. Len(found)
      PROVE  /\ found[n] \in Positions /\ found[n][2] \in Ids
             /\ Position(found[n][2]) \in Positions /\ Position(found[n][2])[2] = found[n][2]
             /\ found[n] = Position(found[n][2]) \/ Before(found[n], Position(found[n][2]))
  <2> DEFINE p == found[n]
  <2>1. p \in walk.ids /\ p \in Positions
    BY <1>6, <1>8
  <2> HIDE DEF p
  <2>2. p[2] \in Ids /\ p[1] \in Nat /\ p = <<p[1], p[2]>> /\ audit[p[2]] # None /\ p[1] <= audit[p[2]].ts
    BY <1>5, <2>1, PositionNumbers
  <2>3. audit[p[2]] \in AuditEntries
    BY <2>2 DEF Inv, TypeOK
  <2>4. audit[p[2]].ts \in Micros /\ audit[p[2]].ts \in Nat
    BY <2>3, MicrosNat DEF AuditEntries
  <2>5. Position(p[2]) = <<audit[p[2]].ts, p[2]>>
    BY DEF Position
  <2>6. Position(p[2]) \in Positions /\ Position(p[2])[2] = p[2] /\ Position(p[2])[1] = audit[p[2]].ts
    BY <2>2, <2>4, <2>5 DEF Positions
  <2>7. p = Position(p[2]) \/ Before(p, Position(p[2]))
    <3>1. CASE p[1] = audit[p[2]].ts
      BY <2>2, <2>5, <3>1
    <3>2. CASE p[1] < audit[p[2]].ts
      BY <2>6, <3>2 DEF Before
    <3> QED
      BY <2>2, <2>4, <3>1, <3>2
  <2> QED
    BY <2>1, <2>2, <2>6, <2>7 DEF p
<1>10. /\ page \in Seq(Positions) /\ Len(page) = Len(found)
       /\ \A n \in 1 .. Len(found) : page[n] = Position(found[n][2])
  BY <1>8, <1>9
<1> HIDE DEF page
<1>11. before \in Seq(Positions) /\ Len(before) \in Nat
  BY <1>2, WalkFields
<1>12. /\ all \in Seq(Positions) /\ Len(all) = Len(before) + Len(found)
       /\ \A n \in 1 .. Len(before) : n \in 1 .. Len(all) /\ all[n] = before[n]
       /\ \A k \in 1 .. Len(found) : Len(before) + k \in 1 .. Len(all) /\ all[Len(before) + k] = Position(found[k][2])
       /\ \A n \in 1 .. Len(all) : n \in 1 .. Len(before) \/ \E k \in 1 .. Len(found) : n = Len(before) + k
  <2> HIDE DEF before
  <2>1. /\ before \o page \in Seq(Positions) /\ Len(before \o page) = Len(before) + Len(page)
        /\ \A n \in 1 .. Len(before) : n \in 1 .. Len(before) + Len(page) /\ (before \o page)[n] = before[n]
        /\ \A k \in 1 .. Len(page) :
              Len(before) + k \in 1 .. Len(before) + Len(page) /\ (before \o page)[Len(before) + k] = page[k]
        /\ \A n \in 1 .. Len(before) + Len(page) :
              n \in 1 .. Len(before) \/ \E k \in 1 .. Len(page) : n = Len(before) + k
    BY <1>10, <1>11, Appended
  <2> QED
    BY <1>10, <2>1
<1> HIDE DEF all, before
\* What is still to come was collected, is in this batch or comes after it.
<1>13. ASSUME NEW id \in Undelivered
       PROVE  /\ Position(id) \in Positions /\ Position(id)[2] = id
              /\ \/ \E n \in 1 .. Len(before) : before[n][2] = id
                 \/ \E n \in 1 .. Len(found) : found[n] = Position(id)
                 \/ /\ ~ walk.exhausted /\ Ahead(id) /\ Before(Position(id), walk.last)
                    /\ \A p \in walk.ids : Before(Position(id), p)
  <2>1. id \in stable
    BY DEF Undelivered
  <2>2. Position(id) \in Positions /\ Position(id)[2] = id /\ RedisLive(audit[id]) /\ Matches(id)
    BY <1>1, <1>2, <2>1, StablePositions
  <2>3. \/ Collected(id) \/ Position(id) \in walk.ids
        \/ /\ ~ walk.exhausted /\ Ahead(id) /\ Before(Position(id), walk.last)
           /\ \A p \in walk.ids : Before(Position(id), p)
    BY <1>1, <1>2 DEF CallOK
  <2>4. Position(id) \in walk.ids => \E n \in 1 .. Len(found) : found[n] = Position(id)
    BY <1>7, <1>8, <2>2
  <2> QED
    BY <2>2, <2>3, <2>4 DEF Collected, Among, before
<1>14. ASSUME NEW id \in Undelivered
       PROVE  Among(id, all, Len(all)) \/ (~ walk.exhausted /\ Ahead(id) /\ Before(Position(id), walk.last))
  <2>1. ASSUME NEW n \in 1 .. Len(before), before[n][2] = id PROVE Among(id, all, Len(all))
    BY <1>12, <2>1 DEF Among
  <2>2. ASSUME NEW n \in 1 .. Len(found), found[n] = Position(id) PROVE Among(id, all, Len(all))
    <3>1. Len(before) + n \in 1 .. Len(all) /\ all[Len(before) + n][2] = id
      BY <1>12, <1>13, <2>2
    <3> QED
      BY <3>1 DEF Among
  <2> QED
    BY <1>13, <2>1, <2>2
<1>15. FoundOK(all)
  <2>0. FoundOK(before)
    BY <1>1, <1>2 DEF CallOK, before
  <2>1. ASSUME NEW k \in 1 .. Len(all), all[k][2] \in stable PROVE all[k] = Position(all[k][2])
    <3>1. CASE k \in 1 .. Len(before)
      BY <1>12, <2>0, <2>1, <3>1 DEF FoundOK
    <3>2. ASSUME NEW n \in 1 .. Len(found), k = Len(before) + n PROVE all[k] = Position(all[k][2])
      BY <1>9, <1>12, <3>2
    <3> QED
      BY <1>12, <3>1, <3>2
  <2>2. ASSUME NEW k \in 1 .. Len(all), NEW id \in Undelivered
        PROVE  Among(id, all, k) \/ Before(Position(id), all[k])
    <3>1. CASE k \in 1 .. Len(before)
      <4>1. Among(id, before, k) \/ Before(Position(id), before[k])
        BY <2>0, <3>1 DEF FoundOK
      <4>2. \A n \in 1 .. k : n \in 1 .. Len(before)
        BY <1>11, <3>1
      <4> QED
        BY <1>12, <3>1, <4>1, <4>2 DEF Among
    <3>2. ASSUME NEW j \in 1 .. Len(found), k = Len(before) + j
          PROVE  Among(id, all, k) \/ Before(Position(id), all[k])
      <4>1. CASE \E n \in 1 .. Len(before) : before[n][2] = id
        <5>1. PICK n \in 1 .. Len(before) : before[n][2] = id
          BY <4>1
        <5>2. n \in 1 .. k /\ all[n][2] = id
          BY <1>11, <1>12, <3>2, <5>1
        <5> QED
          BY <5>2 DEF Among
      <4>2. ASSUME NEW n \in 1 .. Len(found), found[n] = Position(id), n <= j PROVE Among(id, all, k)
        <5>1. Len(before) + n \in 1 .. k /\ all[Len(before) + n][2] = id
          BY <1>11, <1>12, <1>13, <3>2, <4>2
        <5> QED
          BY <5>1 DEF Among
      <4>3. ASSUME Before(Position(id), found[j]) PROVE Before(Position(id), all[k])
        <5>1. all[k] = Position(found[j][2]) /\ Position(id) \in Positions
          BY <1>12, <1>13, <3>2
        <5> QED
          BY <1>9, <4>3, <5>1, BeforeOrders
      <4>4. ASSUME NEW n \in 1 .. Len(found), found[n] = Position(id), ~ (n <= j)
            PROVE  Before(Position(id), found[j])
        <5>1. j < n
          BY <4>4
        <5> QED
          BY <1>8, <4>4, <5>1
      <4>5. found[j] \in walk.ids
        BY <1>6, <1>8
      <4> QED
        BY <1>13, <4>1, <4>2, <4>3, <4>4, <4>5
    <3> QED
      BY <1>12, <3>1, <3>2
  <2> QED
    BY <2>1, <2>2 DEF FoundOK
<1>16. CASE DeliverPage(all, otherwise)
  <2>1. otherwise \in Positions \cup {None}
    BY <1>2, WalkFields
  <2>2. walk.exhausted \/ walk.last # None
    BY <1>1, <1>2 DEF CallOK
  <2>3. Promised(all, otherwise)
    BY <1>14, <2>2 DEF Promised
  <2> HIDE DEF otherwise
  <2> QED
    BY <1>1, <1>3, <1>4, <1>12, <1>15, <1>16, <2>1, <2>3, PageDelivered
<1>17. CASE /\ ~ walk.exhausted
            /\ walk' = [walk EXCEPT !.phase = "index", !.round = next, !.collected = all]
  <2>1. next \in Nat
    BY <1>2 DEF Walks
  <2> HIDE DEF next
  <2>2. walk' \in Walks
    BY <1>2, <1>12, <1>17, <2>1 DEF Walks
  <2>3. /\ walk'.phase = "index" /\ walk'.bound = walk.bound /\ walk'.seen = walk.seen /\ walk'.out = walk.out
        /\ walk'.cursor = walk.cursor /\ walk'.collected = all
    BY <1>2, <1>17 DEF Walks
  <2>4. /\ PagesOK' /\ Undelivered' \subseteq Undelivered /\ stable' \in SUBSET Ids
        /\ \A id \in Undelivered' : id \in stable'
        /\ \A id \in stable' : id \in stable /\ Position(id)' = Position(id) /\ audit'[id] = audit[id]
        /\ \A id \in stable' : Listable(id)'
    BY <1>1, <1>2, <1>3, <2>3, PagesKept
  <2>5. WalkTypeOK'
    <3>1. Walks' = Walks
      BY DEF Walks
    <3> QED
      BY <1>1, <1>2, <2>2, <2>3, <2>4, <3>1 DEF WalkTypeOK
  <2>6. FoundOK(walk.collected)'
    <3>1. walk'.out = walk.out /\ stable' \subseteq stable /\ \A id \in stable' : audit'[id] = audit[id]
      BY <1>1, <2>3, <2>4
    <3>2. \A k \in 1 .. Len(all) : all[k][2] \in stable' => all[k] = <<audit'[all[k][2]].ts, all[k][2]>>
      BY <1>1, <1>15, <2>4 DEF FoundOK, Position
    <3>3. ASSUME NEW k \in 1 .. Len(all), NEW id \in Undelivered'
          PROVE  (\E n \in 1 .. k : all[n][2] = id) \/ Before(Position(id)', all[k])
      BY <1>15, <2>4, <3>3 DEF FoundOK, Among
    <3> QED
      BY <2>3, <3>2, <3>3 DEF FoundOK, Among, Position, Before
  <2>7. Cardinality(walk'.seen) < Batch'
    BY <1>1, <1>2, <2>3 DEF CallOK, Batch, ClampAuditLimit
  <2>8. \A id \in walk'.seen \cap stable' : walk'.bound # None /\ audit'[id].ts = walk'.bound
    BY <1>1, <1>2, <2>3, <2>4 DEF CallOK
  <2>9. ASSUME NEW id \in Undelivered' PROVE Collected(id)' \/ Ahead(id)'
    <3>1. Among(id, all, Len(all)) \/ Ahead(id)
      BY <1>14, <2>4
    <3> QED
      BY <1>1, <2>3, <3>1 DEF Collected, Among, Ahead
  <2>10. CallOK'
    BY <2>3, <2>6, <2>7, <2>8, <2>9 DEF CallOK
  <2> QED
    BY <1>4, <2>4, <2>5, <2>10 DEF WalkInv
<1> QED
  BY <1>16, <1>17 DEF RedisListRecords, R, found, page, all, before

-----------------------------------------------------------------------------
(* The other steps.                                                         *)

LEMMA ObserveStays ==
  ASSUME WalkTypeOK, Observe, walk' = walk
  PROVE  stable' = {id \in stable : audit'[id] = audit[id] /\ Listable(id)'} /\ workload' = workload
  BY DEF WalkTypeOK, Observe

\* The callers that do not list.
LEMMA OtherCallersStep ==
  ASSUME Inv, WalkInv, workload.uses # "listing", backend' = backend, walk' = walk, Observe
  PROVE  WalkInv'
<1>1. WalkTypeOK /\ walk.phase = "idle"
  BY WalkFields DEF WalkInv, WalkTypeOK
<1>2. stable' = {id \in stable : audit'[id] = audit[id] /\ Listable(id)'} /\ workload' = workload
  BY <1>1, ObserveStays
<1>3. IndexOK'
  BY <1>2 DEF IndexOK
<1> QED
  BY <1>1, <1>2, <1>3, QuietWalk

LEMMA MaskingKeepsWalk == MaskingCalls => backend' = backend /\ walk' = walk
  BY DEF MaskingCalls, calls, InMemory, OnRedis, OnPostgres, MemoryPutMaskingState, MemoryGetMaskingState,
         MemoryDeleteMaskingState, RedisPutMaskingState, RedisGetMaskingState, RedisDeleteMaskingState,
         PostgresPutMaskingState, PostgresGetMaskingState, PostgresDeleteMaskingState

LEMMA AuditKeepsWalk == PutAudit \/ AuditCalls => backend' = backend /\ walk' = walk
<1> USE DEF calls, InMemory, OnRedis, OnPostgres
<1>1. PutAudit => backend' = backend /\ walk' = walk
  BY DEF PutAudit, MemoryPutAuditRecord, PostgresPutAuditRecord, RedisPutAuditRecord, RedisPipelineSet,
         RedisPipelineIndex
<1>2. AuditCalls => PutAudit \/ (backend' = backend /\ walk' = walk)
  BY DEF AuditCalls, RedisSetKeepTTL, RedisConnectionLost, MemoryGetAuditRecord, RedisGetAuditRecord,
         PostgresGetAuditRecord, MemorySetAuditResponseTexts, PostgresSetAuditResponseTexts, RedisGetForUpdate
<1> QED
  BY <1>1, <1>2

LEMMA ConfigKeepsWalk == RuleAndSettingsCalls => backend' = backend /\ walk' = walk
<1> USE DEF calls, InMemory, OnRedis, OnPostgres
<1> SUFFICES ASSUME RuleAndSettingsCalls PROVE backend' = backend /\ walk' = walk
  OBVIOUS
<1>1. ASSUME NEW id \in RuleIds, NEW c \in Contents,
             \/ MemoryCreateRule(id, c) \/ MemorySaveRule(id, c) \/ MemoryDeleteRule(id)
             \/ RedisCreateRule(id, c) \/ RedisSaveRule(id, c) \/ RedisDeleteRule(id)
             \/ PostgresCreateRule(id, c) \/ PostgresSaveRule(id, c) \/ PostgresDeleteRule(id)
      PROVE  backend' = backend /\ walk' = walk
  BY <1>1 DEF MemoryCreateRule, MemorySaveRule, MemoryDeleteRule, RedisCreateRule, RedisSaveRule, RedisDeleteRule,
     PostgresCreateRule, PostgresSaveRule, PostgresDeleteRule
<1>2. ASSUME \/ MemoryReadRules \/ MemoryDisabledRules \/ MemorySettings
             \/ RedisReadRules \/ RedisDisabledRules \/ RedisSettings
             \/ PostgresReadRules \/ PostgresDisabledRules \/ PostgresSettings
      PROVE  backend' = backend /\ walk' = walk
  BY <1>2 DEF MemoryReadRules, MemoryDisabledRules, MemorySettings, RedisReadRules, RedisDisabledRules,
     RedisSettings, PostgresReadRules, PostgresDisabledRules, PostgresSettings
<1>3. ASSUME NEW v \in Values, \/ MemorySaveSettingsIfAbsent(v) \/ RedisSaveSettingsIfAbsent(v)
                               \/ PostgresSaveSettingsIfAbsent(v)
      PROVE  backend' = backend /\ walk' = walk
  BY <1>3 DEF MemorySaveSettingsIfAbsent, RedisSaveSettingsIfAbsent, PostgresSaveSettingsIfAbsent
<1> QED
  BY <1>1, <1>2, <1>3 DEF RuleAndSettingsCalls

\* Writers while a client lists: the pipelines keep the index behind the
\* records and no microsecond crowded.
LEMMA PutIndex ==
  ASSUME Inv, IndexOK, workload.uses = "listing", backend = "redis", backend' = backend, workload' = workload, PutAudit
  PROVE  /\ IndexOK'
         /\ \A id \in Ids :
               audit[id] # None => audit'[id] # None /\ audit[id].ts <= audit'[id].ts /\ audit'[id].ts \in Nat
<1>0. workload.ids \subseteq Ids /\ \A id \in Ids : workload.nanos[id] \subseteq Nanos
  BY WorkloadAssumption DEF Inv
<1>1. Batch' = Batch /\ \A n : Truncate(n)' = Truncate(n)
  BY DEF Batch, ClampAuditLimit, Truncate
<1>2. \A id \in Ids : audit[id] # None => audit[id].ts \in Nat
  BY MicrosNat DEF Inv, TypeOK, AuditEntries
<1>3. ASSUME NEW id \in Ids, NEW nanos \in Nanos, NotCrowded(id, nanos), RedisPutAuditRecord(id, nanos)
      PROVE  IndexOK' /\ audit' = audit
  <2>1. /\ audit' = audit /\ index' = index /\ pipe'.next = "set" /\ pipe'.id = id /\ pipe'.nanos = nanos
    BY <1>3 DEF RedisPutAuditRecord, tables
  <2>2. Cardinality({j \in Ids : index[j] = Truncate(nanos)} \ {id}) + 1 < Batch
    <3>1. {j \in Ids : index[j] = Truncate(nanos)} \ {id} = {j \in Ids \ {id} : index[j] = Truncate(nanos)}
      OBVIOUS
    <3> QED
      BY <1>3, <3>1 DEF NotCrowded
  <2> QED
    BY <1>1, <2>1, <2>2 DEF IndexOK, Crowd, Truncate
<1>4. CASE RedisPipelineSet
  <2>1. /\ pipe \in Pipelines /\ pipe # None /\ pipe.next = "set" /\ pipe.id \in Ids /\ pipe.nanos \in Nanos
        /\ index' = index /\ audit' = [audit EXCEPT ![pipe.id] = NewRecord(pipe.nanos)]
        /\ pipe' = [pipe EXCEPT !.next = "zadd"]
    BY <1>4 DEF RedisPipelineSet, Inv, TypeOK, Pipelines
  <2>2. /\ NewRecord(pipe.nanos) \in AuditEntries /\ NewRecord(pipe.nanos) # None
        /\ NewRecord(pipe.nanos).ts = Truncate(pipe.nanos)
    BY <2>1, NewRecordOK
  <2>3. Truncate(pipe.nanos) \in Nat
    BY <2>1, MicrosNat
  <2>4. audit[pipe.id] # None => audit[pipe.id].ts <= Truncate(pipe.nanos)
    BY <2>1 DEF Inv, CallsOK
  <2>5. /\ audit'[pipe.id] = NewRecord(pipe.nanos) /\ \A id \in Ids : id # pipe.id => audit'[id] = audit[id]
        /\ pipe'.next = "zadd" /\ pipe'.id = pipe.id /\ pipe'.nanos = pipe.nanos /\ pipe' # None
    BY <2>1, NoneAssumption DEF Inv, TypeOK, Pipelines
  <2>6. ASSUME NEW id \in Ids, audit[id] # None
        PROVE  audit'[id] # None /\ audit[id].ts <= audit'[id].ts /\ audit'[id].ts \in Nat
    <3>1. CASE id = pipe.id
      BY <2>2, <2>3, <2>4, <2>5, <2>6, <3>1
    <3>2. CASE id # pipe.id
      BY <1>2, <2>5, <2>6, <3>2
    <3> QED
      BY <3>1, <3>2
  <2>7. ASSUME NEW id \in Ids, index'[id] # None PROVE index'[id] <= audit'[id].ts
    <3>1. index[id] \in Nat /\ audit[id] # None /\ audit[id].ts \in Nat /\ index[id] <= audit[id].ts
      BY <2>1, <2>7, IndexPositions DEF IndexOK
    <3> QED
      BY <2>1, <2>6, <3>1
  <2>8. Cardinality(Crowd(Truncate(pipe.nanos)) \ {pipe.id}) + 1 < Batch
    BY <2>1 DEF IndexOK
  <2>9. IndexOK'
    BY <1>1, <2>1, <2>2, <2>3, <2>5, <2>7, <2>8 DEF IndexOK, Crowd, Truncate
  <2> QED
    BY <2>6, <2>9
<1>5. CASE RedisPipelineIndex
  <2>1. /\ pipe \in Pipelines /\ pipe # None /\ pipe.id \in Ids /\ pipe.nanos \in Nanos /\ audit' = audit
    BY <1>5 DEF RedisPipelineIndex, Inv, TypeOK, Pipelines
  <2>2. CASE pipe.next = "zadd" /\ pipe' = [pipe EXCEPT !.next = "zrem"]
             /\ index' = [index EXCEPT ![pipe.id] = Truncate(pipe.nanos)]
    <3> DEFINE t == Truncate(pipe.nanos)
    <3>1. /\ t \in Micros /\ t \in Nat /\ t <= audit[pipe.id].ts
      BY <2>1, <2>2, MicrosNat DEF IndexOK
    <3>2. pipe' # None => pipe'.next = "zrem"
      BY <2>1, <2>2 DEF Pipelines
    <3> HIDE DEF t
    <3>3. index'[pipe.id] = t /\ \A id \in Ids : id # pipe.id => index'[id] = index[id]
      BY <2>1, <2>2 DEF Inv, TypeOK, t
    <3>4. \A id \in Ids : index'[id] # None => index'[id] <= audit'[id].ts
      BY <2>1, <3>1, <3>3 DEF IndexOK
    <3>5. ASSUME NEW score \in Micros PROVE Cardinality(Crowd(score)') < Batch
      <4> DEFINE c == Crowd(t) \ {pipe.id}
                 d == Crowd(score)'
                 e == Crowd(score)
      <4>1. Cardinality(c) + 1 < Batch /\ Cardinality(e) < Batch
        BY <2>1, <2>2 DEF IndexOK, t
      <4>2. c \in SUBSET Ids /\ e \in SUBSET Ids
        BY DEF Crowd
      <4>3. d \in SUBSET (c \cup {pipe.id}) \/ d \in SUBSET e
        <5>1. CASE score = t
          <6>1. \A id \in Ids : index'[id] = t => id = pipe.id \/ index[id] = t
            BY <3>3
          <6> QED
            BY <2>1, <5>1, <6>1 DEF Crowd
        <5>2. CASE score # t
          <6>1. \A id \in Ids : index'[id] = score => index[id] = score
            BY <3>3, <5>2
          <6> QED
            BY <6>1 DEF Crowd
        <5> QED
          BY <5>1, <5>2
      <4> HIDE DEF c, d, e
      <4>4. /\ IsFiniteSet(c) /\ IsFiniteSet(e) /\ Cardinality(c) \in Nat /\ Cardinality(e) \in Nat
        BY <4>2, StoreAssumption, FS_Subset, FS_CardinalityType
      <4>5. /\ IsFiniteSet(c \cup {pipe.id}) /\ Cardinality(c \cup {pipe.id}) \in Nat
            /\ Cardinality(c \cup {pipe.id}) <= Cardinality(c) + 1
        <5> DEFINE x == pipe.id
                   more == c \cup {x}
        <5> HIDE DEF x
        <5>1. IsFiniteSet(more) /\ Cardinality(more) = IF x \in c THEN Cardinality(c) ELSE Cardinality(c) + 1
          BY <4>4, FS_AddElement
        <5> HIDE DEF more
        <5>2. Cardinality(more) \in Nat /\ Cardinality(more) <= Cardinality(c) + 1
          BY <4>4, <5>1
        <5> QED
          BY <5>1, <5>2 DEF more, x
      <4>6. CASE d \in SUBSET (c \cup {pipe.id})
        <5>1. Cardinality(d) <= Cardinality(c \cup {pipe.id}) /\ Cardinality(d) \in Nat
          BY <4>5, <4>6, FS_Subset, FS_CardinalityType
        <5> QED
          BY <4>1, <4>4, <4>5, <5>1, LimitPositive DEF d
      <4>7. CASE d \in SUBSET e
        <5>1. Cardinality(d) <= Cardinality(e) /\ Cardinality(d) \in Nat
          BY <4>4, <4>7, FS_Subset, FS_CardinalityType
        <5> QED
          BY <4>1, <4>4, <5>1, LimitPositive DEF d
      <4> QED
        BY <4>3, <4>6, <4>7
    <3>6. IndexOK'
      BY <1>1, <3>2, <3>4, <3>5 DEF IndexOK
    <3> QED
      BY <1>2, <2>1, <3>6
  <2>3. CASE pipe' = None /\ index' = ZRemRangeByScore(pipe.trim)
    BY <1>2, <2>1, <2>3, TrimmedIndex
  <2> QED
    BY <1>5, <2>2, <2>3 DEF RedisPipelineIndex
<1>6. ~ (\E id \in workload.ids : \E nanos \in workload.nanos[id] :
            MemoryPutAuditRecord(id, nanos) \/ PostgresPutAuditRecord(id, nanos))
  BY DEF MemoryPutAuditRecord, PostgresPutAuditRecord, InMemory, OnPostgres
<1> QED
  BY <1>0, <1>2, <1>3, <1>4, <1>5, <1>6 DEF PutAudit

LEMMA PutWalkStep ==
  ASSUME Inv, WalkInv, workload.uses = "listing", PutAudit, Observe
  PROVE  WalkInv'
<1>1. WalkTypeOK /\ IndexOK /\ update = None
  BY DEF WalkInv, WalkTypeOK
<1>2. backend' = backend /\ walk' = walk
  BY AuditKeepsWalk
<1>3. stable' = {id \in stable : audit'[id] = audit[id] /\ Listable(id)'} /\ workload' = workload
  BY <1>1, <1>2, ObserveStays
<1>4. update' = update
  BY DEF PutAudit, MemoryPutAuditRecord, PostgresPutAuditRecord, RedisPutAuditRecord, RedisPipelineSet,
         RedisPipelineIndex, InMemory, OnPostgres
<1>5. CASE backend = "redis"
  BY <1>1, <1>2, <1>3, <1>4, <1>5, PutIndex, QuietWalk
<1>6. CASE backend # "redis"
  <2>1. IndexOK' /\ walk.phase # "records"
    BY <1>1, <1>2, <1>6 DEF IndexOK, WalkTypeOK
  <2> QED
    BY <1>1, <1>2, <1>3, <1>4, <2>1, QuietWalk
<1> QED
  BY <1>5, <1>6

LEMMA RestartWalkStep ==
  ASSUME Inv, WalkInv, MemoryRestart, Observe
  PROVE  WalkInv'
<1>1. /\ backend' = backend /\ backend = "memory" /\ update' = update /\ workload' = workload
      /\ walk' = [walk EXCEPT !.phase = "idle", !.out = <<>>, !.cursor = None]
      /\ audit' = [id \in Ids |-> None]
  BY DEF MemoryRestart, InMemory, Observe
<1>2. WalkTypeOK /\ walk \in Walks
  BY DEF WalkInv, WalkTypeOK
<1>3. walk' \in Walks /\ walk'.phase = "idle" /\ walk'.out = <<>> /\ walk'.cursor = None
  <2>1. <<>> \in Seq(Positions)
    OBVIOUS
  <2> QED
    BY <1>1, <1>2, <2>1 DEF Walks
<1>4. stable' = {}
  <2>1. \A id \in Ids : ~ Listable(id)'
    BY <1>1 DEF Listable
  <2> QED
    BY <1>2, <1>3, <2>1 DEF Observe, WalkTypeOK
<1>5. WalkTypeOK'
  <2>1. Walks' = Walks
    BY DEF Walks
  <2> QED
    BY <1>1, <1>2, <1>3, <1>4, <2>1 DEF WalkTypeOK
<1>6. PagesOK'
  BY <1>3, <1>4 DEF PagesOK, ListingOrdered, ListingComplete, Undelivered
<1>7. CallOK' /\ IndexOK'
  BY <1>1, <1>3 DEF CallOK, IndexOK
<1> QED
  BY <1>5, <1>6, <1>7 DEF WalkInv

\* The clock, the janitors and the calls that fail: the records and the walk
\* stay, or a record goes that had expired.
LEMMA BackgroundWalkStep ==
  ASSUME Inv, WalkInv, Tick \/ Unavailable \/ MemoryJanitor \/ PostgresJanitor \/ UNCHANGED allVars,
         stable' = {id \in stable : audit'[id] = audit[id] /\ Listable(id)'}, workload' = workload
  PROVE  WalkInv'
<1> USE DEF tables, calls, vars, allVars
<1>1. backend' = backend /\ walk' = walk /\ pipe' = pipe /\ index' = index /\ update' = update
  BY DEF Tick, Unavailable, MemoryJanitor, PostgresJanitor, InMemory, OnPostgres
<1>2. backend = "redis" => audit' = audit
  BY DEF Tick, Unavailable, MemoryJanitor, PostgresJanitor, InMemory, OnPostgres
<1>3. IndexOK' /\ WalkTypeOK
  BY <1>1, <1>2 DEF WalkInv, IndexOK, Crowd, Batch, ClampAuditLimit, Truncate
<1>4. walk.phase = "records" => \A id \in Ids :
         audit[id] # None => audit'[id] # None /\ audit[id].ts <= audit'[id].ts /\ audit'[id].ts \in Nat
  <2>1. \A id \in Ids : audit[id] # None => audit[id].ts \in Nat
    BY MicrosNat DEF Inv, TypeOK, AuditEntries
  <2>2. walk.phase = "records" => audit' = audit
    BY <1>2, <1>3 DEF WalkTypeOK
  <2> QED
    BY <2>1, <2>2
<1>5. workload.uses = "listing" => update' = None
  BY <1>1, <1>3 DEF WalkTypeOK
<1> QED
  BY <1>1, <1>3, <1>4, <1>5, QuietWalk

LEMMA ListPageStep ==
  ASSUME Inv, WalkInv, MemoryListAuditRecords \/ PostgresListAuditRecords, Observe
  PROVE  WalkInv'
<1>1. /\ walk.phase = "ready" /\ backend # "redis" /\ backend' = backend /\ audit' = audit /\ update' = update
      /\ workload' = workload
  BY DEF MemoryListAuditRecords, PostgresListAuditRecords, InMemory, OnPostgres, Observe
<1>2. stable' = {id \in stable : audit'[id] = audit[id] /\ Listable(id)'}
  BY <1>1 DEF Observe
<1>3. ASSUME NEW S \in SUBSET Ids, \A id \in S : audit[id] # None,
             \A id \in Ids : audit[id] # None /\ audit[id].expires > now => id \in S, Page(S)
      PROVE  WalkInv'
  BY <1>1, <1>2, <1>3, PageStep
<1>4. CASE MemoryListAuditRecords
  <2> DEFINE S == {id \in Ids : MemoryLive(audit[id])}
  <2>1. \A id \in Ids : audit[id] # None => audit[id].expires \in Nat /\ now \in Nat
    BY DEF Inv, TypeOK, AuditEntries
  <2>2. /\ S \in SUBSET Ids /\ \A id \in S : audit[id] # None
        /\ \A id \in Ids : audit[id] # None /\ audit[id].expires > now => id \in S
    BY <2>1 DEF MemoryLive
  <2>3. Page(S)
    BY <1>4 DEF MemoryListAuditRecords
  <2> HIDE DEF S
  <2> QED
    BY <1>3, <2>2, <2>3
<1>5. CASE PostgresListAuditRecords
  <2> DEFINE S == {id \in Ids : PostgresLive(audit[id])}
  <2>2. /\ S \in SUBSET Ids /\ \A id \in S : audit[id] # None
        /\ \A id \in Ids : audit[id] # None /\ audit[id].expires > now => id \in S
    BY DEF PostgresLive
  <2>3. Page(S)
    BY <1>5 DEF PostgresListAuditRecords
  <2> HIDE DEF S
  <2> QED
    BY <1>3, <2>2, <2>3
<1> QED
  BY <1>4, <1>5

LEMMA InitWalk == Init => WalkInv
<1> SUFFICES ASSUME Init PROVE WalkInv
  OBVIOUS
<1>1. /\ walk.phase = "idle" /\ walk.out = <<>> /\ walk.cursor = None /\ walk \in Walks
  <2>1. workload.rounds \in Nat
    BY WorkloadAssumption DEF Init
  <2>2. <<>> \in Seq(Positions) /\ {} \in SUBSET Ids /\ {} \in SUBSET Positions /\ 0 \in Nat
    OBVIOUS
  <2>3. walk = [phase |-> "idle", budget |-> workload.rounds, cursor |-> None, out |-> <<>>, round |-> 0,
                bound |-> None, seen |-> {}, ids |-> {}, exhausted |-> FALSE, collected |-> <<>>, last |-> None]
    BY DEF Init, NoWalk
  <2> QED
    BY <2>1, <2>2, <2>3 DEF Walks
<1>2. WalkTypeOK /\ CallOK
  BY <1>1 DEF Init, WalkTypeOK, CallOK
<1>2a. Len(walk.out) = 0 /\ stable = {}
  BY <1>1 DEF Init
<1>2b. PagesOK
  <2>1. \A n : ~ (n \in 1 .. Len(walk.out))
    BY <1>2a
  <2>2. ListingOrdered /\ ListingComplete /\ \A id : id \notin Undelivered
    BY <1>2a, <2>1 DEF ListingOrdered, ListingComplete, Undelivered
  <2> QED
    BY <2>1, <2>2 DEF PagesOK
<1>3. \A score \in Micros : Crowd(score) = {}
  BY NoneAssumption DEF Init, Crowd
<1>4. IndexOK
  <2>1. \A score \in Micros : Cardinality(Crowd(score)) < Batch
    BY <1>3, LimitPositive, FS_EmptySet
  <2>2. pipe = None /\ \A id \in Ids : index[id] = None
    BY DEF Init
  <2> QED
    BY <2>1, <2>2 DEF IndexOK
<1> QED
  BY <1>2, <1>2b, <1>4 DEF WalkInv

LEMMA WalkStep ==
  ASSUME Inv, WalkInv, [Next]_allVars
  PROVE  WalkInv'
<1>1. CASE UNCHANGED allVars
  <2>1. stable' = {id \in stable : audit'[id] = audit[id] /\ Listable(id)'} /\ workload' = workload
    BY <1>1 DEF WalkInv, WalkTypeOK, allVars, vars, tables, Listable, Matches
  <2> QED
    BY <1>1, <2>1, BackgroundWalkStep
<1>2. CASE Next
  <2>1. Observe /\ WalkTypeOK
    BY <1>2 DEF Next, WalkInv
  <2>2. CASE Tick \/ Unavailable \/ MemoryJanitor \/ PostgresJanitor
    <3>1. walk' = walk
      BY <2>2 DEF Tick, Unavailable, MemoryJanitor, PostgresJanitor, calls
    <3> QED
      BY <2>1, <2>2, <3>1, ObserveStays, BackgroundWalkStep
  <2>3. CASE MemoryRestart
    BY <2>1, <2>3, RestartWalkStep
  <2>4. CASE MaskingCalls
    BY <2>1, <2>4, MaskingKeepsWalk, OtherCallersStep DEF MaskingCalls
  <2>5. CASE AuditCalls
    BY <2>1, <2>5, AuditKeepsWalk, OtherCallersStep DEF AuditCalls
  <2>6. CASE RuleAndSettingsCalls
    BY <2>1, <2>6, ConfigKeepsWalk, OtherCallersStep DEF RuleAndSettingsCalls
  <2>7. CASE ListingCalls
    BY <2>1, <2>7, PutWalkStep, StartWalkStep, ListPageStep, RedisListStartStep, RedisListIndexStep,
       RedisListRecordsStep DEF ListingCalls
  <2> QED
    BY <1>2, <2>2, <2>3, <2>4, <2>5, <2>6, <2>7 DEF Next
<1> QED
  BY <1>1, <1>2

LEMMA WalkInvCorrect ==
  ASSUME SlowUpdates = FALSE
  PROVE  Spec => [](Inv /\ WalkInv)
<1>1. Inv /\ WalkInv /\ [Next]_allVars => Inv' /\ WalkInv'
  BY Step, WalkStep
<1> QED
  BY <1>1, InitInv, InitWalk, PTL DEF Spec

\* A client that follows the cursors to the end has been given every record
\* that was there all the time: on every backend, for any number of records
\* and page size, whatever is written, retried, trimmed or expires meanwhile,
\* as long as Redis has fewer than a batch of records of one microsecond.
THEOREM ListingCompleteCorrect ==
  ASSUME SlowUpdates = FALSE
  PROVE  Spec => []ListingComplete
<1>1. Inv /\ WalkInv => ListingComplete
  BY DEF WalkInv, PagesOK
<1> QED
  BY <1>1, WalkInvCorrect, PTL

\* It is given them the newest first: before one of them, all that come
\* before it in the order of the listing.
THEOREM ListingOrderedCorrect ==
  ASSUME SlowUpdates = FALSE
  PROVE  Spec => []ListingOrdered
<1>1. Inv /\ WalkInv => ListingOrdered
  BY DEF WalkInv, PagesOK
<1> QED
  BY <1>1, WalkInvCorrect, PTL

\* And it is given each of them once, in memory and in PostgreSQL, which read
\* a page in one step.
THEOREM ListedOnceAtomicallyCorrect ==
  ASSUME SlowUpdates = FALSE
  PROVE  Spec => []ListedOnceAtomically
<1>1. Inv /\ WalkInv => ListedOnceAtomically
  <2> SUFFICES ASSUME Inv, WalkInv, backend # "redis", NEW id \in stable,
                      NEW m \in 1..Len(walk.out), NEW n \in 1..Len(walk.out), {m, n} \subseteq Delivered(id)
               PROVE  m = n
    BY DEF ListedOnceAtomically, ListedOnce
  <2>1. /\ WalkTypeOK /\ PagesOK /\ walk.out[m][2] = id /\ walk.out[n][2] = id
    BY DEF WalkInv, Delivered
  <2>2. walk.out[m] = Position(id) /\ walk.out[n] = Position(id) /\ Position(id) \in Positions
    BY <2>1, StablePositions DEF PagesOK
  <2>3. ~ (m < n) /\ ~ (n < m)
    BY <2>1, <2>2, BeforeOrders DEF PagesOK
  <2>4. m \in Nat /\ n \in Nat
    BY <2>1, WalkFields
  <2> QED
    BY <2>3, <2>4
<1> QED
  BY <1>1, WalkInvCorrect, PTL

=============================================================================
