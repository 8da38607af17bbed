----------------------- MODULE RuleManagementProofs -----------------------
(* Proofs of the safety properties of RuleManagement, for any number of     *)
(* replicas, handlers, rules and faults.                                    *)
EXTENDS RuleManagement, TLAPS

\* Every process lives on a replica.
LEMMA HomeIsReplica ==
    ASSUME NEW p \in Procs
    PROVE  /\ Home(p) \in Replicas
           /\ p \in Callers => Home(p) = At[p]
  BY RuleAssumption DEF Procs, Home

\* The merge loop of Reload computes the effective rule set.
LEMMA MergedIsEffective ==
    ASSUME NEW rules \in [Ids -> Versions \cup {NoRule}], NEW flags \in SUBSET Ids
    PROVE  /\ Merged(rules, flags) = Effective(rules, flags)
           /\ Merged(rules, flags) \in SUBSET (Ids \X (Versions \cup {FileVersion}))
  <1>1. ASSUME NEW e \in Merged(rules, flags)
        PROVE  e \in Effective(rules, flags)
    BY <1>1, RuleAssumption DEF Merged, Effective, Ids
  <1>2. ASSUME NEW e \in Effective(rules, flags)
        PROVE  e \in Merged(rules, flags)
    <2>1. PICK i \in Ids, v \in Versions \cup {FileVersion} : e = <<i, v>>
      BY <1>2 DEF Effective
    <2>2. i \notin flags /\ v = (IF i \in Builtins THEN FileVersion ELSE rules[i])
      BY <1>2, <2>1 DEF Effective
    <2>3. CASE i \in Builtins
      BY <2>1, <2>2, <2>3 DEF Merged
    <2>4. CASE i \notin Builtins
      BY <2>1, <2>2, <2>4, RuleAssumption DEF Merged
    <2> QED BY <2>3, <2>4
  <1>3. Effective(rules, flags) \in SUBSET (Ids \X (Versions \cup {FileVersion}))
    BY DEF Effective
  <1> QED BY <1>1, <1>2, <1>3

\* The first command of Init exists.
LEMMA CommandsAreOps ==
    /\ Commands \subseteq Ops
    /\ (CHOOSE o \in Commands : o.kind = "delete") \in Ops
  <1>1. PICK c \in CustomIds : TRUE
    BY RuleAssumption
  <1>2. [kind |-> "delete", id |-> c, ver |-> NoRule, on |-> TRUE] \in Commands
    BY <1>1, RuleAssumption DEF Commands, Ops, Kinds, Ids
  <1> QED BY <1>2 DEF Commands

\* The steps of a handler outside Reload, and of Reload, keep the types.
LEMMA TypeInit == Init => TypeOK
  <1> SUFFICES ASSUME Init PROVE TypeOK
    OBVIOUS
  <1>1. Unread \in [rules : [Ids -> Versions \cup {NoRule}], flags : SUBSET Ids, rev : Revision]
    BY DEF Unread, Never, Revision
  <1>2. FileRules \in SUBSET (Ids \X (Versions \cup {FileVersion}))
    BY DEF FileRules, Ids
  <1> QED
    BY <1>1, <1>2, CommandsAreOps
    DEF Init, TypeOK, Revision, Never, Reply, NoReply, Steps

\* The building blocks of the actions keep the types of what they assign.
LEMMA GotoType ==
    ASSUME TypeOK, NEW p \in Procs, NEW s \in Steps, Goto(p, s)
    PROVE  pc' \in [Procs -> Steps]
  BY DEF TypeOK, Goto

LEMMA RespondType ==
    ASSUME TypeOK, NEW p \in Callers, NEW status \in {"ok", "error"}, NEW on \in BOOLEAN,
           Respond(p, status, on)
    PROVE  pc' \in [Procs -> Steps] /\ reply' \in [Callers -> Reply]
  <1>1. pc' \in [Procs -> Steps]
    BY GotoType DEF Respond, Procs, Steps
  <1>2. [status |-> status, enabled |-> on] \in Reply
    BY DEF Reply
  <1>3. reply' \in [Callers -> Reply]
    BY <1>2 DEF TypeOK, Respond
  <1> QED BY <1>1, <1>3

LEMMA FailType ==
    ASSUME TypeOK, NEW p \in Callers, Fail(p)
    PROVE  pc' \in [Procs -> Steps] /\ reply' \in [Callers -> Reply]
  BY RespondType DEF Fail

LEMMA PutRuleType ==
    ASSUME TypeOK, NEW p \in Callers, NEW id \in Ids, NEW content \in Versions \cup {NoRule},
           PutRule(p, id, content)
    PROVE  /\ custom' \in [Ids -> Versions \cup {NoRule}]
           /\ disabled' \in SUBSET Ids
           /\ rev' \in Revision
           /\ wrote' \in [Callers -> Revision]
  BY DEF TypeOK, PutRule, Revision

LEMMA PutFlagType ==
    ASSUME TypeOK, NEW p \in Callers, NEW id \in Ids, NEW off \in BOOLEAN,
           PutFlag(p, id, off)
    PROVE  /\ custom' \in [Ids -> Versions \cup {NoRule}]
           /\ disabled' \in SUBSET Ids
           /\ rev' \in Revision
           /\ wrote' \in [Callers -> Revision]
  BY DEF TypeOK, PutFlag, Revision

LEMMA NoWriteType ==
    ASSUME TypeOK, NoWrite
    PROVE  /\ custom' \in [Ids -> Versions \cup {NoRule}]
           /\ disabled' \in SUBSET Ids
           /\ rev' \in Revision
           /\ wrote' \in [Callers -> Revision]
  BY DEF TypeOK, NoWrite, store

LEMMA NotReloadingType ==
    ASSUME TypeOK, NotReloading
    PROVE  /\ active' \in [Replicas -> SUBSET (Ids \X (Versions \cup {FileVersion}))]
           /\ activeRev' \in [Replicas -> Revision]
           /\ mutex' \in [Replicas -> Procs \cup {NoOne}]
           /\ ready' \in SUBSET Replicas
           /\ read' \in [Procs -> [rules : [Ids -> Versions \cup {NoRule}],
                                   flags : SUBSET Ids, rev : Revision]]
  BY DEF TypeOK, NotReloading, registry

LEMMA BudgetType ==
    ASSUME TypeOK, UNCHANGED budget \/ Fault
    PROVE  ops' \in Nat /\ faults' \in Nat /\ crashes' \in Nat
  BY DEF TypeOK, budget, Fault

LEMMA UnreadType ==
    Unread \in [rules : [Ids -> Versions \cup {NoRule}], flags : SUBSET Ids, rev : Revision]
  BY DEF Unread, Never, Revision

LEMMA ReloadReturnsType ==
    ASSUME TypeOK, NEW p \in Procs, NEW ok \in BOOLEAN, ReloadReturns(p, ok)
    PROVE  /\ mutex' \in [Replicas -> Procs \cup {NoOne}]
           /\ ready' \in SUBSET Replicas
           /\ read' \in [Procs -> [rules : [Ids -> Versions \cup {NoRule}],
                                   flags : SUBSET Ids, rev : Revision]]
           /\ pc' \in [Procs -> Steps]
           /\ reply' \in [Callers -> Reply]
  <1>1. mutex' \in [Replicas -> Procs \cup {NoOne}]
    BY HomeIsReplica DEF ReloadReturns, TypeOK
  <1>2. read' \in [Procs -> [rules : [Ids -> Versions \cup {NoRule}],
                             flags : SUBSET Ids, rev : Revision]]
    BY UnreadType DEF ReloadReturns, TypeOK
  <1>3. CASE p \in Replicas
    <2>1. ready' \in SUBSET Replicas /\ Goto(p, "idle") /\ reply' = reply
      BY <1>3 DEF ReloadReturns, TypeOK
    <2> QED BY <1>1, <1>2, <2>1, GotoType DEF TypeOK, Steps
  <1>4. CASE p \notin Replicas
    <2>1. p \in Callers /\ op[p].on \in BOOLEAN
      BY <1>4 DEF Procs, TypeOK, Ops
    <2>2. /\ ready' = ready
          /\ \/ Fail(p)
             \/ (Goto(p, "report") \/ Goto(p, "reread")) /\ UNCHANGED reply
             \/ Respond(p, "ok", op[p].on)
      BY <1>4 DEF ReloadReturns
    <2>3. pc' \in [Procs -> Steps] /\ reply' \in [Callers -> Reply]
      BY <2>1, <2>2, GotoType, FailType, RespondType DEF Steps, TypeOK
    <2> QED BY <1>1, <1>2, <2>2, <2>3 DEF TypeOK
  <1> QED BY <1>3, <1>4

LEMMA TypeStep == TypeOK /\ [Next]_vars => TypeOK'
  <1> SUFFICES ASSUME TypeOK, [Next]_vars PROVE TypeOK'
    OBVIOUS
  <1> USE DEF TypeOK
  <1>1. ASSUME NEW p \in Callers, NEW o \in Commands, Start(p, o) PROVE TypeOK'
    <2>1. op' \in [Callers -> Ops] /\ wrote' \in [Callers -> Revision]
      BY <1>1, CommandsAreOps DEF Start, Revision, Never
    <2>2. custom' = custom /\ disabled' = disabled /\ rev' = rev /\ NotReloading
      BY <1>1 DEF Start, store
    <2>3. ops' \in Nat /\ faults' \in Nat /\ crashes' \in Nat
      BY <1>1 DEF Start
    <2>4. /\ o.kind \in Kinds
          /\ \/ Fail(p)
             \/ /\ \E s \in {"count", "create", "check", "remove", "flag"} : Goto(p, s)
                /\ reply' = [reply EXCEPT ![p] = NoReply]
      <3>1. o.kind \in Kinds
        BY CommandsAreOps DEF Ops
      <3> QED BY <1>1, <3>1 DEF Start, Kinds
    <2>5. NoReply \in Reply
      BY DEF NoReply, Reply
    <2>6. reply' \in [Callers -> Reply] /\ pc' \in [Procs -> Steps]
      <3> HIDE DEF TypeOK
      <3>1. CASE Fail(p)
        BY <3>1, FailType
      <3>2. CASE ~Fail(p)
        <4>1. PICK s \in {"count", "create", "check", "remove", "flag"} : Goto(p, s)
          BY <2>4, <3>2
        <4>2. pc' \in [Procs -> Steps]
          BY <4>1, GotoType DEF Procs, Steps
        <4>3. reply' \in [Callers -> Reply]
          BY <2>4, <2>5, <3>2 DEF TypeOK
        <4> QED BY <4>2, <4>3
      <3> QED BY <3>1, <3>2
    <2> QED BY <2>1, <2>2, <2>3, <2>6, NotReloadingType
  <1>2. ASSUME NEW p \in Callers, Handler(p) PROVE TypeOK'
    <2>0. /\ p \in Procs /\ op[p] \in Ops /\ op[p].id \in Ids
          /\ op[p].ver \in Versions \cup {NoRule} /\ op[p].on \in BOOLEAN
      BY DEF Procs, Ops
    <2> USE <2>0, GotoType, RespondType, FailType, PutRuleType, PutFlagType, NoWriteType,
            NotReloadingType, BudgetType
    <2> HIDE DEF TypeOK
    <2>r. op' = op /\ pc' \in [Procs -> Steps] /\ reply' \in [Callers -> Reply]
             /\ NotReloading /\ (UNCHANGED budget \/ Fault)
             /\ custom' \in [Ids -> Versions \cup {NoRule}] /\ disabled' \in SUBSET Ids
             /\ rev' \in Revision /\ wrote' \in [Callers -> Revision]
          => TypeOK'
      BY NotReloadingType, BudgetType DEF TypeOK
    <2>s. reply \in [Callers -> Reply]
      BY DEF TypeOK
    <2>1. CASE CountRules(p)  BY <2>1, <2>r, <2>s DEF CountRules, Steps
    <2>2. CASE CreateRule(p)  BY <2>2, <2>r, <2>s DEF CreateRule, Steps
    <2>3. CASE CheckRule(p)   BY <2>3, <2>r, <2>s DEF CheckRule, Steps
    <2>4. CASE SaveRule(p)    BY <2>4, <2>r, <2>s DEF SaveRule, Steps
    <2>5. CASE DeleteRule(p)  BY <2>5, <2>r, <2>s DEF DeleteRule, Steps
    <2>6. CASE ClearFlag(p)   BY <2>6, <2>r, <2>s DEF ClearFlag, Steps
    <2>7. CASE SetFlag(p)     BY <2>7, <2>r, <2>s DEF SetFlag, Steps
    <2>8. CASE Report(p)      BY <2>8, <2>r, <2>s DEF Report, Steps
    <2>9. CASE Reread(p)      BY <2>9, <2>r, <2>s DEF Reread, Steps
    <2> QED BY <1>2, <2>1, <2>2, <2>3, <2>4, <2>5, <2>6, <2>7, <2>8, <2>9 DEF Handler
  <1>3. ASSUME NEW p \in Procs, Rebuild(p) PROVE TypeOK'
    <2> USE DEF store, registry, budget
    <2>1. CASE Lock(p)
      BY <2>1, HomeIsReplica, GotoType, NoWriteType DEF Lock, Steps
    <2>2. CASE ListRules(p)
      <3>1. CASE Fault /\ ReloadReturns(p, FALSE)
        BY <2>2, <3>1, ReloadReturnsType, NoWriteType, BudgetType DEF ListRules
      <3>2. CASE ~(Fault /\ ReloadReturns(p, FALSE))
        <4> DEFINE got == [rules |-> custom, flags |-> {}, rev |-> [rules |-> rev.rules, flags |-> 0]]
        <4>1. /\ read' = [read EXCEPT ![p] = got]
              /\ Goto(p, "listDisabled")
              /\ UNCHANGED <<mutex, ready, reply, budget, registry, op>> /\ NoWrite
          <5> HIDE DEF TypeOK
          <5> QED BY <2>2, <3>2 DEF ListRules
        <4>2. got \in [rules : [Ids -> Versions \cup {NoRule}], flags : SUBSET Ids, rev : Revision]
          BY DEF Revision
        <4>3. read' \in [Procs -> [rules : [Ids -> Versions \cup {NoRule}],
                                   flags : SUBSET Ids, rev : Revision]]
          <5> HIDE DEF got
          <5> QED BY <4>1, <4>2
        <4> QED BY <4>1, <4>3, GotoType, NoWriteType DEF Steps
      <3> QED BY <3>1, <3>2
    <2>3. CASE ListDisabled(p)
      <3>1. CASE Fault /\ ReloadReturns(p, FALSE)
        BY <2>3, <3>1, ReloadReturnsType, NoWriteType, BudgetType DEF ListDisabled
      <3>2. CASE ~(Fault /\ ReloadReturns(p, FALSE))
        <4> DEFINE got == [rules |-> read[p].rules, flags |-> disabled,
                        rev |-> [rules |-> read[p].rev.rules, flags |-> rev.flags]]
        <4>1. /\ read' = [read EXCEPT ![p] = got]
              /\ Goto(p, "swap")
              /\ UNCHANGED <<mutex, ready, reply, budget, registry, op>> /\ NoWrite
          <5> HIDE DEF TypeOK
          <5> QED BY <2>3, <3>2 DEF ListDisabled
        <4>2. got \in [rules : [Ids -> Versions \cup {NoRule}], flags : SUBSET Ids, rev : Revision]
          BY DEF Revision
        <4>3. read' \in [Procs -> [rules : [Ids -> Versions \cup {NoRule}],
                                   flags : SUBSET Ids, rev : Revision]]
          <5> HIDE DEF got
          <5> QED BY <4>1, <4>2
        <4> QED BY <4>1, <4>3, GotoType, NoWriteType DEF Steps
      <3> QED BY <3>1, <3>2
    <2>4. CASE BuildAndSwap(p)
      <3>1. Merged(read[p].rules, read[p].flags) \in SUBSET (Ids \X (Versions \cup {FileVersion}))
        BY MergedIsEffective
      <3>2. /\ active' \in [Replicas -> SUBSET (Ids \X (Versions \cup {FileVersion}))]
            /\ activeRev' \in [Replicas -> Revision]
        <4>1. read[p].rev \in Revision /\ Home(p) \in Replicas
          BY HomeIsReplica
        <4> QED BY <2>4, <3>1, <4>1 DEF BuildAndSwap
      <3>3. \E ok \in BOOLEAN : ReloadReturns(p, ok)
        BY <2>4 DEF BuildAndSwap
      <3> QED BY <2>4, <3>2, <3>3, ReloadReturnsType, NoWriteType DEF BuildAndSwap
    <2> QED BY <1>3, <2>1, <2>2, <2>3, <2>4 DEF Rebuild
  <1>4. ASSUME NEW r \in Replicas, Tick(r) PROVE TypeOK'
    BY <1>4 DEF Tick, Goto, NoWrite, NotReloading, store, registry, budget, Steps, Procs
  <1>5. ASSUME NEW r \in Replicas, Crash(r) PROVE TypeOK'
    <2>1. FileRules \in SUBSET (Ids \X (Versions \cup {FileVersion}))
      BY DEF FileRules, Ids
    <2>2. Unread \in [rules : [Ids -> Versions \cup {NoRule}], flags : SUBSET Ids, rev : Revision]
      BY DEF Unread, Never, Revision
    <2> QED BY <1>5, <2>1, <2>2 DEF Crash, store, Revision, Never, Reply, NoReply, Steps
  <1>6. CASE UNCHANGED vars
    BY <1>6 DEF vars, store, registry, budget
  <1> QED BY <1>1, <1>2, <1>3, <1>4, <1>5, <1>6 DEF Next

\* Every reachable state is type correct, for all constants.
THEOREM TypeCorrect == Spec => []TypeOK
  BY TypeInit, TypeStep, PTL DEF Spec

-----------------------------------------------------------------------------
(* The inductive invariant.  Outside Reload a process only moves between    *)
(* steps that hold no mutex, and advances the store: a table whose revision *)
(* is unchanged is itself unchanged.                                        *)
StoreAdvances(p) ==
    /\ NotOlder(rev, rev')
    /\ rev'.rules = rev.rules => custom' = custom
    /\ rev'.flags = rev.flags => disabled' = disabled
    /\ \A q \in Callers : q # p => wrote'[q] = wrote[q]
    /\ p \in Callers => NotOlder(wrote'[p], rev')

MovesOutsideReload(p) ==
    /\ pc[p] \notin Rebuilding
    /\ \E s \in Steps \ (Rebuilding \cup {"report", "reread"}) : pc' = [pc EXCEPT ![p] = s]
    /\ \A q \in Callers : q # p => reply'[q] = reply[q]
    /\ (p \in Callers /\ pc'[p] = "idle") =>
            \/ reply'[p].status = "error"
            \/ pc[p] \in {"report", "reread"} /\ wrote' = wrote

LEMMA PutRuleAdvances ==
    ASSUME TypeOK, RevisionsBounded, NEW p \in Callers, NEW id, NEW content, PutRule(p, id, content)
    PROVE  StoreAdvances(p)
  BY DEF TypeOK, PutRule, StoreAdvances, NotOlder, Revision, RevisionsBounded

LEMMA PutFlagAdvances ==
    ASSUME TypeOK, RevisionsBounded, NEW p \in Callers, NEW id, NEW off, PutFlag(p, id, off)
    PROVE  StoreAdvances(p)
  BY DEF TypeOK, PutFlag, StoreAdvances, NotOlder, Revision, RevisionsBounded

LEMMA NoWriteAdvances ==
    ASSUME TypeOK, RevisionsBounded, NEW p \in Procs, NoWrite
    PROVE  StoreAdvances(p)
  BY DEF TypeOK, NoWrite, store, StoreAdvances, NotOlder, Revision, RevisionsBounded

\* A step outside Reload keeps the invariant.
LEMMA OutsideReload ==
    ASSUME TypeOK, TypeOK', IInv, NEW p \in Procs,
           MovesOutsideReload(p), StoreAdvances(p), NotReloading
    PROVE  IInv'
  <1> USE DEF IInv
  <1>0. PICK s \in Steps \ (Rebuilding \cup {"report", "reread"}) : pc' = [pc EXCEPT ![p] = s]
    BY DEF MovesOutsideReload
  <1>a. /\ active' = active /\ activeRev' = activeRev /\ mutex' = mutex /\ read' = read
        /\ pc \in [Procs -> Steps] /\ rev \in Revision /\ rev' \in Revision
        /\ activeRev \in [Replicas -> Revision] /\ wrote \in [Callers -> Revision]
        /\ wrote' \in [Callers -> Revision]
        /\ \A q \in Procs : read[q].rev \in Revision
    BY DEF NotReloading, registry, TypeOK
  <1>b. \A q \in Procs : q # p => pc'[q] = pc[q]
    BY <1>0, <1>a
  <1>c. pc'[p] = s /\ pc[p] \notin Rebuilding
    BY <1>0, <1>a DEF MovesOutsideReload
  <1>d. \A q \in Procs : Home(q) \in Replicas
    BY HomeIsReplica
  <1>1. MutexHeld'
    BY <1>0, <1>a, <1>b, <1>c DEF MutexHeld, Home
  <1>2. RevisionsBounded'
    <2> SUFFICES /\ rev'.rules >= 1
                 /\ \A r \in Replicas : NotOlder(activeRev[r], rev')
                 /\ \A q \in Procs : NotOlder(read[q].rev, rev')
                 /\ \A q \in Callers : NotOlder(wrote'[q], rev')
      BY <1>a DEF RevisionsBounded
    <2>1. NotOlder(rev, rev') /\ rev \in Revision /\ rev' \in Revision
      BY <1>a DEF StoreAdvances
    <2>2. \A x \in Revision : NotOlder(x, rev) => NotOlder(x, rev')
      BY <2>1 DEF NotOlder, Revision
    <2>3. rev'.rules >= 1
      BY <2>1 DEF RevisionsBounded, NotOlder, Revision
    <2>4. \A r \in Replicas : NotOlder(activeRev[r], rev')
      <3> TAKE r \in Replicas
      <3>1. activeRev[r] \in Revision /\ NotOlder(activeRev[r], rev) BY <1>a DEF RevisionsBounded
      <3> QED BY <2>2, <3>1
    <2>5. \A q \in Procs : NotOlder(read[q].rev, rev')
      <3> TAKE q \in Procs
      <3>1. read[q].rev \in Revision /\ NotOlder(read[q].rev, rev) BY <1>a DEF RevisionsBounded
      <3> QED BY <2>2, <3>1
    <2>6. \A q \in Callers : NotOlder(wrote'[q], rev')
      <3> TAKE q \in Callers
      <3>1. wrote[q] \in Revision /\ NotOlder(wrote[q], rev) BY <1>a DEF RevisionsBounded
      <3>2. CASE q = p BY <3>2 DEF StoreAdvances
      <3>3. CASE q # p BY <2>2, <3>1, <3>3 DEF StoreAdvances
      <3> QED BY <3>2, <3>3
    <2> QED BY <2>3, <2>4, <2>5, <2>6
  <1>3. RulesReadIsNewer'
    <2> SUFFICES ASSUME NEW q \in Procs, pc'[q] \in {"listDisabled", "swap"}
                 PROVE  /\ activeRev[Home(q)].rules <= read[q].rev.rules
                        /\ q \in Callers => wrote'[q].rules <= read[q].rev.rules
                        /\ read[q].rev.rules = rev'.rules => read[q].rules = custom'
      BY <1>a DEF RulesReadIsNewer, Home
    <2>1. q # p /\ pc[q] \in {"listDisabled", "swap"}
      BY <1>0, <1>b, <1>c DEF Rebuilding
    <2>2. read[q].rev.rules <= rev.rules /\ rev.rules <= rev'.rules
      BY DEF RevisionsBounded, NotOlder, StoreAdvances
    <2>3. read[q].rev.rules \in Nat /\ rev.rules \in Nat /\ rev'.rules \in Nat
      BY <1>a DEF Revision
    <2>4. read[q].rev.rules = rev'.rules => read[q].rules = custom'
      BY <2>1, <2>2, <2>3 DEF RulesReadIsNewer, StoreAdvances
    <2> QED BY <2>1, <2>4 DEF RulesReadIsNewer, StoreAdvances
  <1>4. FlagsReadIsNewer'
    <2> SUFFICES ASSUME NEW q \in Procs, pc'[q] = "swap"
                 PROVE  /\ activeRev[Home(q)].flags <= read[q].rev.flags
                        /\ q \in Callers => wrote'[q].flags <= read[q].rev.flags
                        /\ read[q].rev.flags = rev'.flags => read[q].flags = disabled'
      BY <1>a DEF FlagsReadIsNewer, Home
    <2>1. q # p /\ pc[q] = "swap"
      BY <1>0, <1>b, <1>c DEF Rebuilding
    <2>2. read[q].rev.flags <= rev.flags /\ rev.flags <= rev'.flags
      BY DEF RevisionsBounded, NotOlder, StoreAdvances
    <2>3. read[q].rev.flags \in Nat /\ rev.flags \in Nat /\ rev'.flags \in Nat
      BY <1>a DEF Revision
    <2>4. read[q].rev.flags = rev'.flags => read[q].flags = disabled'
      BY <2>1, <2>2, <2>3 DEF FlagsReadIsNewer, StoreAdvances
    <2> QED BY <2>1, <2>4 DEF FlagsReadIsNewer, StoreAdvances
  <1>5. AppliedAfterReload'
    BY <1>0, <1>a, <1>b, <1>c DEF AppliedAfterReload, StoreAdvances, Procs
  <1>6. AppliedBeforeReply'
    <2> SUFFICES ASSUME NEW q \in Callers, pc'[q] = "idle", reply'[q].status = "ok"
                 PROVE  NotOlder(wrote'[q], activeRev[At[q]])
      BY <1>a DEF AppliedBeforeReply
    <2>1. CASE q # p
      BY <1>b, <2>1 DEF AppliedBeforeReply, MovesOutsideReload, StoreAdvances, Procs
    <2>2. CASE q = p
      BY <2>2 DEF AppliedAfterReload, MovesOutsideReload
    <2> QED BY <2>1, <2>2
  <1>7. CurrentSnapshotIsExact'
    <2> SUFFICES ASSUME NEW r \in Replicas, activeRev[r] = rev'
                 PROVE  active[r] = Effective(custom', disabled')
      BY <1>a DEF CurrentSnapshotIsExact
    <2>1. NotOlder(activeRev[r], rev) /\ NotOlder(rev, rev')
      BY DEF RevisionsBounded, StoreAdvances
    <2>n. rev.rules \in Nat /\ rev.flags \in Nat /\ rev'.rules \in Nat /\ rev'.flags \in Nat
      BY <1>a DEF Revision
    <2>o. NotOlder(rev', rev)
      BY <2>1
    <2>2. rev'.rules = rev.rules /\ rev'.flags = rev.flags
      BY <2>1, <2>n, <2>o DEF NotOlder
    <2>3. rev' = rev
      BY <1>a, <2>2 DEF Revision
    <2>4. custom' = custom /\ disabled' = disabled
      BY <2>2 DEF StoreAdvances
    <2> QED BY <2>3, <2>4 DEF CurrentSnapshotIsExact
  <1> QED BY <1>1, <1>2, <1>3, <1>4, <1>5, <1>6, <1>7

\* The initial states satisfy the invariant.
LEMMA InvInit == Init => IInv
  <1> SUFFICES ASSUME Init PROVE IInv
    OBVIOUS
  <1>0. /\ rev = [rules |-> 1, flags |-> 1]
        /\ \A r \in Replicas : activeRev[r] = Never /\ mutex[r] = NoOne
        /\ \A p \in Procs : pc[p] \in {"lock", "idle"} /\ read[p] = Unread
        /\ \A p \in Callers : wrote[p] = Never /\ reply[p] = NoReply
        /\ \A p \in Procs : Home(p) \in Replicas /\ p # NoOne
    BY HomeIsReplica, RuleAssumption DEF Init, Procs
  <1>1. MutexHeld
    BY <1>0 DEF MutexHeld, Rebuilding
  <1>2. RevisionsBounded
    BY <1>0 DEF RevisionsBounded, NotOlder, Never, Unread
  <1>3. RulesReadIsNewer /\ FlagsReadIsNewer
    BY <1>0 DEF RulesReadIsNewer, FlagsReadIsNewer
  <1>4. AppliedAfterReload /\ AppliedBeforeReply
    BY <1>0 DEF AppliedAfterReload, AppliedBeforeReply, NoReply, Procs
  <1>5. CurrentSnapshotIsExact
    BY <1>0 DEF CurrentSnapshotIsExact, Never
  <1> QED BY <1>1, <1>2, <1>3, <1>4, <1>5 DEF IInv

\* The clients' calls and the handlers' own steps all happen outside Reload.
LEMMA StartOutside ==
    ASSUME TypeOK, TypeOK', IInv, NEW p \in Callers, NEW o \in Commands, Start(p, o)
    PROVE  IInv'
  <1>1. p \in Procs /\ o.kind \in Kinds
    BY CommandsAreOps DEF Procs, Ops
  <1>2. StoreAdvances(p)
    BY DEF Start, store, StoreAdvances, NotOlder, Never, Revision, TypeOK, IInv, RevisionsBounded
  <1>3. MovesOutsideReload(p)
    <2>1. pc[p] \notin Rebuilding
      BY DEF Start, Rebuilding
    <2>2. \/ Fail(p)
          \/ \E s \in {"count", "create", "check", "remove", "flag"} :
                Goto(p, s) /\ reply' = [reply EXCEPT ![p] = NoReply]
      BY <1>1 DEF Start, Kinds
    <2>3. CASE Fail(p)
      BY <1>1, <2>1, <2>3 DEF MovesOutsideReload, Fail, Respond, Goto, Steps, Rebuilding, TypeOK
    <2>4. CASE ~Fail(p)
      BY <1>1, <2>1, <2>2, <2>4 DEF MovesOutsideReload, Goto, Steps, Rebuilding, TypeOK
    <2> QED BY <2>3, <2>4
  <1> QED BY <1>1, <1>2, <1>3, OutsideReload DEF Start

LEMMA HandlerOutside ==
    ASSUME TypeOK, TypeOK', IInv, NEW p \in Callers, Handler(p)
    PROVE  IInv'
  <1>0. p \in Procs /\ RevisionsBounded
    BY DEF Procs, IInv
  <1>f. ASSUME Fail(p), pc[p] \notin Rebuilding
        PROVE  MovesOutsideReload(p)
    <2>1. /\ reply'[p].status = "error"
          /\ \A q \in Callers : q # p => reply'[q] = reply[q]
      BY <1>f DEF Fail, Respond, TypeOK
    <2>2. pc' = [pc EXCEPT ![p] = "idle"]
      BY <1>f DEF Fail, Respond, Goto
    <2> QED BY <1>f, <2>1, <2>2 DEF MovesOutsideReload, Steps, Rebuilding
  <1>g. ASSUME NEW s \in {"create", "save", "flag", "clear", "lock"},
               pc[p] \notin Rebuilding, Goto(p, s), UNCHANGED reply
        PROVE  MovesOutsideReload(p)
    BY <1>0, <1>g DEF MovesOutsideReload, Goto, Steps, Rebuilding, TypeOK
  <1>r. ASSUME NEW on, pc[p] \in {"report", "reread"}, Respond(p, "ok", on), NoWrite
        PROVE  MovesOutsideReload(p)
    <2>1. wrote' = wrote
      BY <1>r DEF NoWrite
    <2>2. \A q \in Callers : q # p => reply'[q] = reply[q]
      BY <1>r DEF Respond, TypeOK
    <2>3. pc' = [pc EXCEPT ![p] = "idle"]
      BY <1>r DEF Respond, Goto
    <2> QED BY <1>r, <2>1, <2>2, <2>3 DEF MovesOutsideReload, Steps, Rebuilding
  <1>s. ASSUME \/ NoWrite
               \/ \E id, content : PutRule(p, id, content)
               \/ \E id, off : PutFlag(p, id, off)
        PROVE  StoreAdvances(p)
    BY <1>0, <1>s, PutRuleAdvances, PutFlagAdvances, NoWriteAdvances
  <1> USE DEF Rebuilding
  <1>1. CASE CountRules(p)
    BY <1>0, <1>1, <1>f, <1>g, <1>s, OutsideReload DEF CountRules
  <1>2. CASE CreateRule(p)
    BY <1>0, <1>2, <1>f, <1>g, <1>s, OutsideReload DEF CreateRule
  <1>3. CASE CheckRule(p)
    BY <1>0, <1>3, <1>f, <1>g, <1>s, OutsideReload DEF CheckRule
  <1>4. CASE SaveRule(p)
    BY <1>0, <1>4, <1>f, <1>g, <1>s, OutsideReload DEF SaveRule
  <1>5. CASE DeleteRule(p)
    BY <1>0, <1>5, <1>f, <1>g, <1>s, OutsideReload DEF DeleteRule
  <1>6. CASE ClearFlag(p)
    BY <1>0, <1>6, <1>f, <1>g, <1>s, OutsideReload DEF ClearFlag
  <1>7. CASE SetFlag(p)
    BY <1>0, <1>7, <1>f, <1>g, <1>s, OutsideReload DEF SetFlag
  <1>8. CASE Report(p)
    <2>1. PICK on : Respond(p, "ok", on)
      BY <1>8, Zenon DEF Report
    <2>2. pc[p] \in {"report", "reread"} /\ NoWrite /\ NotReloading
      BY <1>8 DEF Report
    <2>3. MovesOutsideReload(p)
      BY <1>r, <2>1, <2>2
    <2> QED BY <1>0, <1>s, <2>2, <2>3, OutsideReload
  <1>9. CASE Reread(p)
    BY <1>0, <1>9, <1>f, <1>r, <1>s, OutsideReload DEF Reread
  <1> QED BY <1>1, <1>2, <1>3, <1>4, <1>5, <1>6, <1>7, <1>8, <1>9 DEF Handler

LEMMA TickOutside ==
    ASSUME TypeOK, TypeOK', IInv, NEW r \in Replicas, Tick(r)
    PROVE  IInv'
  <1>1. r \in Procs /\ r \notin Callers
    BY RuleAssumption DEF Procs
  <1>2. StoreAdvances(r)
    BY <1>1, NoWriteAdvances DEF Tick, IInv
  <1>3. MovesOutsideReload(r)
    <2>1. pc[r] = "idle" /\ pc' = [pc EXCEPT ![r] = "lock"] /\ reply' = reply
      BY DEF Tick, Goto
    <2> QED BY <1>1, <2>1 DEF MovesOutsideReload, Steps, Rebuilding
  <1> QED BY <1>1, <1>2, <1>3, OutsideReload DEF Tick

\* Two Reloads are never in progress on one replica.
LEMMA OneRebuildPerReplica ==
    ASSUME MutexHeld, NEW p \in Procs, NEW q \in Procs,
           pc[p] \in Rebuilding, pc[q] \in Rebuilding, Home(p) = Home(q)
    PROVE  p = q
  BY DEF MutexHeld

\* What the return of a Reload changes.
LEMMA ReturnEffect ==
    ASSUME TypeOK, NEW p \in Procs, NEW ok \in BOOLEAN, ReloadReturns(p, ok)
    PROVE  /\ pc'[p] \in {"idle", "report", "reread"}
           /\ \A q \in Procs : q # p => pc'[q] = pc[q] /\ read'[q] = read[q]
           /\ read'[p] = Unread
           /\ mutex' = [mutex EXCEPT ![Home(p)] = NoOne]
           /\ \A q \in Callers : q # p => reply'[q] = reply[q]
           /\ (p \in Callers /\ ~ok) => pc'[p] = "idle" /\ reply'[p].status = "error"
  <1>1. /\ mutex' = [mutex EXCEPT ![Home(p)] = NoOne]
        /\ read'[p] = Unread
        /\ \A q \in Procs : q # p => read'[q] = read[q]
    BY DEF ReloadReturns, TypeOK
  <1>2. CASE p \in Replicas
    <2>1. p \notin Callers
      BY <1>2, RuleAssumption
    <2>2. pc' = [pc EXCEPT ![p] = "idle"] /\ reply' = reply
      BY <1>2 DEF ReloadReturns, Goto
    <2> QED BY <1>1, <2>1, <2>2 DEF TypeOK
  <1>3. CASE p \notin Replicas
    <2>1. p \in Callers
      BY <1>3 DEF Procs
    <2>2. \/ Fail(p)
          \/ ok /\ (Goto(p, "report") \/ Goto(p, "reread")) /\ reply' = reply
          \/ ok /\ Respond(p, "ok", op[p].on)
      BY <1>3 DEF ReloadReturns
    <2>3. CASE Fail(p)
      BY <1>1, <2>1, <2>3 DEF Fail, Respond, Goto, TypeOK
    <2>4. CASE ok /\ (Goto(p, "report") \/ Goto(p, "reread")) /\ reply' = reply
      BY <1>1, <2>1, <2>4 DEF Goto, TypeOK
    <2>5. CASE ok /\ Respond(p, "ok", op[p].on)
      BY <1>1, <2>1, <2>5 DEF Respond, Goto, TypeOK
    <2> QED BY <2>2, <2>3, <2>4, <2>5
  <1> QED BY <1>2, <1>3

\* Taking the mutex.
LEMMA LockInv ==
    ASSUME TypeOK, TypeOK', IInv, NEW p \in Procs, Lock(p)
    PROVE  IInv'
  <1> USE DEF IInv
  <1>0. /\ custom' = custom /\ disabled' = disabled /\ rev' = rev /\ wrote' = wrote
        /\ active' = active /\ activeRev' = activeRev /\ read' = read /\ reply' = reply
        /\ mutex' = [mutex EXCEPT ![Home(p)] = p] /\ mutex[Home(p)] = NoOne
        /\ pc' = [pc EXCEPT ![p] = "listRules"] /\ pc[p] = "lock"
    BY DEF Lock, NoWrite, Goto, store, registry
  <1>1. \A q \in Procs : q # p => pc'[q] = pc[q]
    BY <1>0 DEF TypeOK
  <1>2. pc'[p] = "listRules"
    BY <1>0 DEF TypeOK
  <1>3. MutexHeld'
    <2> SUFFICES ASSUME NEW q \in Procs
                 PROVE  pc'[q] \in Rebuilding <=> mutex'[Home(q)] = q
      BY DEF MutexHeld, Home
    <2>1. Home(p) \in Replicas /\ Home(q) \in Replicas /\ q # NoOne
      BY HomeIsReplica, RuleAssumption DEF Procs
    <2>2. CASE q = p
      BY <1>0, <1>2, <2>1, <2>2 DEF Rebuilding, TypeOK
    <2>3. CASE q # p
      BY <1>0, <1>1, <2>1, <2>3 DEF MutexHeld, TypeOK
    <2> QED BY <2>2, <2>3
  <1>4. RevisionsBounded'
    BY <1>0 DEF RevisionsBounded
  <1>5. RulesReadIsNewer' /\ FlagsReadIsNewer'
    BY <1>0, <1>1, <1>2 DEF RulesReadIsNewer, FlagsReadIsNewer, Home
  <1>6. AppliedAfterReload' /\ AppliedBeforeReply'
    BY <1>0, <1>1, <1>2 DEF AppliedAfterReload, AppliedBeforeReply, Procs
  <1>7. CurrentSnapshotIsExact'
    BY <1>0 DEF CurrentSnapshotIsExact
  <1> QED BY <1>3, <1>4, <1>5, <1>6, <1>7

\* A Reload that fails unlocks and changes nothing else that others see.
LEMMA FailedReloadInv ==
    ASSUME TypeOK, TypeOK', IInv, NEW p \in Procs, pc[p] \in Rebuilding,
           ReloadReturns(p, FALSE), NoWrite, UNCHANGED registry
    PROVE  IInv'
  <1> USE DEF IInv
  <1>0. /\ custom' = custom /\ disabled' = disabled /\ rev' = rev /\ wrote' = wrote
        /\ active' = active /\ activeRev' = activeRev
    BY DEF NoWrite, store, registry
  <1>1. /\ pc'[p] \in {"idle", "report", "reread"}
        /\ \A q \in Procs : q # p => pc'[q] = pc[q] /\ read'[q] = read[q]
        /\ read'[p] = Unread
        /\ mutex' = [mutex EXCEPT ![Home(p)] = NoOne]
        /\ \A q \in Callers : q # p => reply'[q] = reply[q]
        /\ p \in Callers => pc'[p] = "idle" /\ reply'[p].status = "error"
    BY ReturnEffect
  <1>3. MutexHeld'
    <2> SUFFICES ASSUME NEW q \in Procs
                 PROVE  pc'[q] \in Rebuilding <=> mutex'[Home(q)] = q
      BY DEF MutexHeld, Home
    <2>1. Home(p) \in Replicas /\ Home(q) \in Replicas /\ q # NoOne
      BY HomeIsReplica, RuleAssumption DEF Procs
    <2>2. mutex[Home(p)] = p
      BY DEF MutexHeld
    <2>3. CASE q = p
      BY <1>1, <2>1, <2>3 DEF Rebuilding, TypeOK
    <2>4. CASE q # p
      BY <1>1, <2>1, <2>2, <2>4 DEF MutexHeld, TypeOK
    <2> QED BY <2>3, <2>4
  <1>4. RevisionsBounded'
    <2>1. NotOlder(Unread.rev, rev)
      BY DEF Unread, Never, NotOlder, TypeOK, Revision
    <2> QED BY <1>0, <1>1, <2>1 DEF RevisionsBounded
  <1>5. RulesReadIsNewer' /\ FlagsReadIsNewer'
    BY <1>0, <1>1 DEF RulesReadIsNewer, FlagsReadIsNewer, Home
  <1>6. AppliedAfterReload' /\ AppliedBeforeReply'
    BY <1>0, <1>1 DEF AppliedAfterReload, AppliedBeforeReply, Procs
  <1>7. CurrentSnapshotIsExact'
    BY <1>0 DEF CurrentSnapshotIsExact
  <1> QED BY <1>3, <1>4, <1>5, <1>6, <1>7

\* The two reads: what is read now is as new as the store.
LEMMA ListRulesInv ==
    ASSUME TypeOK, TypeOK', IInv, NEW p \in Procs, ListRules(p)
    PROVE  IInv'
  <1> USE DEF IInv
  <1>1. CASE Fault /\ ReloadReturns(p, FALSE)
    BY <1>1, FailedReloadInv DEF ListRules, Rebuilding
  <1>2. CASE ~(Fault /\ ReloadReturns(p, FALSE))
    <2> DEFINE got == read'[p]
    <2>0. /\ custom' = custom /\ disabled' = disabled /\ rev' = rev /\ wrote' = wrote
          /\ active' = active /\ activeRev' = activeRev /\ mutex' = mutex /\ reply' = reply
          /\ pc' = [pc EXCEPT ![p] = "listDisabled"] /\ pc[p] = "listRules"
      BY <1>2 DEF ListRules, NoWrite, Goto, store, registry
    <2>1. \A q \in Procs : q # p => pc'[q] = pc[q] /\ read'[q] = read[q]
      BY <1>2, <2>0 DEF ListRules, TypeOK
    <2>2. pc'[p] = "listDisabled"
      BY <2>0 DEF TypeOK
    <2>3. got.rules = custom /\ got.rev.rules = rev.rules /\ got.rev.flags = 0
      <3> DEFINE record == [rules |-> custom, flags |-> {},
                            rev |-> [rules |-> rev.rules, flags |-> 0]]
      <3>1. record.rules = custom /\ record.rev.rules = rev.rules /\ record.rev.flags = 0
        OBVIOUS
      <3>2. read' = [read EXCEPT ![p] = record]
        BY <1>2 DEF ListRules
      <3> HIDE DEF record
      <3>3. got = record
        BY <3>2 DEF TypeOK
      <3> QED BY <3>1, <3>3
    <2>4. \A q \in Procs : Home(q) \in Replicas
      BY HomeIsReplica
    <2>5. MutexHeld'
      BY <2>0, <2>1, <2>2 DEF MutexHeld, Rebuilding, Home
    <2>6. RevisionsBounded'
      <3>1. NotOlder(got.rev, rev)
        BY <2>3 DEF NotOlder, RevisionsBounded, TypeOK, Revision
      <3> QED BY <2>0, <2>1, <3>1 DEF RevisionsBounded
    <2>7. RulesReadIsNewer'
      BY <2>0, <2>1, <2>2, <2>3, <2>4 DEF RulesReadIsNewer, RevisionsBounded, NotOlder, Home
    <2>8. FlagsReadIsNewer'
      BY <2>0, <2>1, <2>2, <2>3, <2>4 DEF FlagsReadIsNewer, RevisionsBounded, NotOlder, Home
    <2>9. AppliedAfterReload' /\ AppliedBeforeReply'
      BY <2>0, <2>1, <2>2 DEF AppliedAfterReload, AppliedBeforeReply, Procs
    <2>10. CurrentSnapshotIsExact'
      BY <2>0 DEF CurrentSnapshotIsExact
    <2> QED BY <2>5, <2>6, <2>7, <2>8, <2>9, <2>10
  <1> QED BY <1>1, <1>2

LEMMA ListDisabledInv ==
    ASSUME TypeOK, TypeOK', IInv, NEW p \in Procs, ListDisabled(p)
    PROVE  IInv'
  <1> USE DEF IInv
  <1>1. CASE Fault /\ ReloadReturns(p, FALSE)
    BY <1>1, FailedReloadInv DEF ListDisabled, Rebuilding
  <1>2. CASE ~(Fault /\ ReloadReturns(p, FALSE))
    <2> DEFINE got == read'[p]
    <2>0. /\ custom' = custom /\ disabled' = disabled /\ rev' = rev /\ wrote' = wrote
          /\ active' = active /\ activeRev' = activeRev /\ mutex' = mutex /\ reply' = reply
          /\ pc' = [pc EXCEPT ![p] = "swap"] /\ pc[p] = "listDisabled"
      BY <1>2 DEF ListDisabled, NoWrite, Goto, store, registry
    <2>1. \A q \in Procs : q # p => pc'[q] = pc[q] /\ read'[q] = read[q]
      BY <1>2, <2>0 DEF ListDisabled, TypeOK
    <2>2. pc'[p] = "swap"
      BY <2>0 DEF TypeOK
    <2>3. /\ got.rules = read[p].rules /\ got.rev.rules = read[p].rev.rules
          /\ got.flags = disabled /\ got.rev.flags = rev.flags
      <3> DEFINE record == [rules |-> read[p].rules, flags |-> disabled,
                            rev |-> [rules |-> read[p].rev.rules, flags |-> rev.flags]]
      <3>1. /\ record.rules = read[p].rules /\ record.rev.rules = read[p].rev.rules
            /\ record.flags = disabled /\ record.rev.flags = rev.flags
        OBVIOUS
      <3>2. read' = [read EXCEPT ![p] = record]
        BY <1>2 DEF ListDisabled
      <3> HIDE DEF record
      <3>3. got = record
        BY <3>2 DEF TypeOK
      <3> QED BY <3>1, <3>3
    <2>4. \A q \in Procs : Home(q) \in Replicas
      BY HomeIsReplica
    <2>5. MutexHeld'
      BY <2>0, <2>1, <2>2 DEF MutexHeld, Rebuilding, Home
    <2>6. RevisionsBounded'
      <3>1. NotOlder(got.rev, rev)
        BY <2>3 DEF NotOlder, RevisionsBounded, TypeOK, Revision
      <3> QED BY <2>0, <2>1, <3>1 DEF RevisionsBounded
    <2>7. RulesReadIsNewer'
      BY <2>0, <2>1, <2>2, <2>3, <2>4 DEF RulesReadIsNewer, RevisionsBounded, NotOlder, Home
    <2>8. FlagsReadIsNewer'
      BY <2>0, <2>1, <2>2, <2>3, <2>4 DEF FlagsReadIsNewer, RevisionsBounded, NotOlder, Home
    <2>9. AppliedAfterReload' /\ AppliedBeforeReply'
      BY <2>0, <2>1, <2>2 DEF AppliedAfterReload, AppliedBeforeReply, Procs
    <2>10. CurrentSnapshotIsExact'
      BY <2>0 DEF CurrentSnapshotIsExact
    <2> QED BY <2>5, <2>6, <2>7, <2>8, <2>9, <2>10
  <1> QED BY <1>1, <1>2

\* The swap: the new snapshot is no older than the old one and includes the
\* handler's own writes; nobody else is rebuilding on this replica.
LEMMA BuildAndSwapInv ==
    ASSUME TypeOK, TypeOK', IInv, NEW p \in Procs, BuildAndSwap(p)
    PROVE  IInv'
  <1> USE DEF IInv
  <1> DEFINE home == Home(p)
             pairs == Merged(read[p].rules, read[p].flags)
  <1>1. CASE ~Buildable(pairs)
    BY <1>1, FailedReloadInv DEF BuildAndSwap, Rebuilding
  <1>2. CASE Buildable(pairs)
    <2>0. /\ custom' = custom /\ disabled' = disabled /\ rev' = rev /\ wrote' = wrote
          /\ active' = [active EXCEPT ![home] = pairs]
          /\ activeRev' = [activeRev EXCEPT ![home] = read[p].rev]
          /\ pc[p] = "swap" /\ ReloadReturns(p, TRUE)
      BY <1>2 DEF BuildAndSwap, NoWrite, store
    <2>1. /\ pc'[p] \in {"idle", "report", "reread"}
          /\ \A q \in Procs : q # p => pc'[q] = pc[q] /\ read'[q] = read[q]
          /\ read'[p] = Unread
          /\ mutex' = [mutex EXCEPT ![home] = NoOne]
          /\ \A q \in Callers : q # p => reply'[q] = reply[q]
      BY <2>0, ReturnEffect
    <2>2. home \in Replicas /\ pc[p] \in Rebuilding
      BY <2>0, HomeIsReplica DEF Rebuilding
    <2>3. /\ activeRev'[home] = read[p].rev /\ active'[home] = pairs
          /\ \A r \in Replicas : r # home => activeRev'[r] = activeRev[r] /\ active'[r] = active[r]
      BY <2>0, <2>2 DEF TypeOK
    <2>4. NotOlder(activeRev[home], read[p].rev) /\ NotOlder(read[p].rev, rev)
      BY <2>0 DEF RulesReadIsNewer, FlagsReadIsNewer, NotOlder, RevisionsBounded
    <2>5. p \in Callers => NotOlder(wrote[p], read[p].rev)
      BY <2>0 DEF RulesReadIsNewer, FlagsReadIsNewer, NotOlder
    <2>6. \A q \in Callers : At[q] = Home(q) /\ q \in Procs /\ Home(q) \in Replicas
      BY HomeIsReplica DEF Procs
    <2>7. \A q \in Procs : q # p /\ pc[q] \in Rebuilding => Home(q) # home
      BY <2>2, OneRebuildPerReplica
    <2>8. MutexHeld'
      <3> SUFFICES ASSUME NEW q \in Procs
                   PROVE  pc'[q] \in Rebuilding <=> mutex'[Home(q)] = q
        BY DEF MutexHeld, Home
      <3>1. Home(q) \in Replicas /\ q # NoOne
        BY HomeIsReplica, RuleAssumption DEF Procs
      <3>2. mutex[home] = p
        BY <2>2 DEF MutexHeld
      <3>3. CASE q = p
        BY <2>1, <2>2, <3>1, <3>3 DEF Rebuilding, TypeOK
      <3>4. CASE q # p
        BY <2>1, <2>2, <3>1, <3>2, <3>4 DEF MutexHeld, TypeOK
      <3> QED BY <3>3, <3>4
    <2>9. RevisionsBounded'
      <3>1. NotOlder(Unread.rev, rev)
        BY DEF Unread, Never, NotOlder, TypeOK, Revision
      <3> QED BY <2>0, <2>1, <2>3, <2>4, <3>1 DEF RevisionsBounded
    <2>10. RulesReadIsNewer'
      <3> SUFFICES ASSUME NEW q \in Procs, pc'[q] \in {"listDisabled", "swap"}
                   PROVE  /\ activeRev'[Home(q)].rules <= read'[q].rev.rules
                          /\ q \in Callers => wrote'[q].rules <= read'[q].rev.rules
                          /\ read'[q].rev.rules = rev'.rules => read'[q].rules = custom'
        BY DEF RulesReadIsNewer, Home
      <3>1. q # p /\ pc[q] = pc'[q] /\ read'[q] = read[q]
        BY <2>1
      <3>2. Home(q) \in Replicas /\ Home(q) # home
        BY <2>7, <3>1, HomeIsReplica DEF Rebuilding
      <3> QED BY <2>0, <2>3, <3>1, <3>2 DEF RulesReadIsNewer
    <2>11. FlagsReadIsNewer'
      <3> SUFFICES ASSUME NEW q \in Procs, pc'[q] = "swap"
                   PROVE  /\ activeRev'[Home(q)].flags <= read'[q].rev.flags
                          /\ q \in Callers => wrote'[q].flags <= read'[q].rev.flags
                          /\ read'[q].rev.flags = rev'.flags => read'[q].flags = disabled'
        BY DEF FlagsReadIsNewer, Home
      <3>1. q # p /\ pc[q] = pc'[q] /\ read'[q] = read[q]
        BY <2>1
      <3>2. Home(q) \in Replicas /\ Home(q) # home
        BY <2>7, <3>1, HomeIsReplica DEF Rebuilding
      <3> QED BY <2>0, <2>3, <3>1, <3>2 DEF FlagsReadIsNewer
    <2>12. ASSUME NEW q \in Callers, q # p, NotOlder(wrote[q], activeRev[At[q]])
           PROVE  NotOlder(wrote'[q], activeRev'[At[q]])
      <3>1. CASE At[q] = home
        <4>1. /\ wrote[q] \in Revision /\ activeRev[home] \in Revision
              /\ read[p].rev \in Revision
          BY <2>2 DEF TypeOK
        <4> QED BY <2>0, <2>3, <2>4, <2>12, <3>1, <4>1 DEF NotOlder, Revision
      <3>2. CASE At[q] # home
        BY <2>0, <2>3, <2>6, <2>12, <3>2
      <3> QED BY <3>1, <3>2
    <2>13. p \in Callers => NotOlder(wrote'[p], activeRev'[At[p]])
      BY <2>0, <2>3, <2>5, <2>6
    <2>14. AppliedAfterReload' /\ AppliedBeforeReply'
      BY <2>1, <2>6, <2>12, <2>13 DEF AppliedAfterReload, AppliedBeforeReply
    <2>15. CurrentSnapshotIsExact'
      <3> SUFFICES ASSUME NEW r \in Replicas, activeRev'[r] = rev
                   PROVE  active'[r] = Effective(custom, disabled)
        BY <2>0 DEF CurrentSnapshotIsExact
      <3>1. CASE r = home
        <4>1. read[p].rev.rules = rev.rules /\ read[p].rev.flags = rev.flags
          BY <2>3, <3>1
        <4>2. read[p].rules = custom /\ read[p].flags = disabled
          BY <2>0, <4>1 DEF RulesReadIsNewer, FlagsReadIsNewer
        <4>3. pairs = Effective(custom, disabled)
          BY <4>2, MergedIsEffective DEF TypeOK
        <4> QED BY <2>3, <3>1, <4>3
      <3>2. CASE r # home
        BY <2>3, <3>2 DEF CurrentSnapshotIsExact
      <3> QED BY <3>1, <3>2
    <2> QED BY <2>8, <2>9, <2>10, <2>11, <2>14, <2>15
  <1> QED BY <1>1, <1>2

\* A restart: the handlers of the replica are gone, its snapshot is the file
\* rules alone, and no one holds its mutex.
LEMMA CrashInv ==
    ASSUME TypeOK, TypeOK', IInv, NEW r \in Replicas, Crash(r)
    PROVE  IInv'
  <1> USE DEF IInv
  <1>0. /\ custom' = custom /\ disabled' = disabled /\ rev' = rev /\ wrote' = wrote
        /\ activeRev' = [activeRev EXCEPT ![r] = Never]
        /\ active' = [active EXCEPT ![r] = FileRules]
        /\ mutex' = [mutex EXCEPT ![r] = NoOne]
    BY DEF Crash, store
  <1>1. \A q \in Procs : Home(q) # r => pc'[q] = pc[q] /\ read'[q] = read[q]
    <2>1. Home(r) = r
      BY DEF Home
    <2> QED BY <2>1 DEF Crash
  <1>2. \A q \in Procs : Home(q) = r => pc'[q] \in {"lock", "idle"} /\ read'[q] = Unread
    BY DEF Crash
  <1>3. \A q \in Callers : /\ Home(q) = r => reply'[q] = NoReply
                           /\ Home(q) # r => reply'[q] = reply[q]
    BY DEF Crash
  <1>4. /\ activeRev'[r] = Never /\ active'[r] = FileRules /\ mutex'[r] = NoOne
        /\ \A s \in Replicas : s # r => /\ activeRev'[s] = activeRev[s]
                                        /\ active'[s] = active[s]
                                        /\ mutex'[s] = mutex[s]
    BY <1>0 DEF TypeOK
  <1>5. \A q \in Procs : Home(q) \in Replicas /\ q # NoOne
    BY HomeIsReplica, RuleAssumption DEF Procs
  <1>6. \A q \in Callers : q \in Procs /\ Home(q) = At[q]
    BY HomeIsReplica DEF Procs
  <1>7. MutexHeld'
    <2> SUFFICES ASSUME NEW q \in Procs
                 PROVE  pc'[q] \in Rebuilding <=> mutex'[Home(q)] = q
      BY DEF MutexHeld, Home
    <2> QED BY <1>1, <1>2, <1>4, <1>5 DEF MutexHeld, Rebuilding
  <1>8. RevisionsBounded'
    <2>1. rev.rules \in Nat /\ rev.flags \in Nat
      BY DEF TypeOK, Revision
    <2>2. NotOlder(Never, rev) /\ NotOlder(Unread.rev, rev)
      BY <2>1 DEF Never, Unread, NotOlder
    <2> QED BY <1>0, <1>1, <1>2, <1>4, <2>2 DEF RevisionsBounded
  <1>9. RulesReadIsNewer'
    BY <1>0, <1>1, <1>2, <1>4, <1>5 DEF RulesReadIsNewer, Home
  <1>10. FlagsReadIsNewer'
    BY <1>0, <1>1, <1>2, <1>4, <1>5 DEF FlagsReadIsNewer, Home
  <1>11. AppliedAfterReload' /\ AppliedBeforeReply'
    <2>1. NoReply.status # "ok"
      BY DEF NoReply
    <2> QED BY <1>0, <1>1, <1>2, <1>3, <1>4, <1>5, <1>6, <2>1
            DEF AppliedAfterReload, AppliedBeforeReply
  <1>12. CurrentSnapshotIsExact'
    <2>1. rev # Never
      BY DEF Never, RevisionsBounded
    <2> QED BY <1>0, <1>4, <2>1 DEF CurrentSnapshotIsExact
  <1> QED BY <1>7, <1>8, <1>9, <1>10, <1>11, <1>12

LEMMA RebuildInv ==
    ASSUME TypeOK, TypeOK', IInv, NEW p \in Procs, Rebuild(p)
    PROVE  IInv'
  BY LockInv, ListRulesInv, ListDisabledInv, BuildAndSwapInv DEF Rebuild

LEMMA InvStep == TypeOK /\ TypeOK' /\ IInv /\ [Next]_vars => IInv'
  <1> SUFFICES ASSUME TypeOK, TypeOK', IInv, [Next]_vars
               PROVE  IInv'
    OBVIOUS
  <1>1. ASSUME NEW p \in Callers, NEW o \in Commands, Start(p, o)
        PROVE  IInv'
    BY <1>1, StartOutside
  <1>2. ASSUME NEW p \in Callers, Handler(p)
        PROVE  IInv'
    BY <1>2, HandlerOutside
  <1>3. ASSUME NEW p \in Procs, Rebuild(p)
        PROVE  IInv'
    BY <1>3, RebuildInv
  <1>4. ASSUME NEW r \in Replicas, Tick(r)
        PROVE  IInv'
    BY <1>4, TickOutside
  <1>5. ASSUME NEW r \in Replicas, Crash(r)
        PROVE  IInv'
    BY <1>5, CrashInv
  <1>6. CASE UNCHANGED vars
    BY <1>6 DEF vars, store, registry, IInv, MutexHeld, RevisionsBounded, RulesReadIsNewer,
                FlagsReadIsNewer, AppliedAfterReload, AppliedBeforeReply,
                CurrentSnapshotIsExact, Home, NotOlder
  <1> QED BY <1>1, <1>2, <1>3, <1>4, <1>5, <1>6 DEF Next

\* The inductive invariant holds in every reachable state, for any number of
\* replicas and handlers and any number of calls, faults and crashes.
THEOREM InvCorrect == Spec => []IInv
  <1>1. Init => IInv
    BY InvInit
  <1>2. TypeOK /\ TypeOK' /\ IInv /\ [Next]_vars => IInv'
    BY InvStep
  <1> QED BY <1>1, <1>2, TypeCorrect, PTL DEF Spec

\* A mutation answered with success is in force on the replica that answered
\* it, for any number of handlers and replicas (create/update/delete/
\* setEnabled wait for Reload before they reply).
THEOREM AppliedBeforeReplyCorrect == Spec => []AppliedBeforeReply
  <1>1. IInv => AppliedBeforeReply
    BY DEF IInv
  <1> QED BY <1>1, InvCorrect, PTL

\* A registry built from the latest revision of both tables holds exactly the
\* effective rules of the store (the merge of Reload).
THEOREM CurrentSnapshotIsExactCorrect == Spec => []CurrentSnapshotIsExact
  <1>1. IInv => CurrentSnapshotIsExact
    BY DEF IInv
  <1> QED BY <1>1, InvCorrect, PTL

\* Only a swap and a restart replace a snapshot.
LEMMA SnapshotStep ==
    ASSUME TypeOK, IInv, Next, NEW r \in Replicas, r \in ready'
    PROVE  NotOlder(activeRev[r], activeRev'[r])
  <1>0. activeRev[r].rules \in Nat /\ activeRev[r].flags \in Nat
    BY DEF TypeOK, Revision
  <1>1. CASE activeRev' = activeRev
    BY <1>0, <1>1 DEF NotOlder
  <1>2. ASSUME NEW p \in Procs, BuildAndSwap(p), activeRev' # activeRev
        PROVE  NotOlder(activeRev[r], activeRev'[r])
    <2>1. pc[p] = "swap" /\ activeRev' = [activeRev EXCEPT ![Home(p)] = read[p].rev]
      BY <1>2 DEF BuildAndSwap, registry
    <2>2. CASE r = Home(p)
      <3>1. activeRev'[r] = read[p].rev
        BY <2>1, <2>2 DEF TypeOK
      <3> QED BY <2>1, <2>2, <3>1 DEF IInv, RulesReadIsNewer, FlagsReadIsNewer, NotOlder
    <2>3. CASE r # Home(p)
      <3>1. activeRev'[r] = activeRev[r]
        BY <2>1, <2>3 DEF TypeOK
      <3> QED BY <1>0, <3>1 DEF NotOlder
    <2> QED BY <2>2, <2>3
  <1>3. ASSUME NEW s \in Replicas, Crash(s)
        PROVE  NotOlder(activeRev[r], activeRev'[r])
    <2>1. r # s /\ activeRev' = [activeRev EXCEPT ![s] = Never]
      BY <1>3 DEF Crash
    <2>2. activeRev'[r] = activeRev[r]
      BY <2>1 DEF TypeOK
    <2> QED BY <1>0, <2>2 DEF NotOlder
  <1>4. ASSUME NEW p \in Callers, NEW o \in Commands, Start(p, o)
        PROVE  activeRev' = activeRev
    BY <1>4 DEF Start, NotReloading, registry
  <1>5. ASSUME NEW p \in Callers, Handler(p)
        PROVE  activeRev' = activeRev
    BY <1>5 DEF Handler, CountRules, CreateRule, CheckRule, SaveRule, DeleteRule, ClearFlag,
                SetFlag, Report, Reread, NotReloading, registry
  <1>6. ASSUME NEW p \in Procs, Lock(p) \/ ListRules(p) \/ ListDisabled(p)
        PROVE  activeRev' = activeRev
    BY <1>6 DEF Lock, ListRules, ListDisabled, registry
  <1>7. ASSUME NEW s \in Replicas, Tick(s)
        PROVE  activeRev' = activeRev
    BY <1>7 DEF Tick, NotReloading, registry
  <1> QED BY <1>1, <1>2, <1>3, <1>4, <1>5, <1>6, <1>7 DEF Next, Rebuild

\* While a replica runs, no Reload replaces its snapshot by one built from an
\* older read of the store, for any number of concurrent Reloads.
THEOREM SnapshotsNeverGoBackCorrect == Spec => SnapshotsNeverGoBack
  <1> DEFINE Step == \A r \in Replicas : r \in ready' => NotOlder(activeRev[r], activeRev'[r])
  <1>1. TypeOK /\ IInv /\ [Next]_vars => [Step]_vars
    BY SnapshotStep
  <1>2. SnapshotsNeverGoBack <=> [][Step]_vars
    BY DEF SnapshotsNeverGoBack
  <1> HIDE DEF Step
  <1> QED BY <1>1, <1>2, TypeCorrect, InvCorrect, PTL DEF Spec
=============================================================================
