--------------------------- MODULE RuleManagement ---------------------------
(***************************************************************************)
(* Rule management: the create / update / delete / enable use cases of the *)
(* configuration API (internal/usecases/rules), the Reloader that rebuilds *)
(* the compiled registry from the store (internal/service/rulesreload) and *)
(* the store calls they make (internal/repository).  Several replicas      *)
(* share one store; each has its own registry snapshot, its own Reloader   *)
(* mutex, a refresh ticker and any number of API handlers in flight.       *)
(*                                                                         *)
(* Every store call is one atomic step and may fail; a failing write may   *)
(* or may not have been applied (the reply was lost).  Everything between  *)
(* two store calls of a handler is local to it.                            *)
(***************************************************************************)
EXTENDS Naturals, FiniteSets

CONSTANTS
    Replicas,        \* the service instances that share the store
    Callers,         \* API handlers (goroutines) that may be in flight
    At,              \* At[p]: the replica on which handler p runs
    Builtins,        \* rule ids loaded from the YAML files
    CustomIds,       \* ids the API may create
    Versions,        \* contents of a stored rule
    Malformed,       \* contents that registry.CompileRule refuses
    FileVersion,     \* the content of every built-in rule
    NoRule,          \* "no row for this id"
    NoOne,           \* a free mutex
    MaxCustomRules,  \* GUARDRAILS limit on stored rules, 0 = unlimited
    MaxOps,          \* bound: API calls started
    MaxFaults,       \* bound: failing store calls
    MaxCrashes       \* bound: replica restarts

ASSUME RuleAssumption ==
    /\ At \in [Callers -> Replicas]
    /\ Replicas \cap Callers = {}
    /\ Builtins \cap CustomIds = {} /\ CustomIds # {}
    /\ Malformed \subseteq Versions
    /\ NoRule \notin Versions /\ NoRule # FileVersion /\ FileVersion \notin Malformed
    /\ NoOne \notin Callers \cup Replicas
    /\ MaxCustomRules \in Nat
    /\ MaxOps \in Nat /\ MaxFaults \in Nat /\ MaxCrashes \in Nat

VARIABLES
    custom,     \* store: custom[id] is the stored content or NoRule
    disabled,   \* store: the disabled set (no foreign key to custom)
    rev,        \* history: number of writes of either store structure
    active,     \* active[r]: the registry snapshot of replica r
    activeRev,  \* history: the store revisions active[r] was built from
    mutex,      \* mutex[r]: who is inside Reload on replica r
    ready,      \* replicas whose boot-time Reload has returned
    pc,         \* where each handler or refresher is
    op,         \* the command a handler executes
    read,       \* what the current Reload has read from the store
    wrote,      \* history: store revisions of the handler's own writes
    reply,      \* the last response of a handler
    ops, faults, crashes

store == <<custom, disabled, rev>>
registry == <<active, activeRev>>
budget == <<ops, faults, crashes>>
vars == <<store, registry, mutex, ready, pc, op, read, wrote, reply, budget>>

\* A replica's name is also the name of its refresh goroutine.
Procs == Callers \cup Replicas
Home(p) == IF p \in Replicas THEN p ELSE At[p]

Ids == Builtins \cup CustomIds
Revision == [rules : Nat, flags : Nat]
Never == [rules |-> 0, flags |-> 0]

Kinds == {"create", "update", "delete", "setEnabled"}
Ops == [kind : Kinds, id : Ids, ver : Versions \cup {NoRule}, on : BOOLEAN]
\* The commands clients send: "ver" belongs to create and update only.
Commands ==
    {o \in Ops : /\ o.ver # NoRule <=> o.kind \in {"create", "update"}
                 /\ o.on \/ o.kind = "setEnabled"}
Reply == [status : {"none", "ok", "error"}, enabled : BOOLEAN]
NoReply == [status |-> "none", enabled |-> FALSE]
\* The local variables of a Reload before its first store call.
Unread == [rules |-> [i \in Ids |-> NoRule], flags |-> {}, rev |-> Never]
Steps == {"idle", "count", "create", "check", "save", "remove", "flag", "clear",
          "lock", "listRules", "listDisabled", "swap", "report", "reread"}

-----------------------------------------------------------------------------
(* Three merges a careless change of Reload could leave behind: one that    *)
(* forgets that a row may be gone, one that applies the disabled set to     *)
(* built-ins only, one that lets a stored rule shadow a built-in.           *)
MergedWithGoneRows(rules, flags) ==
    {<<b, FileVersion>> : b \in Builtins \ flags}
        \cup {<<c, rules[c]>> : c \in (Ids \ Builtins) \ flags}

MergedIgnoringCustomFlags(rules, flags) ==
    {<<b, FileVersion>> : b \in Builtins \ flags}
        \cup {<<c, rules[c]>> : c \in {i \in Ids \ Builtins : rules[i] # NoRule}}

MergedWithShadowing(rules, flags) ==
    {<<b, FileVersion>> : b \in Builtins \ flags}
        \cup {<<c, rules[c]>> : c \in {i \in Ids \ flags : rules[i] # NoRule}}

(* The merge of Reload: built-ins that are not disabled, and stored rules   *)
(* that neither shadow a built-in nor are disabled.                         *)
Merged(rules, flags) ==
    {<<b, FileVersion>> : b \in Builtins \ flags}
        \cup {<<c, rules[c]>> : c \in {i \in (Ids \ Builtins) \ flags : rules[i] # NoRule}}

\* registry.Build: duplicate ids and rules that do not compile are errors.
Buildable(pairs) ==
    /\ \A x \in pairs : x[2] \notin Malformed
    /\ \A x, y \in pairs : x[1] = y[1] => x = y

FileRules == {<<b, FileVersion>> : b \in Builtins}

Stored == {i \in Ids : custom[i] # NoRule}

-----------------------------------------------------------------------------
Goto(p, s) == pc' = [pc EXCEPT ![p] = s]

Fault == faults < MaxFaults /\ faults' = faults + 1 /\ UNCHANGED <<ops, crashes>>

\* The handler returns to its client.
Respond(p, status, on) ==
    /\ Goto(p, "idle")
    /\ reply' = [reply EXCEPT ![p] = [status |-> status, enabled |-> on]]

Fail(p) == Respond(p, "error", FALSE)

\* One row of the rule table is written by handler p.
PutRule(p, id, content) ==
    /\ custom' = [custom EXCEPT ![id] = content]
    /\ rev' = [rev EXCEPT !.rules = @ + 1]
    /\ wrote' = [wrote EXCEPT ![p].rules = rev.rules + 1]
    /\ UNCHANGED disabled

\* SetRuleDisabled by handler p.
PutFlag(p, id, off) ==
    /\ disabled' = IF off THEN disabled \cup {id} ELSE disabled \ {id}
    /\ rev' = [rev EXCEPT !.flags = @ + 1]
    /\ wrote' = [wrote EXCEPT ![p].flags = rev.flags + 1]
    /\ UNCHANGED custom

NoWrite == UNCHANGED <<store, wrote>>
NotReloading == UNCHANGED <<registry, mutex, ready, read>>

-----------------------------------------------------------------------------
(* A client calls the API.  Validation, and the refusal to touch a built-in *)
(* rule, happen before any store call.  BulkSetRulesEnabled is a handler    *)
(* that executes several setEnabled commands in turn.                       *)
Start(p, o) ==
    /\ pc[p] = "idle"
    /\ At[p] \in ready
    /\ ops < MaxOps /\ ops' = ops + 1 /\ UNCHANGED <<faults, crashes>>
    /\ op' = [op EXCEPT ![p] = o]
    /\ wrote' = [wrote EXCEPT ![p] = Never]
    /\ LET refused == \/ o.kind \in {"create", "update"} /\ o.ver \in Malformed
                      \/ o.kind # "setEnabled" /\ o.id \in Builtins
           first == CASE o.kind = "create" -> IF MaxCustomRules > 0 THEN "count" ELSE "create"
                      [] o.kind = "update" -> "check"
                      [] o.kind = "delete" -> "remove"
                      [] o.kind = "setEnabled" -> IF o.id \in Builtins THEN "flag" ELSE "check"
       IN  IF refused
           THEN Fail(p)
           ELSE Goto(p, first) /\ reply' = [reply EXCEPT ![p] = NoReply]
    /\ UNCHANGED store /\ NotReloading

\* create: the best-effort limit on the number of stored rules.
CountRules(p) ==
    /\ pc[p] = "count"
    /\ \/ /\ IF Cardinality(Stored) >= MaxCustomRules
             THEN Fail(p)
             ELSE Goto(p, "create") /\ UNCHANGED reply
          /\ UNCHANGED budget
       \/ Fault /\ Fail(p)
    /\ NoWrite /\ NotReloading /\ UNCHANGED op

\* create: store.CreateRule, atomic create-if-absent.
CreateRule(p) ==
    /\ pc[p] = "create"
    /\ LET o == op[p]
           absent == custom[o.id] = NoRule
       IN  \/ /\ absent /\ PutRule(p, o.id, o.ver)
              /\ Goto(p, "clear") /\ UNCHANGED <<reply, budget>>
           \/ ~absent /\ Fail(p) /\ NoWrite /\ UNCHANGED budget
           \/ /\ Fault /\ Fail(p)
              /\ NoWrite \/ (absent /\ PutRule(p, o.id, o.ver))
    /\ NotReloading /\ UNCHANGED op

\* update and setEnabled: store.GetRule must find the rule.
CheckRule(p) ==
    /\ pc[p] = "check"
    /\ \/ /\ IF custom[op[p].id] = NoRule
             THEN Fail(p)
             ELSE /\ Goto(p, IF op[p].kind = "update" THEN "save" ELSE "flag")
                  /\ UNCHANGED reply
          /\ UNCHANGED budget
       \/ Fault /\ Fail(p)
    /\ NoWrite /\ NotReloading /\ UNCHANGED op

\* update: store.SaveRule, an upsert.
SaveRule(p) ==
    /\ pc[p] = "save"
    /\ \/ /\ PutRule(p, op[p].id, op[p].ver)
          /\ Goto(p, "lock") /\ UNCHANGED <<reply, budget>>
       \/ /\ Fault /\ Fail(p)
          /\ NoWrite \/ PutRule(p, op[p].id, op[p].ver)
    /\ NotReloading /\ UNCHANGED op

\* delete: store.DeleteRule.
DeleteRule(p) ==
    /\ pc[p] = "remove"
    /\ LET present == custom[op[p].id] # NoRule
       IN  \/ /\ present /\ PutRule(p, op[p].id, NoRule)
              /\ Goto(p, "clear") /\ UNCHANGED <<reply, budget>>
           \/ ~present /\ Fail(p) /\ NoWrite /\ UNCHANGED budget
           \/ /\ Fault /\ Fail(p)
              /\ NoWrite \/ (present /\ PutRule(p, op[p].id, NoRule))
    /\ NotReloading /\ UNCHANGED op

\* create and delete: clear a lingering disabled flag; a failure is only logged.
ClearFlag(p) ==
    /\ pc[p] = "clear"
    /\ \/ PutFlag(p, op[p].id, FALSE) /\ UNCHANGED budget
       \/ Fault /\ (NoWrite \/ PutFlag(p, op[p].id, FALSE))
    /\ Goto(p, "lock")
    /\ NotReloading /\ UNCHANGED <<op, reply>>

\* setEnabled: store.SetRuleDisabled; a failure is returned.
SetFlag(p) ==
    /\ pc[p] = "flag"
    /\ LET o == op[p]
       IN  \/ /\ PutFlag(p, o.id, ~o.on)
              /\ Goto(p, "lock") /\ UNCHANGED <<reply, budget>>
           \/ /\ Fault /\ Fail(p)
              /\ NoWrite \/ PutFlag(p, o.id, ~o.on)
    /\ NotReloading /\ UNCHANGED op

-----------------------------------------------------------------------------
(* Reload, run by a handler after its write and by the refresh ticker.      *)

\* The ticker of RunRefresh fires.
Tick(r) ==
    /\ r \in Replicas /\ pc[r] = "idle"
    /\ Goto(r, "lock")
    /\ NoWrite /\ NotReloading /\ UNCHANGED <<op, reply, budget>>

\* A Reload that does not wait for the one in progress.
LockWithoutWaiting(p) ==
    /\ pc[p] = "lock"
    /\ mutex' = [mutex EXCEPT ![Home(p)] = p]
    /\ Goto(p, "listRules")
    /\ NoWrite /\ UNCHANGED <<registry, ready, read, op, reply, budget>>

Lock(p) ==
    /\ pc[p] = "lock" /\ mutex[Home(p)] = NoOne
    /\ mutex' = [mutex EXCEPT ![Home(p)] = p]
    /\ Goto(p, "listRules")
    /\ NoWrite /\ UNCHANGED <<registry, ready, read, op, reply, budget>>

\* A handler that only logs the failure of its Reload.
ReloadReturnsUnchecked(p, ok) ==
    /\ mutex' = [mutex EXCEPT ![Home(p)] = NoOne]
    /\ read' = [read EXCEPT ![p] = Unread]
    /\ IF p \in Replicas
       THEN ready' = ready \cup {p} /\ Goto(p, "idle") /\ UNCHANGED reply
       ELSE UNCHANGED ready /\ Respond(p, "ok", op[p].on)

\* Reload returns: the deferred unlock, then what the caller does next.  A
\* handler reports the failure of its Reload; the ticker only logs it.
ReloadReturns(p, ok) ==
    /\ mutex' = [mutex EXCEPT ![Home(p)] = NoOne]
    /\ read' = [read EXCEPT ![p] = Unread]
    /\ IF p \in Replicas
       THEN /\ ready' = ready \cup {p}
            /\ Goto(p, "idle") /\ UNCHANGED reply
       ELSE /\ UNCHANGED ready
            /\ CASE ~ok -> Fail(p)
                 [] ok /\ op[p].kind \in {"create", "update"} ->
                        Goto(p, "report") /\ UNCHANGED reply
                 [] ok /\ op[p].kind = "setEnabled" /\ op[p].id \notin Builtins ->
                        Goto(p, "reread") /\ UNCHANGED reply
                 [] OTHER -> Respond(p, "ok", op[p].on)

ListRules(p) ==
    /\ pc[p] = "listRules"
    /\ \/ /\ read' = [read EXCEPT ![p] =
                       [rules |-> custom, flags |-> {},
                        rev |-> [rules |-> rev.rules, flags |-> 0]]]
          /\ Goto(p, "listDisabled")
          /\ UNCHANGED <<mutex, ready, reply, budget>>
       \/ Fault /\ ReloadReturns(p, FALSE)
    /\ NoWrite /\ UNCHANGED <<registry, op>>

ListDisabled(p) ==
    /\ pc[p] = "listDisabled"
    /\ \/ /\ read' = [read EXCEPT ![p] =
                       [rules |-> read[p].rules, flags |-> disabled,
                        rev |-> [rules |-> read[p].rev.rules, flags |-> rev.flags]]]
          /\ Goto(p, "swap")
          /\ UNCHANGED <<mutex, ready, reply, budget>>
       \/ Fault /\ ReloadReturns(p, FALSE)
    /\ NoWrite /\ UNCHANGED <<registry, op>>

\* Build the merged set and swap the snapshot; a build error keeps the old one.
BuildAndSwap(p) ==
    /\ pc[p] = "swap"
    /\ LET next == Merged(read[p].rules, read[p].flags)
       IN  \/ /\ Buildable(next)
              /\ active' = [active EXCEPT ![Home(p)] = next]
              /\ activeRev' = [activeRev EXCEPT ![Home(p)] = read[p].rev]
              /\ ReloadReturns(p, TRUE)
           \/ /\ ~Buildable(next)
              /\ UNCHANGED registry
              /\ ReloadReturns(p, FALSE)
    /\ NoWrite /\ UNCHANGED <<op, budget>>

\* create and update: decorate the response with the disabled state; when the
\* store fails the handler assumes "enabled".
Report(p) ==
    /\ pc[p] = "report"
    /\ \/ Respond(p, "ok", op[p].id \notin disabled) /\ UNCHANGED budget
       \/ Fault /\ Respond(p, "ok", TRUE)
    /\ NoWrite /\ NotReloading /\ UNCHANGED op

\* setEnabled: re-read the custom rule for the response.
Reread(p) ==
    /\ pc[p] = "reread"
    /\ \/ /\ IF custom[op[p].id] = NoRule THEN Fail(p) ELSE Respond(p, "ok", op[p].on)
          /\ UNCHANGED budget
       \/ Fault /\ Fail(p)
    /\ NoWrite /\ NotReloading /\ UNCHANGED op

-----------------------------------------------------------------------------
(* A replica dies and is started again: its handlers vanish between two     *)
(* steps, its registry is rebuilt from the files alone, and the boot-time   *)
(* Reload runs (without the API) before it serves.                          *)
Crash(r) ==
    /\ crashes < MaxCrashes /\ crashes' = crashes + 1 /\ UNCHANGED <<ops, faults>>
    /\ active' = [active EXCEPT ![r] = FileRules]
    /\ activeRev' = [activeRev EXCEPT ![r] = Never]
    /\ mutex' = [mutex EXCEPT ![r] = NoOne]
    /\ ready' = ready \ {r}
    /\ pc' = [p \in Procs |-> IF p = r THEN "lock"
                              ELSE IF Home(p) = r THEN "idle" ELSE pc[p]]
    /\ reply' = [p \in Callers |-> IF Home(p) = r THEN NoReply ELSE reply[p]]
    /\ read' = [p \in Procs |-> IF Home(p) = r THEN Unread ELSE read[p]]
    /\ UNCHANGED <<store, op, wrote>>

Init ==
    /\ custom \in [Ids -> Versions \cup {NoRule}]
    /\ disabled \in SUBSET Ids
    /\ rev = [rules |-> 1, flags |-> 1]
    /\ active = [r \in Replicas |-> FileRules]
    /\ activeRev = [r \in Replicas |-> Never]
    /\ mutex = [r \in Replicas |-> NoOne]
    /\ ready = {}
    /\ pc = [p \in Procs |-> IF p \in Replicas THEN "lock" ELSE "idle"]
    /\ op = [p \in Callers |-> CHOOSE o \in Commands : o.kind = "delete"]
    /\ read = [p \in Procs |-> Unread]
    /\ wrote = [p \in Callers |-> Never]
    /\ reply = [p \in Callers |-> NoReply]
    /\ ops = 0 /\ faults = 0 /\ crashes = 0

\* The steps of one goroutine; a client's decision to call is not one of them.
Handler(p) ==
    \/ CountRules(p) \/ CreateRule(p) \/ CheckRule(p) \/ SaveRule(p)
    \/ DeleteRule(p) \/ ClearFlag(p) \/ SetFlag(p)
    \/ Report(p) \/ Reread(p)

Rebuild(p) == Lock(p) \/ ListRules(p) \/ ListDisabled(p) \/ BuildAndSwap(p)

Next ==
    \/ \E p \in Callers : \E o \in Commands : Start(p, o)
    \/ \E p \in Callers : Handler(p)
    \/ \E p \in Procs : Rebuild(p)
    \/ \E r \in Replicas : Tick(r)
    \/ \E r \in Replicas : Crash(r)

Spec == Init /\ [][Next]_vars

\* Goroutines are scheduled and the ticker keeps firing (interval > 0).
Fairness ==
    /\ \A p \in Callers : WF_vars(Handler(p))
    /\ \A p \in Procs : WF_vars(Rebuild(p))
    /\ \A r \in Replicas : WF_vars(Tick(r))

FairSpec == Spec /\ Fairness

-----------------------------------------------------------------------------
(* Properties.                                                              *)

\* Every variable has its type.
TypeOK ==
    /\ custom \in [Ids -> Versions \cup {NoRule}]
    /\ disabled \in SUBSET Ids
    /\ rev \in Revision
    /\ active \in [Replicas -> SUBSET (Ids \X (Versions \cup {FileVersion}))]
    /\ activeRev \in [Replicas -> Revision]
    /\ mutex \in [Replicas -> Procs \cup {NoOne}]
    /\ ready \in SUBSET Replicas
    /\ pc \in [Procs -> Steps]
    /\ op \in [Callers -> Ops]
    /\ read \in [Procs -> [rules : [Ids -> Versions \cup {NoRule}],
                            flags : SUBSET Ids, rev : Revision]]
    /\ wrote \in [Callers -> Revision]
    /\ reply \in [Callers -> Reply]
    /\ ops \in Nat /\ faults \in Nat /\ crashes \in Nat

NotOlder(a, b) == a.rules <= b.rules /\ a.flags <= b.flags

\* A mutation that was answered with success is in force on the replica that
\* answered: its registry was built from store contents that include the
\* handler's own writes, and stays so whatever other Reloads finish later.
AppliedBeforeReply ==
    \A p \in Callers :
        (pc[p] = "idle" /\ reply[p].status = "ok") => NotOlder(wrote[p], activeRev[At[p]])

\* What a registry built from these tables must contain, id by id: a rule is
\* active exactly when it is not disabled and is a built-in or a stored rule
\* that does not shadow one.
Effective(rules, flags) ==
    {e \in Ids \X (Versions \cup {FileVersion}) :
        /\ e[1] \notin flags
        /\ e[2] = IF e[1] \in Builtins THEN FileVersion ELSE rules[e[1]]}

\* A registry built from the latest revision of both tables is exactly the
\* effective rule set of the store: nothing is missing from it, nothing
\* disabled or deleted is left in it.
CurrentSnapshotIsExact ==
    \A r \in Replicas : activeRev[r] = rev => active[r] = Effective(custom, disabled)

\* While a replica runs, a snapshot is never replaced by one built from an
\* older read of either table (the reason Reload holds its mutex across the
\* reads and the swap).
SnapshotsNeverGoBack ==
    [][\A r \in Replicas : r \in ready' => NotOlder(activeRev[r], activeRev'[r])]_vars

\* The inductive invariant behind the three properties above.  A Reload owns
\* its mutex from its first read to its swap; no revision is ahead of the
\* store's; what a Reload has read is at least as new as the snapshot it will
\* replace and as its handler's own writes; and a handler that is past its
\* Reload has been applied.
Rebuilding == {"listRules", "listDisabled", "swap"}

MutexHeld == \A p \in Procs : pc[p] \in Rebuilding <=> mutex[Home(p)] = p

RevisionsBounded ==
    /\ rev.rules >= 1
    /\ \A r \in Replicas : NotOlder(activeRev[r], rev)
    /\ \A p \in Procs : NotOlder(read[p].rev, rev)
    /\ \A p \in Callers : NotOlder(wrote[p], rev)

RulesReadIsNewer ==
    \A p \in Procs : pc[p] \in {"listDisabled", "swap"} =>
        /\ activeRev[Home(p)].rules <= read[p].rev.rules
        /\ p \in Callers => wrote[p].rules <= read[p].rev.rules
        /\ read[p].rev.rules = rev.rules => read[p].rules = custom

FlagsReadIsNewer ==
    \A p \in Procs : pc[p] = "swap" =>
        /\ activeRev[Home(p)].flags <= read[p].rev.flags
        /\ p \in Callers => wrote[p].flags <= read[p].rev.flags
        /\ read[p].rev.flags = rev.flags => read[p].flags = disabled

AppliedAfterReload ==
    \A p \in Callers : pc[p] \in {"report", "reread"} => NotOlder(wrote[p], activeRev[At[p]])

IInv ==
    /\ MutexHeld
    /\ RevisionsBounded
    /\ RulesReadIsNewer
    /\ FlagsReadIsNewer
    /\ AppliedAfterReload
    /\ AppliedBeforeReply
    /\ CurrentSnapshotIsExact

Compiles(pairs) == \A e \in pairs : e[2] \notin Malformed

\* Once the API is quiet and the store answers, the refresh brings every
\* replica to the store's effective rule set and it stays there, unless a
\* stored rule that does not compile blocks every rebuild.
Converges ==
    <>[](Compiles(Effective(custom, disabled)) =>
            \A r \in Replicas : active[r] = Effective(custom, disabled))
=============================================================================
