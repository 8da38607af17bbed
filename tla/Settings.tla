------------------------------ MODULE Settings ------------------------------
(***************************************************************************)
(* The global guardrails settings: a value in the shared store, a cached   *)
(* copy in every replica (internal/service/settings/service.go), the       *)
(* configuration API that replaces it, the refresh ticker, and the         *)
(* narrow-only header override of a request (override.go).                 *)
(*                                                                         *)
(* Update, Load and Refresh take no lock: each store call and each swap of *)
(* the cached pointer is a step of its own.  A store call may fail, and a  *)
(* failing write may have been applied.                                    *)
(***************************************************************************)
EXTENDS Naturals

CONSTANTS
    Replicas,      \* the service instances that share the store
    Callers,       \* API handlers that may be in flight
    At,            \* At[p]: the replica on which handler p runs
    DataTypes,     \* the data types a rule may belong to
    Defaults,      \* Defaults[r]: the settings replica r takes from its environment
    Preexisting,   \* settings a store may already hold at the first boot
    Commands,      \* the settings clients send
    None,          \* the store holds no settings
    MaxUpdates, MaxFaults, MaxCrashes, MaxLosses   \* bounds

ValidModes == {"enforce", "detect"}
\* A mode of "legacy" stands for every stored mode that IsValid refuses.
Values == [enabled : BOOLEAN, types : SUBSET DataTypes, mode : ValidModes \cup {"legacy"}]

ASSUME SettingsAssumption ==
    /\ At \in [Callers -> Replicas]
    /\ Replicas \cap Callers = {}
    /\ Defaults \in [Replicas -> Values]
    /\ Preexisting \subseteq Values /\ Commands \subseteq Values
    /\ None \notin Values
    /\ DataTypes \cap {"unknown", "none"} = {}
    /\ {MaxUpdates, MaxFaults, MaxCrashes, MaxLosses} \subseteq Nat

VARIABLES
    stored,    \* the settings row, or None
    cached,    \* cached[r]: what cur of replica r points to
    ready,     \* replicas whose Load has returned
    pc,        \* where each handler, or each replica's Load or refresher, is
    held,      \* the settings a goroutine holds between a store call and the swap
    everStored,   \* history: every value the row ever held
    apiStored,    \* history: the values written by API updates
    seeds,        \* history: how often defaults were written
    updates, faults, crashes, losses

budget == <<updates, faults, crashes, losses>>
history == <<everStored, apiStored, seeds>>
vars == <<stored, cached, ready, pc, held, history, budget>>

Procs == Callers \cup Replicas

-----------------------------------------------------------------------------
\* cloneSettings: an invalid mode becomes enforce.
Clone(gs) == IF gs.mode \in ValidModes THEN gs ELSE [gs EXCEPT !.mode = "enforce"]

(* A header is the set of its comma-separated tokens, each a data type,     *)
(* "none", or "unknown".                                                    *)
Headers == SUBSET (DataTypes \cup {"unknown", "none"})

Skipped(gs) == [enabled |-> FALSE, types |-> {}, mode |-> gs.mode]

\* An override that replaces the global data types.
EffectiveReplacing(gs, header) ==
    IF ~gs.enabled \/ header = {"none"} THEN Skipped(gs)
    ELSE IF header = {} \/ ~(header \subseteq DataTypes) THEN gs
    ELSE [gs EXCEPT !.types = header]

\* settings.Effective and ParseDataTypes.
Effective(gs, header) ==
    IF ~gs.enabled \/ header = {"none"} THEN Skipped(gs)
    ELSE IF header = {} \/ ~(header \subseteq DataTypes) THEN gs
    ELSE IF header \cap gs.types = {} THEN Skipped(gs)
    ELSE [gs EXCEPT !.types = header \cap gs.types]

-----------------------------------------------------------------------------
Goto(p, s) == pc' = [pc EXCEPT ![p] = s]

Fault == faults < MaxFaults /\ faults' = faults + 1 /\ UNCHANGED <<updates, crashes, losses>>

Put(gs) == stored' = gs /\ everStored' = everStored \cup {gs}

NoWrite == UNCHANGED <<stored, history>>

\* Load or Refresh of replica r returns.
Return(r) == Goto(r, "idle") /\ ready' = ready \cup {r}

\* GetSettings found a value: it is cloned and swapped in by the next step.
Hold(r) == Goto(r, "adopt") /\ held' = [held EXCEPT ![r] = Clone(stored)] /\ UNCHANGED ready

\* Load's first GetSettings.
Get(r) ==
    /\ pc[r] = "get"
    /\ \/ /\ IF stored = None
             THEN Goto(r, "seed") /\ UNCHANGED <<held, ready>>
             ELSE Hold(r)
          /\ UNCHANGED budget
       \/ Fault /\ Return(r) /\ UNCHANGED held
    /\ NoWrite /\ UNCHANGED cached

\* SaveSettings where SaveSettingsIfAbsent is needed.
SeedAlways(r) ==
    /\ pc[r] = "seed"
    /\ Put(Clone(Defaults[r])) /\ seeds' = seeds + 1
    /\ Return(r)
    /\ UNCHANGED <<apiStored, cached, held, budget>>

\* A lost race that is mistaken for a won one.
SeedWithoutReread(r) ==
    /\ pc[r] = "seed"
    /\ IF stored = None
       THEN Put(Clone(Defaults[r])) /\ seeds' = seeds + 1 /\ UNCHANGED apiStored
       ELSE NoWrite
    /\ Return(r)
    /\ UNCHANGED <<cached, held, budget>>

\* Load's SaveSettingsIfAbsent: the winner keeps the defaults it already caches.
Seed(r) ==
    /\ pc[r] = "seed"
    /\ LET write == Put(Clone(Defaults[r])) /\ seeds' = seeds + 1 /\ UNCHANGED apiStored
       IN  \/ stored = None /\ write /\ Return(r) /\ UNCHANGED budget
           \/ stored # None /\ NoWrite /\ Goto(r, "reread") /\ UNCHANGED <<ready, budget>>
           \/ Fault /\ Return(r) /\ (NoWrite \/ (stored = None /\ write))
    /\ UNCHANGED <<cached, held>>

\* Load's second GetSettings, after a lost race.
Reread(r) ==
    /\ pc[r] = "reread"
    /\ \/ /\ IF stored = None THEN Return(r) /\ UNCHANGED held ELSE Hold(r)
          /\ UNCHANGED budget
       \/ Fault /\ Return(r) /\ UNCHANGED held
    /\ NoWrite /\ UNCHANGED cached

\* The swap at the end of Load and of Refresh.
Adopt(r) ==
    /\ pc[r] = "adopt"
    /\ cached' = [cached EXCEPT ![r] = held[r]]
    /\ held' = [held EXCEPT ![r] = None]
    /\ Return(r)
    /\ NoWrite /\ UNCHANGED budget

\* A refresh loop that ends at its first error.
RefreshUntilError(r) ==
    /\ pc[r] = "idle" /\ r \in ready
    /\ \/ stored # None /\ Hold(r) /\ UNCHANGED budget
       \/ stored = None /\ UNCHANGED <<pc, held, ready, budget>>
       \/ Fault /\ ready' = ready \ {r} /\ UNCHANGED <<pc, held>>
    /\ NoWrite /\ UNCHANGED cached

\* The ticker fires and Refresh calls GetSettings; with no row, or after a
\* failure, the cache stays.
Refresh(r) ==
    /\ pc[r] = "idle" /\ r \in ready
    /\ \/ stored # None /\ Hold(r) /\ UNCHANGED budget
       \/ stored = None /\ UNCHANGED <<pc, held, ready, budget>>
       \/ Fault /\ UNCHANGED <<pc, held, ready>>
    /\ NoWrite /\ UNCHANGED cached

\* UpdateSettings: the request is valid, so Update is called with it.
Update(p, gs) ==
    /\ pc[p] = "idle" /\ At[p] \in ready
    /\ updates < MaxUpdates /\ updates' = updates + 1
    /\ held' = [held EXCEPT ![p] = Clone(gs)]
    /\ Goto(p, "save")
    /\ NoWrite /\ UNCHANGED <<cached, ready, faults, crashes, losses>>

Save(p) ==
    /\ pc[p] = "save"
    /\ LET write == Put(held[p]) /\ apiStored' = apiStored \cup {held[p]} /\ UNCHANGED seeds
       IN  \/ write /\ Goto(p, "swap") /\ UNCHANGED <<held, budget>>
           \/ /\ Fault /\ (NoWrite \/ write)
              /\ Goto(p, "idle") /\ held' = [held EXCEPT ![p] = None]
    /\ UNCHANGED <<cached, ready>>

Swap(p) ==
    /\ pc[p] = "swap"
    /\ cached' = [cached EXCEPT ![At[p]] = held[p]]
    /\ held' = [held EXCEPT ![p] = None]
    /\ Goto(p, "idle")
    /\ NoWrite /\ UNCHANGED <<ready, budget>>

\* The row is deleted behind the service's back (the case Load calls vanished).
Lose ==
    /\ stored # None
    /\ losses < MaxLosses /\ losses' = losses + 1
    /\ stored' = None
    /\ UNCHANGED <<cached, ready, pc, held, history, updates, faults, crashes>>

\* A replica dies with its handlers and boots again from its environment.
Crash(r) ==
    /\ crashes < MaxCrashes /\ crashes' = crashes + 1
    /\ cached' = [cached EXCEPT ![r] = Clone(Defaults[r])]
    /\ ready' = ready \ {r}
    /\ pc' = [p \in Procs |-> IF p = r THEN "get"
                              ELSE IF p \in Callers /\ At[p] = r THEN "idle" ELSE pc[p]]
    /\ held' = [p \in Procs |-> IF p = r \/ (p \in Callers /\ At[p] = r) THEN None ELSE held[p]]
    /\ NoWrite /\ UNCHANGED <<updates, faults, losses>>

Init ==
    /\ stored \in Preexisting \cup {None}
    /\ cached = [r \in Replicas |-> Clone(Defaults[r])]
    /\ ready = {}
    /\ pc = [p \in Procs |-> IF p \in Replicas THEN "get" ELSE "idle"]
    /\ held = [p \in Procs |-> None]
    /\ everStored = {stored} \ {None}
    /\ apiStored = {} /\ seeds = 0
    /\ updates = 0 /\ faults = 0 /\ crashes = 0 /\ losses = 0

Boot(r) == Get(r) \/ Seed(r) \/ Reread(r) \/ Adopt(r)

Next ==
    \/ \E r \in Replicas : Boot(r) \/ Refresh(r) \/ Crash(r)
    \/ \E p \in Callers : Save(p) \/ Swap(p) \/ \E gs \in Commands : Update(p, gs)
    \/ Lose

Spec == Init /\ [][Next]_vars

\* Goroutines are scheduled and the ticker keeps firing (interval > 0).
Fairness ==
    /\ \A r \in Replicas : WF_vars(Boot(r)) /\ WF_vars(Refresh(r))
    /\ \A p \in Callers : WF_vars(Save(p) \/ Swap(p))

FairSpec == Spec /\ Fairness

-----------------------------------------------------------------------------
(* Properties.                                                              *)

\* However boots and API updates interleave, defaults are written at most once
\* per absence of the row, and after an API update the row never goes back to
\* a replica's environment (unless somebody deleted it).
EnvironmentNeverOverridesApi ==
    /\ seeds <= 1 + losses
    /\ (apiStored # {} /\ losses = 0) => stored \in apiStored

\* A replica that has booted on a healthy store serves what the store held at
\* some time, never defaults that lost the race to seed it.
BootAgreement ==
    (faults = 0 /\ losses = 0) =>
        \A r \in ready : \E gs \in everStored : cached[r] = Clone(gs)

Scanned(gs) == IF gs.enabled THEN gs.types ELSE {}

\* Whatever a replica has cached and whatever header a request carries, the
\* request is scanned for no type the operator has switched off, an override
\* with an unknown token narrows nothing, and the mode stays the operator's.
NarrowOnly ==
    \A r \in Replicas : \A header \in Headers :
        LET eff == Effective(cached[r], header)
        IN  /\ Scanned(eff) \subseteq Scanned(cached[r])
            /\ "unknown" \in header => Scanned(eff) = Scanned(cached[r])
            /\ eff.mode = cached[r].mode

\* Once updates, failures and restarts cease, the refresh brings every replica
\* to the stored settings, also when an Update and a Refresh swapped the cache
\* in the wrong order.
Converges ==
    <>[](stored # None => \A r \in Replicas : cached[r] = Clone(stored))
=============================================================================
