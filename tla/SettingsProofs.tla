--------------------------- MODULE SettingsProofs ---------------------------
(***************************************************************************)
(* For any replicas, handlers and data types: the environment never        *)
(* overrides the API, a replica that booted on a healthy store serves what *)
(* the store held, and a header only narrows.                              *)
(***************************************************************************)
EXTENDS Settings, TLAPS

BootSteps == {"get", "seed", "reread"}
Steps == BootSteps \cup {"idle", "adopt", "save", "swap"}

TypeOK ==
    /\ stored \in Values \cup {None}
    /\ cached \in [Replicas -> Values]
    /\ ready \subseteq Replicas
    /\ pc \in [Procs -> Steps]
    /\ held \in [Procs -> Values \cup {None}]
    /\ everStored \subseteq Values /\ apiStored \subseteq Values
    /\ {seeds, updates, faults, crashes, losses} \subseteq Nat

\* A row that was seeded is there until somebody deletes it.
SeedsCounted == seeds <= losses + (IF stored = None THEN 0 ELSE 1)

\* The row goes back to an environment only after a loss.
ApiWins == (apiStored # {} /\ losses = 0) => stored \in apiStored

\* A replica boots before it serves, with its environment in the cache.
BootFirst ==
    /\ \A r \in Replicas :
          /\ pc[r] \in BootSteps \cup {"idle", "adopt"}
          /\ r \in ready => pc[r] \notin BootSteps
          /\ r \notin ready => pc[r] # "idle" /\ cached[r] = Clone(Defaults[r])
    /\ \A p \in Callers : pc[p] # "idle" => At[p] \in ready

Known(gs) == \E old \in everStored : gs = Clone(old)

\* What a goroutine is about to swap in was in the store.
HeldKnown ==
    /\ stored # None => stored \in everStored
    /\ \A r \in Replicas : pc[r] = "adopt" => Known(held[r])
    /\ \A p \in Callers :
          /\ pc[p] \in {"save", "swap"} => held[p] \in Values /\ held[p].mode \in ValidModes
          /\ pc[p] = "swap" => held[p] \in everStored

\* A row that was there when a seed came too late is still there.
RowStays == losses = 0 => \A r \in Replicas : pc[r] = "reread" => stored # None

IInv ==
    /\ TypeOK /\ SeedsCounted /\ ApiWins /\ BootFirst /\ HeldKnown
    /\ RowStays /\ BootAgreement

-----------------------------------------------------------------------------
\* Clone yields settings with a valid mode, and leaves those as they are.
LEMMA CloneProperties ==
    ASSUME NEW gs \in Values
    PROVE  /\ Clone(gs) \in Values /\ Clone(gs).mode \in ValidModes
           /\ gs.mode \in ValidModes => Clone(gs) = gs
           /\ Clone(Clone(gs)) = Clone(gs)
           /\ gs # None /\ Clone(gs) # None
BY SettingsAssumption DEF Clone, Values, ValidModes

LEMMA DefaultsProperties ==
    ASSUME NEW r \in Replicas
    PROVE  /\ Defaults[r] \in Values
           /\ Clone(Defaults[r]) \in Values
           /\ Clone(Clone(Defaults[r])) = Clone(Defaults[r])
           /\ Clone(Defaults[r]) # None
<1>1. Defaults[r] \in Values BY SettingsAssumption
<1> QED BY <1>1, CloneProperties

LEMMA InitInv == Init => IInv
<1> SUFFICES ASSUME Init PROVE IInv OBVIOUS
<1>1. stored \in Values \cup {None} BY SettingsAssumption DEF Init
<1>2. TypeOK BY <1>1, DefaultsProperties DEF Init, TypeOK, Steps, BootSteps, Procs
<1>3. SeedsCounted BY DEF Init, SeedsCounted
<1>4. BootFirst BY SettingsAssumption DEF Init, BootFirst, BootSteps, Procs
<1>5. HeldKnown BY SettingsAssumption DEF Init, HeldKnown, Procs
<1>6. ApiWins /\ RowStays /\ BootAgreement BY DEF Init, ApiWins, RowStays, BootAgreement, Procs
<1> QED BY <1>2, <1>3, <1>4, <1>5, <1>6 DEF IInv

-----------------------------------------------------------------------------
(* The steps of a boot, and a refresh.                                      *)

\* A step that writes nothing keeps what is said of the row.
LEMMA NoWriteKeeps ==
    ASSUME IInv, NoWrite, UNCHANGED losses
    PROVE  (SeedsCounted /\ ApiWins)' /\ everStored' = everStored /\ stored' = stored
BY DEF IInv, SeedsCounted, ApiWins, NoWrite, history

\* Only its own process is at another step after Goto.
LEMMA GotoEffect ==
    ASSUME TypeOK, NEW p \in Procs, NEW s \in Steps, Goto(p, s)
    PROVE  /\ pc' \in [Procs -> Steps] /\ pc'[p] = s
           /\ \A q \in Procs : q # p => pc'[q] = pc[q]
BY DEF TypeOK, Goto

LEMMA ProcsDisjoint ==
    /\ \A r \in Replicas : r \in Procs /\ r \notin Callers
    /\ \A p \in Callers : p \in Procs /\ p \notin Replicas /\ At[p] \in Replicas
BY SettingsAssumption DEF Procs

LEMMA StepNames == Steps = {"get", "seed", "reread", "idle", "adopt", "save", "swap"}
BY DEF Steps, BootSteps

\* Load or Refresh that finds a row keeps it for the swap.
LEMMA HoldInv ==
    ASSUME IInv, NEW r \in Replicas, stored # None, pc[r] \in BootSteps \/ r \in ready,
           Hold(r), NoWrite, UNCHANGED <<cached, budget>>
    PROVE  IInv'
<1> USE DEF IInv, budget
<1>1. (SeedsCounted /\ ApiWins)' /\ everStored' = everStored /\ stored' = stored BY NoWriteKeeps
<1>2. pc' \in [Procs -> Steps] /\ pc'[r] = "adopt" /\ \A q \in Procs : q # r => pc'[q] = pc[q]
    BY GotoEffect, ProcsDisjoint, StepNames DEF Hold, Procs
<1>3. stored \in Values /\ Clone(stored) \in Values BY CloneProperties DEF TypeOK
<1>4. /\ held' \in [Procs -> Values \cup {None}] /\ held'[r] = Clone(stored)
      /\ \A q \in Procs : q # r => held'[q] = held[q]
    BY <1>3 DEF Hold, TypeOK, Procs
<1>5. TypeOK' BY <1>2, <1>4 DEF TypeOK, Hold, NoWrite, history
<1>6. BootFirst' BY <1>2, ProcsDisjoint DEF BootFirst, BootSteps, Hold
<1>7. HeldKnown' BY <1>1, <1>2, <1>4, ProcsDisjoint DEF HeldKnown, Known
<1>8. (RowStays /\ BootAgreement)' BY <1>1, <1>2, ProcsDisjoint DEF RowStays, BootAgreement, Hold
<1> QED BY <1>1, <1>5, <1>6, <1>7, <1>8

\* Load returns without a row of its own to adopt: after a failure, or because
\* the row it lost against has gone.
LEMMA GiveUpInv ==
    ASSUME IInv, NEW r \in Replicas, pc[r] \in BootSteps,
           Return(r), SeedsCounted', ApiWins', everStored \subseteq everStored', everStored' \subseteq Values,
           apiStored' = apiStored, seeds' \in Nat, {faults', losses'} \subseteq Nat,
           stored' \in Values \cup {None}, stored' # None => stored' \in everStored',
           stored # None => stored' = stored,
           losses' = losses, faults' = 0 => faults = 0,
           (faults' = 0 /\ losses' = 0) => Clone(Defaults[r]) \in everStored',
           UNCHANGED <<cached, held, updates, crashes>>
    PROVE  IInv'
<1> USE DEF IInv
<1>2. pc' \in [Procs -> Steps] /\ pc'[r] = "idle" /\ \A q \in Procs : q # r => pc'[q] = pc[q]
    BY GotoEffect, ProcsDisjoint, StepNames DEF Return, Procs
<1>3. r \notin ready BY DEF BootFirst
<1>4. cached[r] = Clone(Defaults[r]) BY <1>3 DEF BootFirst
<1>5. TypeOK' BY <1>2 DEF TypeOK, Return
<1>6. BootFirst' BY <1>2, ProcsDisjoint DEF BootFirst, BootSteps, Return
<1>7. HeldKnown' BY <1>2, ProcsDisjoint DEF HeldKnown, Known
<1>8. RowStays' BY <1>2, ProcsDisjoint DEF RowStays
<1>9. BootAgreement'
    BY <1>4, DefaultsProperties, ProcsDisjoint DEF BootAgreement, Return, TypeOK
<1> QED BY <1>5, <1>6, <1>7, <1>8, <1>9

LEMMA GetInv == ASSUME IInv, NEW r \in Replicas, Get(r) PROVE IInv'
<1> USE DEF IInv
<1>1. CASE stored = None /\ Goto(r, "seed") /\ UNCHANGED <<held, ready, budget, cached>> /\ NoWrite
    <2>1. (SeedsCounted /\ ApiWins)' /\ everStored' = everStored /\ stored' = stored
        BY <1>1, NoWriteKeeps DEF budget
    <2>2. pc' \in [Procs -> Steps] /\ pc'[r] = "seed" /\ \A q \in Procs : q # r => pc'[q] = pc[q]
        BY <1>1, GotoEffect, ProcsDisjoint, StepNames DEF Procs
    <2>3. TypeOK' BY <1>1, <2>2 DEF TypeOK, NoWrite, history, budget
    <2>4. BootFirst' BY <1>1, <2>2, ProcsDisjoint DEF BootFirst, BootSteps, Get
    <2>5. HeldKnown' BY <1>1, <2>1, <2>2, ProcsDisjoint DEF HeldKnown, Known
    <2>6. (RowStays /\ BootAgreement)'
        BY <1>1, <2>1, <2>2, ProcsDisjoint DEF RowStays, BootAgreement, budget
    <2> QED BY <2>1, <2>3, <2>4, <2>5, <2>6
<1>2. CASE stored # None /\ Hold(r) /\ UNCHANGED <<budget, cached>> /\ NoWrite
    BY <1>2, HoldInv DEF Get, BootSteps
<1>3. CASE Fault /\ Return(r) /\ UNCHANGED <<held, cached>> /\ NoWrite
    <2>1. (SeedsCounted /\ ApiWins)' /\ everStored' = everStored /\ stored' = stored
        BY <1>3, NoWriteKeeps DEF Fault
    <2> QED BY <1>3, <2>1, GiveUpInv DEF Get, BootSteps, Fault, NoWrite, history, TypeOK, HeldKnown
<1> QED BY <1>1, <1>2, <1>3 DEF Get

\* Load's write, for the winner of the race and for one who hears of a failure.
LEMMA SeedWriteInv ==
    ASSUME IInv, NEW r \in Replicas, pc[r] = "seed", stored = None,
           Put(Clone(Defaults[r])), seeds' = seeds + 1, Return(r),
           UNCHANGED budget \/ Fault, UNCHANGED <<apiStored, cached, held>>
    PROVE  IInv'
<1> USE DEF IInv
<1>1. stored' = Clone(Defaults[r]) /\ everStored' = everStored \cup {Clone(Defaults[r])}
    BY DEF Put
<1>2. Clone(Defaults[r]) \in Values /\ Clone(Defaults[r]) # None BY DefaultsProperties
<1>3. losses' = losses /\ updates' = updates /\ crashes' = crashes /\ faults' \in Nat /\ (faults' = 0 => faults = 0)
    BY DEF Fault, budget, TypeOK
<1>4. SeedsCounted' BY <1>1, <1>2, <1>3 DEF SeedsCounted, TypeOK
<1>5. ApiWins'
    <2>1. None \notin apiStored BY SettingsAssumption DEF TypeOK
    <2> QED BY <1>3, <2>1 DEF ApiWins
<1> QED BY <1>1, <1>2, <1>3, <1>4, <1>5, GiveUpInv DEF BootSteps, TypeOK

LEMMA SeedInv == ASSUME IInv, NEW r \in Replicas, Seed(r) PROVE IInv'
<1> USE DEF IInv
<1>1. CASE stored = None /\ Put(Clone(Defaults[r])) /\ seeds' = seeds + 1 /\ UNCHANGED apiStored
           /\ Return(r) /\ (UNCHANGED budget \/ Fault)
    BY <1>1, SeedWriteInv DEF Seed
<1>2. CASE stored # None /\ NoWrite /\ Goto(r, "reread") /\ UNCHANGED <<ready, budget>>
    <2>1. (SeedsCounted /\ ApiWins)' /\ everStored' = everStored /\ stored' = stored
        BY <1>2, NoWriteKeeps DEF budget
    <2>2. pc' \in [Procs -> Steps] /\ pc'[r] = "reread" /\ \A q \in Procs : q # r => pc'[q] = pc[q]
        BY <1>2, GotoEffect, ProcsDisjoint, StepNames DEF Procs
    <2>3. TypeOK' BY <1>2, <2>2 DEF TypeOK, NoWrite, history, budget, Seed
    <2>4. BootFirst' BY <1>2, <2>2, ProcsDisjoint DEF BootFirst, BootSteps, Seed
    <2>5. HeldKnown' BY <1>2, <2>1, <2>2, ProcsDisjoint DEF HeldKnown, Known, Seed
    <2>6. (RowStays /\ BootAgreement)'
        BY <1>2, <2>1, <2>2, ProcsDisjoint DEF RowStays, BootAgreement, budget, Seed
    <2> QED BY <2>1, <2>3, <2>4, <2>5, <2>6
<1>3. CASE Fault /\ Return(r) /\ NoWrite
    <2>1. (SeedsCounted /\ ApiWins)' /\ everStored' = everStored /\ stored' = stored
        BY <1>3, NoWriteKeeps DEF Fault
    <2> QED BY <1>3, <2>1, GiveUpInv DEF Seed, BootSteps, Fault, NoWrite, history, TypeOK, HeldKnown
<1> QED BY <1>1, <1>2, <1>3 DEF Seed

LEMMA RereadInv == ASSUME IInv, NEW r \in Replicas, Reread(r) PROVE IInv'
<1> USE DEF IInv
<1>1. CASE stored # None /\ Hold(r) /\ UNCHANGED <<budget, cached>> /\ NoWrite
    BY <1>1, HoldInv DEF Reread, BootSteps
<1>2. CASE Return(r) /\ UNCHANGED <<held, cached>> /\ NoWrite
           /\ (Fault \/ (stored = None /\ UNCHANGED budget))
    <2>1. losses' = losses BY <1>2 DEF Fault, budget
    <2>2. (SeedsCounted /\ ApiWins)' /\ everStored' = everStored /\ stored' = stored
        BY <1>2, <2>1, NoWriteKeeps
    <2>3. ~(faults' = 0 /\ losses' = 0)
        BY <1>2 DEF Fault, budget, RowStays, Reread, TypeOK
    <2>4. updates' = updates /\ crashes' = crashes /\ faults' \in Nat /\ (faults' = 0 => faults = 0)
        BY <1>2 DEF Fault, budget, TypeOK
    <2> QED BY <1>2, <2>1, <2>2, <2>3, <2>4, GiveUpInv DEF Reread, BootSteps, NoWrite, history, TypeOK, HeldKnown
<1> QED BY <1>1, <1>2 DEF Reread

LEMMA AdoptInv == ASSUME IInv, NEW r \in Replicas, Adopt(r) PROVE IInv'
<1> USE DEF IInv, Adopt
<1>1. (SeedsCounted /\ ApiWins)' /\ everStored' = everStored /\ stored' = stored
    BY NoWriteKeeps DEF budget
<1>2. pc' \in [Procs -> Steps] /\ pc'[r] = "idle" /\ \A q \in Procs : q # r => pc'[q] = pc[q]
    BY GotoEffect, ProcsDisjoint, StepNames DEF Return, Procs
<1>3. PICK old \in everStored : held[r] = Clone(old) BY DEF HeldKnown, Known
<1>4. held[r] \in Values BY <1>3, CloneProperties DEF TypeOK
<1>5. TypeOK' BY <1>2, <1>4 DEF TypeOK, NoWrite, history, budget, Return
<1>6. BootFirst' BY <1>2, ProcsDisjoint DEF BootFirst, BootSteps, Return, TypeOK
<1>7. HeldKnown' BY <1>1, <1>2, ProcsDisjoint DEF HeldKnown, Known, TypeOK
<1>8. RowStays' BY <1>1, <1>2, ProcsDisjoint DEF RowStays, budget
<1>9. BootAgreement' BY <1>1, <1>3, ProcsDisjoint DEF BootAgreement, budget, Return, TypeOK
<1> QED BY <1>1, <1>5, <1>6, <1>7, <1>8, <1>9

\* Nothing the invariant is about has changed.
LEMMA IdleInv ==
    ASSUME IInv, NoWrite, UNCHANGED <<cached, ready, pc, held, updates, crashes, losses>>,
           faults' \in Nat, faults' = 0 => faults = 0
    PROVE  IInv'
BY DEF IInv, TypeOK, SeedsCounted, ApiWins, BootFirst, HeldKnown, Known, RowStays, BootAgreement, NoWrite, history

LEMMA RefreshInv == ASSUME IInv, NEW r \in Replicas, Refresh(r) PROVE IInv'
<1>1. CASE stored # None /\ Hold(r) /\ UNCHANGED <<budget, cached>> /\ NoWrite
    BY <1>1, HoldInv DEF Refresh
<1>2. CASE UNCHANGED <<pc, held, ready, cached>> /\ NoWrite /\ (Fault \/ UNCHANGED budget)
    BY <1>2, IdleInv DEF Fault, budget, IInv, TypeOK
<1> QED BY <1>1, <1>2 DEF Refresh

-----------------------------------------------------------------------------
(* An update of the API, a loss and a crash.                                *)

LEMMA UpdateInv == ASSUME IInv, NEW p \in Callers, NEW gs \in Commands, Update(p, gs) PROVE IInv'
<1> USE DEF IInv, Update
<1>1. (SeedsCounted /\ ApiWins)' /\ everStored' = everStored /\ stored' = stored BY NoWriteKeeps
<1>2. pc' \in [Procs -> Steps] /\ pc'[p] = "save" /\ \A q \in Procs : q # p => pc'[q] = pc[q]
    BY GotoEffect, ProcsDisjoint, StepNames DEF Procs
<1>3. gs \in Values BY SettingsAssumption
<1>4. Clone(gs) \in Values /\ Clone(gs).mode \in ValidModes BY <1>3, CloneProperties
<1>5. /\ held' \in [Procs -> Values \cup {None}] /\ held'[p] = Clone(gs)
      /\ \A q \in Procs : q # p => held'[q] = held[q]
    BY <1>4 DEF TypeOK, Procs
<1>6. TypeOK' BY <1>2, <1>5 DEF TypeOK, NoWrite, history
<1>7. BootFirst' BY <1>2, ProcsDisjoint DEF BootFirst
<1>8. HeldKnown' BY <1>1, <1>2, <1>4, <1>5, ProcsDisjoint DEF HeldKnown, Known
<1>9. (RowStays /\ BootAgreement)' BY <1>1, <1>2, ProcsDisjoint DEF RowStays, BootAgreement
<1> QED BY <1>1, <1>6, <1>7, <1>8, <1>9

LEMMA SaveInv == ASSUME IInv, NEW p \in Callers, Save(p) PROVE IInv'
<1> USE DEF IInv
<1>1. p \in Procs BY ProcsDisjoint DEF Procs
<1>2. held[p] \in Values /\ held[p].mode \in ValidModes /\ held[p] # None
    BY SettingsAssumption DEF Save, HeldKnown
<1>3. /\ losses' = losses /\ updates' = updates /\ crashes' = crashes /\ faults' \in Nat /\ (faults' = 0 => faults = 0)
      /\ UNCHANGED <<cached, ready, seeds>>
    BY DEF Save, Fault, budget, TypeOK, NoWrite, history
<1>4. /\ pc' \in [Procs -> Steps] /\ \A q \in Procs : q # p => pc'[q] = pc[q]
      /\ pc'[p] \in {"swap", "idle"}
    BY <1>1, GotoEffect, StepNames DEF Save
<1>5. /\ held' \in [Procs -> Values \cup {None}] /\ \A q \in Procs : q # p => held'[q] = held[q]
      /\ pc'[p] = "swap" => held'[p] = held[p] /\ stored' = held[p]
    BY <1>1, <1>4 DEF Save, TypeOK, Goto, Put
<1>6. \/ stored' = held[p] /\ everStored' = everStored \cup {held[p]} /\ apiStored' = apiStored \cup {held[p]}
      \/ NoWrite
    BY DEF Save, Put
<1>7. (SeedsCounted /\ ApiWins)' BY <1>2, <1>3, <1>6, NoWriteKeeps DEF SeedsCounted, ApiWins, TypeOK
<1>8. TypeOK' BY <1>2, <1>3, <1>4, <1>5, <1>6 DEF TypeOK, NoWrite, history
<1>9. BootFirst' BY <1>3, <1>4, ProcsDisjoint DEF BootFirst, Save
<1>10. everStored \subseteq everStored' /\ (stored # None => stored' # None) /\ (stored' # None => stored' \in everStored')
    BY <1>2, <1>6 DEF NoWrite, history, HeldKnown
<1>11. HeldKnown'
    BY <1>2, <1>4, <1>5, <1>10, ProcsDisjoint DEF HeldKnown, Known
<1>12. (RowStays /\ BootAgreement)' BY <1>3, <1>4, <1>10, ProcsDisjoint DEF RowStays, BootAgreement
<1> QED BY <1>7, <1>8, <1>9, <1>11, <1>12

LEMMA SwapInv == ASSUME IInv, NEW p \in Callers, Swap(p) PROVE IInv'
<1> USE DEF IInv, Swap
<1>1. (SeedsCounted /\ ApiWins)' /\ everStored' = everStored /\ stored' = stored
    BY NoWriteKeeps DEF budget
<1>2. pc' \in [Procs -> Steps] /\ pc'[p] = "idle" /\ \A q \in Procs : q # p => pc'[q] = pc[q]
    BY GotoEffect, ProcsDisjoint, StepNames DEF Procs
<1>3. held[p] \in everStored /\ held[p] \in Values /\ held[p] = Clone(held[p])
    BY CloneProperties DEF HeldKnown
<1>4. At[p] \in ready /\ At[p] \in Replicas BY ProcsDisjoint DEF BootFirst
<1>5. TypeOK' BY <1>2, <1>3, <1>4 DEF TypeOK, NoWrite, history, budget
<1>6. BootFirst' BY <1>2, <1>4, ProcsDisjoint DEF BootFirst, TypeOK
<1>7. HeldKnown' BY <1>1, <1>2, ProcsDisjoint DEF HeldKnown, Known, TypeOK
<1>8. RowStays' BY <1>1, <1>2, ProcsDisjoint DEF RowStays, budget
<1>9. BootAgreement' BY <1>1, <1>3, <1>4 DEF BootAgreement, budget, TypeOK
<1> QED BY <1>1, <1>5, <1>6, <1>7, <1>8, <1>9

LEMMA LoseInv == ASSUME IInv, Lose PROVE IInv'
<1> USE DEF IInv, Lose, history
<1>1. losses' = losses + 1 /\ losses' # 0 BY DEF TypeOK
<1>2. TypeOK' BY DEF TypeOK
<1>3. SeedsCounted' BY <1>1 DEF SeedsCounted, TypeOK
<1>4. (ApiWins /\ RowStays /\ BootAgreement)' BY <1>1 DEF ApiWins, RowStays, BootAgreement
<1>5. (BootFirst /\ HeldKnown)' BY DEF BootFirst, HeldKnown, Known
<1> QED BY <1>2, <1>3, <1>4, <1>5

LEMMA CrashInv == ASSUME IInv, NEW r \in Replicas, Crash(r) PROVE IInv'
<1> USE DEF IInv, Crash
<1>1. (SeedsCounted /\ ApiWins)' /\ everStored' = everStored /\ stored' = stored BY NoWriteKeeps
<1>2. pc' \in [Procs -> Steps] BY StepNames DEF TypeOK
<1>3. /\ pc'[r] = "get" /\ \A q \in Replicas : q # r => pc'[q] = pc[q] /\ held'[q] = held[q]
      /\ \A p \in Callers : At[p] = r => pc'[p] = "idle"
      /\ \A p \in Callers : At[p] # r => pc'[p] = pc[p] /\ held'[p] = held[p]
    BY ProcsDisjoint
<1>4. TypeOK' BY <1>2, DefaultsProperties DEF TypeOK, NoWrite, history
<1>5. BootFirst' BY <1>3, ProcsDisjoint DEF BootFirst, BootSteps, TypeOK
<1>6. HeldKnown' BY <1>1, <1>3 DEF HeldKnown, Known
<1>7. (RowStays /\ BootAgreement)' BY <1>1, <1>3 DEF RowStays, BootAgreement, TypeOK
<1> QED BY <1>1, <1>4, <1>5, <1>6, <1>7

LEMMA StepInv == IInv /\ [Next]_vars => IInv'
<1> SUFFICES ASSUME IInv, [Next]_vars PROVE IInv' OBVIOUS
<1>1. CASE UNCHANGED vars BY <1>1, IdleInv DEF vars, NoWrite, history, budget, IInv, TypeOK
<1>2. ASSUME NEW r \in Replicas, Boot(r) \/ Refresh(r) \/ Crash(r) PROVE IInv'
    BY <1>2, GetInv, SeedInv, RereadInv, AdoptInv, RefreshInv, CrashInv DEF Boot
<1>3. ASSUME NEW p \in Callers, Save(p) \/ Swap(p) \/ \E gs \in Commands : Update(p, gs) PROVE IInv'
    BY <1>3, SaveInv, SwapInv, UpdateInv
<1> QED BY <1>1, <1>2, <1>3, LoseInv DEF Next

-----------------------------------------------------------------------------
(* The properties.                                                          *)

\* The inductive invariant, types included.
THEOREM InvCorrect == Spec => []IInv
<1> QED BY InitInv, StepInv, PTL DEF Spec

\* However many replicas boot and however the API is used, the defaults of an
\* environment are written at most once per absence of the row and never
\* replace what an API update has written.
THEOREM EnvironmentNeverOverridesApiCorrect == Spec => []EnvironmentNeverOverridesApi
<1>1. IInv => EnvironmentNeverOverridesApi
    BY DEF IInv, TypeOK, SeedsCounted, ApiWins, EnvironmentNeverOverridesApi
<1> QED BY <1>1, InvCorrect, PTL

\* On a healthy store no replica serves defaults that lost the race to seed it.
THEOREM BootAgreementCorrect == Spec => []BootAgreement
<1>1. IInv => BootAgreement BY DEF IInv
<1> QED BY <1>1, InvCorrect, PTL

\* Effective narrows: for every settings and every header.
LEMMA EffectiveNarrows ==
    ASSUME NEW gs \in Values, NEW header \in Headers
    PROVE  /\ Scanned(Effective(gs, header)) \subseteq Scanned(gs)
           /\ "unknown" \in header => Scanned(Effective(gs, header)) = Scanned(gs)
           /\ Effective(gs, header).mode = gs.mode
<1>1. CASE ~gs.enabled \/ header = {"none"}
    BY <1>1 DEF Effective, Skipped, Scanned, Values
<1>2. CASE gs.enabled /\ header # {"none"}
    <2>1. "unknown" \in header => ~(header \subseteq DataTypes) BY SettingsAssumption
    <2> QED BY <1>2, <2>1 DEF Effective, Skipped, Scanned, Values
<1> QED BY <1>1, <1>2

\* No header of a request widens what a replica scans, whatever it has cached.
THEOREM NarrowOnlyCorrect == Spec => []NarrowOnly
<1>1. IInv => NarrowOnly BY EffectiveNarrows DEF IInv, TypeOK, NarrowOnly
<1> QED BY <1>1, InvCorrect, PTL
=============================================================================
