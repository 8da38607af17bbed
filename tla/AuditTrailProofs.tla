------------------------- MODULE AuditTrailProofs ---------------------------
(* Proofs about AuditTrail: its semaphore accounts for every writer, and a  *)
(* shutdown within its budget closes the store last.                        *)
EXTENDS AuditTrail, FiniteSetTheorems, TLAPS

-----------------------------------------------------------------------------
(* Writers in flight.                                                       *)

\* There are finitely many writers.
LEMMA InFlightFinite ==
    /\ IsFiniteSet(InFlight)
    /\ Cardinality(InFlight) \in Nat
    /\ Cardinality(InFlight) = 0 <=> InFlight = {}
<1>1. IsFiniteSet(Kinds)
    <2>1. IsFiniteSet({}) BY FS_EmptySet
    <2>2. IsFiniteSet({} \cup {"put"}) BY <2>1, FS_AddElement
    <2>3. IsFiniteSet(({} \cup {"put"}) \cup {"response"}) BY <2>2, FS_AddElement
    <2>4. Kinds = ({} \cup {"put"}) \cup {"response"} BY DEF Kinds
    <2> QED BY <2>3, <2>4
<1>2. IsFiniteSet(Requests \X Kinds) BY <1>1, AuditAssumption, FS_Product
<1>3. InFlight \in SUBSET (Requests \X Kinds) BY DEF InFlight
<1>4. IsFiniteSet(InFlight) BY <1>2, <1>3, FS_Subset
<1> QED BY <1>4, FS_CardinalityType, FS_EmptySet

\* A writer that starts was not in flight before.
LEMMA WriterStarts ==
    ASSUME TypeOK, NEW q \in Requests, NEW k \in Kinds,
           write[q][k] = "none", write' = [write EXCEPT ![q][k] = "running"]
    PROVE  /\ Cardinality(InFlight') = Cardinality(InFlight) + 1
           /\ InFlight' # {}
<1>1. InFlight' = InFlight \cup {<<q, k>>}
    BY DEF InFlight, TypeOK, WriteSteps
<1>2. <<q, k>> \notin InFlight BY DEF InFlight
<1> QED BY <1>1, <1>2, InFlightFinite, FS_AddElement

\* A store call that returns leaves its writer in flight until it releases its slot.
LEMMA WriterReturns ==
    ASSUME TypeOK, NEW q \in Requests, NEW k \in Kinds,
           write[q][k] = "running", write' = [write EXCEPT ![q][k] = "returned"]
    PROVE  InFlight' = InFlight
BY DEF InFlight, TypeOK, WriteSteps

\* A writer that releases its slot is in flight no more.
LEMMA WriterEnds ==
    ASSUME TypeOK, NEW q \in Requests, NEW k \in Kinds,
           write[q][k] = "returned", write' = [write EXCEPT ![q][k] = "none"]
    PROVE  /\ Cardinality(InFlight') = Cardinality(InFlight) - 1
           /\ InFlight' \subseteq InFlight
           /\ InFlight # {}
<1>1. InFlight' = InFlight \ {<<q, k>>}
    BY DEF InFlight, TypeOK, WriteSteps
<1>2. <<q, k>> \in InFlight BY DEF InFlight
<1> QED BY <1>1, <1>2, InFlightFinite, FS_RemoveElement

\* The writers in flight depend on their steps alone.
LEMMA WritersUnchanged ==
    ASSUME UNCHANGED write
    PROVE  InFlight' = InFlight
BY DEF InFlight

\* Record and RecordResponse keep the account of the semaphore.
LEMMA EnqueueEffect ==
    ASSUME TypeOK, SlotsAccounted, NEW q \in Requests, NEW k \in Kinds,
           write[q][k] = "none", Enqueue(q, k), UNCHANGED <<acquired, stop>>
    PROVE  /\ sem' \in 0 .. Slots
           /\ write' \in [Requests -> [Kinds -> WriteSteps]]
           /\ SlotsAccounted'
           /\ \A r \in Requests, j \in Kinds : <<r, j>> # <<q, k>> => write'[r][j] = write[r][j]
<1>1. CASE sem < Slots /\ sem' = sem + 1 /\ write' = [write EXCEPT ![q][k] = "running"]
    <2>1. Cardinality(InFlight') = Cardinality(InFlight) + 1 BY <1>1, WriterStarts
    <2>2. sem' \in 0 .. Slots BY <1>1, AuditAssumption DEF TypeOK
    <2>3. write' \in [Requests -> [Kinds -> WriteSteps]] BY <1>1 DEF TypeOK, WriteSteps
    <2>4. SlotsAccounted' BY <1>1, <2>1, InFlightFinite DEF SlotsAccounted, TypeOK
    <2>5. \A r \in Requests, j \in Kinds : <<r, j>> # <<q, k>> => write'[r][j] = write[r][j]
        BY <1>1 DEF TypeOK
    <2> QED BY <2>2, <2>3, <2>4, <2>5
<1>2. CASE UNCHANGED <<sem, write>>
    <2>1. InFlight' = InFlight BY <1>2, WritersUnchanged
    <2> QED BY <1>2, <2>1 DEF SlotsAccounted, TypeOK
<1> QED BY <1>1, <1>2 DEF Enqueue

-----------------------------------------------------------------------------
\* The initial state satisfies the invariant.
LEMMA InvInit == Init => IInv
<1> SUFFICES ASSUME Init PROVE IInv OBVIOUS
<1>1. TypeOK
    <2>1. FlagType BY DEF Init, FlagType
    <2> QED BY <2>1, AuditAssumption DEF Init, TypeOK, ReqSteps, WriteSteps, StopSteps
<1>2. InFlight = {} BY DEF Init, InFlight
<1>3. SlotsAccounted BY <1>2, FS_EmptySet DEF Init, SlotsAccounted
<1>4. WritersStartOnce BY DEF Init, WritersStartOnce, Kinds
<1>5. StopOrder BY DEF Init, StopOrder, AfterGateway, AfterServers, AfterDrain
<1> QED BY <1>1, <1>3, <1>4, <1>5 DEF IInv

\* A step that leaves the shutdown alone keeps its order if it takes no request
\* into work and starts no writer once nobody is handled any more.
LEMMA StopOrderKept ==
    ASSUME StopOrder, UNCHANGED <<calling, stop, listening, expired, closed>>,
           Handling = {} => Handling' = {},
           Handling = {} /\ InFlight = {} => InFlight' = {},
           stop \in AfterDrain => stop \in AfterGateway
    PROVE  StopOrder'
BY DEF StopOrder

\* The Recorder is drained after the gateway is stopped.
LEMMA AfterDrainIsAfterGateway == stop \in AfterDrain => stop \in AfterGateway
BY DEF AfterDrain, AfterGateway

\* Arrive needs the listener, which no shutdown past its beginning has.
LEMMA ArriveInv == ASSUME IInv, NEW q \in Requests, Arrive(q) PROVE IInv'
<1> USE DEF IInv
<1>1. TypeOK'
    <2>1. FlagType' BY DEF Arrive, stopping, FlagType, TypeOK
    <2> QED BY <2>1 DEF Arrive, stopping, TypeOK, ReqSteps
<1>2. InFlight' = InFlight BY WritersUnchanged DEF Arrive
<1>3. SlotsAccounted' BY <1>2 DEF Arrive, stopping, SlotsAccounted
<1>4. WritersStartOnce' BY DEF Arrive, WritersStartOnce, TypeOK
<1>5. StopOrder'
    <2>1. stop \in {"serving", "draining"} BY DEF Arrive, StopOrder
    <2> QED BY <2>1, <1>2 DEF Arrive, stopping, StopOrder, AfterGateway, AfterServers, AfterDrain
<1> QED BY <1>1, <1>3, <1>4, <1>5

\* What the handler's own steps have in common.
LEMMA HandlerInv ==
    ASSUME IInv, NEW q \in Requests, NEW k \in Kinds, NEW s \in ReqSteps,
           req[q] \notin {"new", "done"}, s \notin {"new", "handling"},
           k = "put" => req[q] = "handling",
           k = "response" => s = "done",
           write[q][k] = "none",
           req' = [req EXCEPT ![q] = s],
           Enqueue(q, k) \/ UNCHANGED <<sem, write>>,
           UNCHANGED <<record, stopping>>
    PROVE  IInv'
<1> USE DEF IInv
<1>1. /\ sem' \in 0 .. Slots
      /\ write' \in [Requests -> [Kinds -> WriteSteps]]
      /\ SlotsAccounted'
      /\ \A r \in Requests, j \in Kinds : <<r, j>> # <<q, k>> => write'[r][j] = write[r][j]
    <2>1. CASE Enqueue(q, k) BY <2>1, EnqueueEffect DEF stopping
    <2>2. CASE UNCHANGED <<sem, write>>
        <3>1. InFlight' = InFlight BY <2>2, WritersUnchanged
        <3> QED BY <2>2, <3>1 DEF SlotsAccounted, TypeOK, stopping
    <2> QED BY <2>1, <2>2
<1>2. TypeOK'
    <2>1. FlagType' BY DEF stopping, FlagType, TypeOK
    <2> QED BY <1>1, <2>1 DEF stopping, TypeOK
<1>3. WritersStartOnce'
    BY <1>1 DEF WritersStartOnce, TypeOK, Kinds
<1>4. StopOrder'
    <2>1. Handling # {} BY DEF Handling
    <2> QED BY <2>1, AfterDrainIsAfterGateway DEF StopOrder, stopping, AfterGateway, AfterServers, AfterDrain, Handling
<1> QED BY <1>1, <1>2, <1>3, <1>4

\* maskRequest: the request has no writer yet, so Record starts its first.
LEMMA MaskInv == ASSUME IInv, NEW q \in Requests, Mask(q) PROVE IInv'
<1>1. write[q]["put"] = "none" BY DEF IInv, Mask, WritersStartOnce
<1>2. PICK s \in {"forwarded", "done"} : req' = [req EXCEPT ![q] = s] BY DEF Mask
<1>3. Enqueue(q, "put") \/ UNCHANGED <<sem, write>> BY DEF Mask
<1>4. req[q] = "handling" /\ UNCHANGED <<record, stopping>> BY DEF Mask
<1>5. "put" \in Kinds /\ s \in ReqSteps /\ s \notin {"new", "handling"} BY <1>2 DEF Kinds, ReqSteps
<1> QED BY <1>1, <1>2, <1>3, <1>4, <1>5, HandlerInv

\* forward: the request leaves the upstream and starts no writer.
LEMMA UpstreamInv == ASSUME IInv, NEW q \in Requests, Upstream(q) PROVE IInv'
<1> USE DEF IInv
<1>1. PICK s \in {"answered", "done"} : req' = [req EXCEPT ![q] = s] BY DEF Upstream
<1>2. req[q] = "forwarded" /\ UNCHANGED <<write, sem, record, stopping>> BY DEF Upstream
<1>3. TypeOK'
    <2>1. FlagType' BY <1>2 DEF stopping, FlagType, TypeOK
    <2> QED BY <1>1, <1>2, <2>1 DEF stopping, TypeOK, ReqSteps
<1>4. InFlight' = InFlight BY <1>2, WritersUnchanged
<1>5. SlotsAccounted' BY <1>2, <1>4 DEF stopping, SlotsAccounted
<1>6. WritersStartOnce' BY <1>1, <1>2 DEF WritersStartOnce, TypeOK
<1>7. StopOrder'
    <2>1. Handling # {} BY <1>2 DEF Handling
    <2> QED BY <1>2, <2>1, AfterDrainIsAfterGateway
            DEF StopOrder, stopping, AfterGateway, AfterServers, AfterDrain, Handling
<1> QED BY <1>3, <1>5, <1>6, <1>7

\* recordMaskedResponse: the handler is not done, so its second writer is not
\* started yet.
LEMMA RecordResponseInv == ASSUME IInv, NEW q \in Requests, RecordResponse(q) PROVE IInv'
<1>1. write[q]["response"] = "none" BY DEF IInv, RecordResponse, WritersStartOnce
<1>2. "response" \in Kinds /\ "done" \in ReqSteps BY DEF Kinds, ReqSteps
<1> QED BY <1>1, <1>2, HandlerInv DEF RecordResponse

\* A writer's store call keeps its slot.
LEMMA StoreWriteInv == ASSUME IInv, NEW q \in Requests, NEW k \in Kinds, StoreWrite(q, k) PROVE IInv'
<1> USE DEF IInv
<1>0. /\ write[q][k] = "running" /\ write' = [write EXCEPT ![q][k] = "returned"]
      /\ UNCHANGED <<req, sem, stopping>>
      /\ UNCHANGED record \/ \E v \in {"put", "enriched"} : record' = [record EXCEPT ![q] = v]
    BY DEF StoreWrite
<1>1. TypeOK'
    <2>1. FlagType' BY <1>0 DEF stopping, FlagType, TypeOK
    <2>2. record' \in [Requests -> {"absent", "put", "enriched"}] BY <1>0 DEF TypeOK
    <2>3. write' \in [Requests -> [Kinds -> WriteSteps]] BY <1>0 DEF TypeOK, WriteSteps
    <2> QED BY <1>0, <2>1, <2>2, <2>3 DEF stopping, TypeOK
<1>2. InFlight' = InFlight BY <1>0, WriterReturns
<1>3. SlotsAccounted' BY <1>0, <1>2 DEF stopping, SlotsAccounted
<1>4. WritersStartOnce' BY <1>0 DEF WritersStartOnce, TypeOK, Kinds
<1>5. Handling' = Handling BY <1>0 DEF Handling
<1>6. StopOrder' BY <1>0, <1>2, <1>5, AfterDrainIsAfterGateway, StopOrderKept DEF stopping
<1> QED BY <1>1, <1>3, <1>4, <1>6

\* The writer's deferred release gives back exactly its own slot.
LEMMA ReleaseInv == ASSUME IInv, NEW q \in Requests, NEW k \in Kinds, Release(q, k) PROVE IInv'
<1> USE DEF IInv
<1>0. /\ write[q][k] = "returned" /\ write' = [write EXCEPT ![q][k] = "none"]
      /\ sem > 0 /\ sem' = sem - 1
      /\ UNCHANGED <<req, record, stopping>>
    BY DEF Release
<1>1. TypeOK'
    <2>1. FlagType' BY <1>0 DEF stopping, FlagType, TypeOK
    <2>2. write' \in [Requests -> [Kinds -> WriteSteps]] BY <1>0 DEF TypeOK, WriteSteps
    <2>3. sem' \in 0 .. Slots BY <1>0, AuditAssumption DEF TypeOK
    <2> QED BY <1>0, <2>1, <2>2, <2>3 DEF stopping, TypeOK
<1>2. Cardinality(InFlight') = Cardinality(InFlight) - 1 /\ InFlight' \subseteq InFlight
    BY <1>0, WriterEnds
<1>3. SlotsAccounted' BY <1>0, <1>2, InFlightFinite DEF stopping, SlotsAccounted, TypeOK
<1>4. WritersStartOnce' BY <1>0 DEF WritersStartOnce, TypeOK, Kinds
<1>5. Handling' = Handling BY <1>0 DEF Handling
<1>6. StopOrder' BY <1>0, <1>2, <1>5, AfterDrainIsAfterGateway, StopOrderKept DEF stopping
<1> QED BY <1>1, <1>3, <1>4, <1>6

-----------------------------------------------------------------------------
(* The shutdown.                                                            *)

\* What every step that touches no handler and no writer keeps.
LEMMA OthersKept ==
    ASSUME IInv, UNCHANGED <<req, write>>
    PROVE  InFlight' = InFlight /\ Handling' = Handling /\ WritersStartOnce'
<1>1. InFlight' = InFlight BY WritersUnchanged
<1>2. Handling' = Handling BY DEF Handling
<1>3. WritersStartOnce' BY DEF IInv, WritersStartOnce
<1> QED BY <1>1, <1>2, <1>3

\* Configuration calls begin only before their servers are stopped.
LEMMA CallInv ==
    ASSUME IInv, NEW c \in Calls, BeginCall(c) \/ EndCall(c)
    PROVE  IInv'
<1> USE DEF IInv
<1>0. UNCHANGED <<req, write, sem, record, acquired, stop, listening, expired, closed>>
    BY DEF BeginCall, EndCall
<1>1. TypeOK'
    <2>1. FlagType' BY <1>0 DEF FlagType, TypeOK
    <2>2. calling' \in SUBSET Calls BY DEF BeginCall, EndCall, TypeOK
    <2> QED BY <1>0, <2>1, <2>2 DEF TypeOK
<1>2. InFlight' = InFlight /\ Handling' = Handling /\ WritersStartOnce' BY <1>0, OthersKept
<1>3. SlotsAccounted' BY <1>0, <1>2 DEF SlotsAccounted
<1>4. StopOrder'
    <2>1. (stop \in AfterServers /\ ~expired) => calling' = {}
        BY DEF BeginCall, EndCall, StopOrder, AfterServers
    <2> QED BY <1>0, <1>2, <2>1 DEF StopOrder
<1> QED BY <1>1, <1>2, <1>3, <1>4

\* The steps of the shutdown that leave the semaphore alone.
LEMMA StopStepInv ==
    ASSUME IInv,
           \/ BeginStop \/ CloseListener \/ Deadline \/ GatewayStopped
           \/ ServersStopped \/ TracerStopped \/ CloseStore
    PROVE  IInv'
<1> USE DEF IInv
<1>0. UNCHANGED <<req, write, record, calling, sem, acquired>>
    BY DEF BeginStop, CloseListener, Deadline, GatewayStopped, ServersStopped,
           TracerStopped, CloseStore, others
<1>1. InFlight' = InFlight /\ Handling' = Handling /\ WritersStartOnce' BY <1>0, OthersKept
<1>2. FlagType'
    BY DEF BeginStop, CloseListener, Deadline, GatewayStopped, ServersStopped,
           TracerStopped, CloseStore, FlagType, TypeOK
<1>3. stop' \in StopSteps /\ (stop' = "recorder" => acquired = 0 \/ stop = "recorder")
      /\ (stop = "recorder" => stop' = "recorder")
    BY DEF BeginStop, CloseListener, Deadline, GatewayStopped, ServersStopped,
           TracerStopped, CloseStore, StopSteps, TypeOK, SlotsAccounted
<1>4. TypeOK' BY <1>0, <1>2, <1>3 DEF TypeOK
<1>5. SlotsAccounted' BY <1>0, <1>1, <1>3 DEF SlotsAccounted
<1>6. StopOrder'
    <2> USE DEF StopOrder, AfterGateway, AfterServers, AfterDrain
    <2>1. CASE BeginStop BY <1>0, <1>1, <2>1 DEF BeginStop
    <2>2. CASE CloseListener BY <1>0, <1>1, <2>2 DEF CloseListener
    <2>3. CASE Deadline BY <1>0, <1>1, <2>3 DEF Deadline
    <2>4. CASE GatewayStopped BY <1>0, <1>1, <2>4 DEF GatewayStopped
    <2>5. CASE ServersStopped BY <1>0, <1>1, <2>5 DEF ServersStopped
    <2>6. CASE TracerStopped BY <1>0, <1>1, <2>6 DEF TracerStopped
    <2>7. CASE CloseStore BY <1>0, <1>1, <2>7 DEF CloseStore
    <2> QED BY <2>1, <2>2, <2>3, <2>4, <2>5, <2>6, <2>7
<1> QED BY <1>1, <1>4, <1>5, <1>6

\* Drain: holding every slot means that no writer is left.
LEMMA DrainInv == ASSUME IInv, Drain PROVE IInv'
<1> USE DEF IInv
<1>0. stop = "recorder" /\ UNCHANGED <<req, write, record, calling, listening, expired, closed>>
    BY DEF Drain, others
<1>1. InFlight' = InFlight /\ Handling' = Handling /\ WritersStartOnce' BY <1>0, OthersKept
<1>2. FlagType' BY <1>0 DEF FlagType, TypeOK
<1>3. CASE acquired < Slots /\ sem < Slots /\ sem' = sem + 1 /\ acquired' = acquired + 1 /\ UNCHANGED stop
    <2>1. sem' \in 0 .. Slots /\ acquired' \in 0 .. Slots BY <1>3, AuditAssumption DEF TypeOK
    <2>2. TypeOK' BY <1>0, <1>2, <1>3, <2>1 DEF TypeOK
    <2>3. SlotsAccounted' BY <1>0, <1>1, <1>3, InFlightFinite DEF SlotsAccounted, TypeOK
    <2>4. StopOrder' BY <1>0, <1>1, <1>3 DEF StopOrder
    <2> QED BY <1>1, <2>2, <2>3, <2>4
<1>4. CASE (acquired = Slots \/ expired) /\ sem' = sem - acquired /\ acquired' = 0 /\ stop' = "tracing"
    <2>1. sem' = Cardinality(InFlight) /\ sem' \in 0 .. Slots /\ acquired' \in 0 .. Slots
        BY <1>4, InFlightFinite, AuditAssumption DEF SlotsAccounted, TypeOK
    <2>2. TypeOK' BY <1>0, <1>2, <1>4, <2>1 DEF TypeOK, StopSteps
    <2>3. SlotsAccounted' BY <1>0, <1>1, <1>4, <2>1, InFlightFinite DEF SlotsAccounted, TypeOK
    <2>4. acquired = Slots => InFlight = {}
        BY InFlightFinite, AuditAssumption DEF SlotsAccounted, TypeOK
    <2>5. StopOrder'
        BY <1>0, <1>1, <1>4, <2>4 DEF StopOrder, AfterGateway, AfterServers, AfterDrain
    <2> QED BY <1>1, <2>2, <2>3, <2>5
<1> QED BY <1>3, <1>4 DEF Drain

-----------------------------------------------------------------------------
\* Every step preserves the invariant.
LEMMA InvStep == IInv /\ [Next]_vars => IInv'
<1> SUFFICES ASSUME IInv, [Next]_vars PROVE IInv' OBVIOUS
<1>1. CASE \E q \in Requests : Arrive(q) \/ Handler(q) \/ Upstream(q)
    BY <1>1, ArriveInv, MaskInv, RecordResponseInv, UpstreamInv DEF Handler
<1>2. CASE \E q \in Requests, k \in Kinds : StoreWrite(q, k) \/ Release(q, k)
    BY <1>2, StoreWriteInv, ReleaseInv
<1>3. CASE \E c \in Calls : BeginCall(c) \/ EndCall(c) BY <1>3, CallInv
<1>4. CASE BeginStop \/ Deadline BY <1>4, StopStepInv
<1>5. CASE Shutdown BY <1>5, StopStepInv, DrainInv DEF Shutdown
<1>6. CASE UNCHANGED vars
    <2>1. InFlight' = InFlight /\ Handling' = Handling BY <1>6 DEF vars, InFlight, Handling
    <2>2. FlagType' BY <1>6 DEF vars, FlagType, IInv, TypeOK
    <2>3. TypeOK' BY <1>6, <2>2 DEF vars, IInv, TypeOK
    <2>4. SlotsAccounted' BY <1>6, <2>1 DEF vars, IInv, SlotsAccounted
    <2>5. WritersStartOnce' BY <1>6 DEF vars, IInv, WritersStartOnce
    <2>6. StopOrder' BY <1>6, <2>1 DEF vars, IInv, StopOrder
    <2> QED BY <2>3, <2>4, <2>5, <2>6 DEF IInv
<1> QED BY <1>1, <1>2, <1>3, <1>4, <1>5, <1>6 DEF Next, Exited

\* The inductive invariant of the audit trail and the shutdown holds.
THEOREM InvCorrect == Spec => []IInv
BY InvInit, InvStep, PTL DEF Spec

\* Every variable keeps its type, so the semaphore never holds more than
\* maxInFlightWrites tokens.
THEOREM TypeCorrect == Spec => []TypeOK
<1>1. IInv => TypeOK BY DEF IInv
<1> QED BY <1>1, InvCorrect, PTL

\* For any number of requests and slots, no slot of the Recorder's semaphore
\* leaks or is given back twice, a cancelled Drain included.
THEOREM SlotsAccountedCorrect == Spec => []SlotsAccounted
<1>1. IInv => SlotsAccounted BY DEF IInv
<1> QED BY <1>1, InvCorrect, PTL

\* A shutdown that stays within its budget closes the store only when no
\* writer, no handler and no configuration call is left.
THEOREM NothingLostAtCloseCorrect == Spec => []NothingLostAtClose
<1>1. IInv => NothingLostAtClose
    BY DEF IInv, StopOrder, NothingLostAtClose, AfterGateway, AfterServers, AfterDrain
<1> QED BY <1>1, InvCorrect, PTL
=============================================================================
