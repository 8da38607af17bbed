----------------------------- MODULE AuditTrail -----------------------------
(***************************************************************************)
(* The audit trail and the graceful shutdown around it: gateway requests   *)
(* call the Recorder (internal/service/audit/recorder.go), whose detached  *)
(* goroutines write to the store under a counting semaphore; App.shutdown  *)
(* (internal/app/app.go) stops the servers, drains the Recorder and closes *)
(* the store, all within one time budget.                                  *)
(*                                                                         *)
(* Requests and store writes may hang for ever; only the deadline of the   *)
(* shutdown context is sure to come.                                       *)
(***************************************************************************)
EXTENDS Naturals, FiniteSets

CONSTANTS
    Requests,     \* gateway requests
    Calls,        \* calls of the configuration API, which use the store too
    Slots         \* maxInFlightWrites, the capacity of the semaphore

ASSUME AuditAssumption == Slots \in Nat \ {0} /\ IsFiniteSet(Requests)

VARIABLES
    req,       \* where the handler of each request is
    write,     \* write[q][k]: the goroutine that writes q's record or its response texts
    sem,       \* tokens in the semaphore
    acquired,  \* tokens taken by the running Drain
    record,    \* the store: q's audit record
    calling,   \* configuration API calls in progress
    stop,      \* the step App.shutdown is at
    listening, \* the gateway's listener is open
    expired,   \* shutdownCtx is done
    closed     \* the store is closed

vars == <<req, write, sem, acquired, record, calling, stop, listening, expired, closed>>

Kinds == {"put", "response"}
ReqSteps == {"new", "handling", "forwarded", "answered", "done"}
WriteSteps == {"none", "running", "returned"}
\* shutdown(): cancelRefresh and the drain period, then one step per server,
\* the Recorder's Drain, the tracer and the store.
StopSteps == {"serving", "draining", "gateway", "servers", "recorder", "tracing", "store", "exited"}

InFlight == {w \in Requests \X Kinds : write[w[1]][w[2]] # "none"}

Init ==
    /\ req = [q \in Requests |-> "new"]
    /\ write = [q \in Requests |-> [k \in Kinds |-> "none"]]
    /\ sem = 0 /\ acquired = 0
    /\ record = [q \in Requests |-> "absent"]
    /\ calling = {}
    /\ stop = "serving" /\ listening = TRUE /\ expired = FALSE /\ closed = FALSE

stopping == <<acquired, calling, stop, listening, expired, closed>>

-----------------------------------------------------------------------------
(* The Recorder.                                                            *)

\* An enqueue that waits for a slot instead of dropping the record.
EnqueueBlocking(q, k) ==
    /\ sem < Slots
    /\ sem' = sem + 1 /\ write' = [write EXCEPT ![q][k] = "running"]

\* An enqueue without a limit.
EnqueueUnbounded(q, k) ==
    sem' = sem + 1 /\ write' = [write EXCEPT ![q][k] = "running"]

\* Record and RecordResponse: take a slot and start the writer, or drop.
Enqueue(q, k) ==
    \/ /\ sem < Slots
       /\ sem' = sem + 1 /\ write' = [write EXCEPT ![q][k] = "running"]
    \/ sem = Slots /\ UNCHANGED <<sem, write>>

\* The store call of a writer: it may fail (or time out), it fails on a closed
\* store, and response texts need an existing record.
StoreWrite(q, k) ==
    /\ write[q][k] = "running"
    /\ write' = [write EXCEPT ![q][k] = "returned"]
    /\ \/ /\ k = "put" /\ ~closed
          /\ record' = [record EXCEPT ![q] = "put"]
       \/ /\ k = "response" /\ ~closed /\ record[q] # "absent"
          /\ record' = [record EXCEPT ![q] = "enriched"]
       \/ UNCHANGED record
    /\ UNCHANGED <<req, sem, stopping>>

\* A writer that keeps its slot.
ReleaseNothing(q, k) ==
    /\ write[q][k] = "returned"
    /\ write' = [write EXCEPT ![q][k] = "none"]
    /\ UNCHANGED <<req, sem, record, stopping>>

\* The writer's deferred receive from the semaphore.
Release(q, k) ==
    /\ write[q][k] = "returned" /\ sem > 0
    /\ write' = [write EXCEPT ![q][k] = "none"]
    /\ sem' = sem - 1
    /\ UNCHANGED <<req, record, stopping>>

-----------------------------------------------------------------------------
(* The gateway handler, as far as the audit trail is concerned.             *)

Arrive(q) ==
    /\ req[q] = "new" /\ listening
    /\ req' = [req EXCEPT ![q] = "handling"]
    /\ UNCHANGED <<write, sem, record, stopping>>

\* maskRequest: with a finding the request is recorded; only in enforce mode is
\* its response demasked and captured.
Mask(q) ==
    /\ req[q] = "handling"
    /\ \/ UNCHANGED <<write, sem>> /\ req' = [req EXCEPT ![q] = "done"]
       \/ Enqueue(q, "put") /\ req' = [req EXCEPT ![q] = "done"]
       \/ Enqueue(q, "put") /\ req' = [req EXCEPT ![q] = "forwarded"]
    /\ UNCHANGED <<record, stopping>>

\* forward: the upstream's response was demasked and relayed, or there is
\* nothing to record (upstream failure, interrupted stream, no text).
Upstream(q) ==
    /\ req[q] = "forwarded"
    /\ \E s \in {"answered", "done"} : req' = [req EXCEPT ![q] = s]
    /\ UNCHANGED <<write, sem, record, stopping>>

\* recordMaskedResponse, the handler's last step.
RecordResponse(q) ==
    /\ req[q] = "answered"
    /\ Enqueue(q, "response")
    /\ req' = [req EXCEPT ![q] = "done"]
    /\ UNCHANGED <<record, stopping>>

-----------------------------------------------------------------------------
(* App.shutdown.                                                            *)

others == <<req, write, record, calling>>

Handling == {q \in Requests : req[q] \notin {"new", "done"}}

\* SIGTERM: refreshers are cancelled and readiness turns off; the listener
\* stays open for the drain period.
BeginStop ==
    /\ stop = "serving" /\ stop' = "draining"
    /\ UNCHANGED <<others, sem, acquired, listening, expired, closed>>

\* The drain period is over: shutdownCtx is made and http.Server.Shutdown
\* closes the listener.
CloseListener ==
    /\ stop = "draining" /\ stop' = "gateway"
    /\ listening' = FALSE
    /\ UNCHANGED <<others, sem, acquired, expired, closed>>

Deadline ==
    /\ stop \notin {"serving", "draining", "exited"} /\ ~expired
    /\ expired' = TRUE
    /\ UNCHANGED <<others, sem, acquired, stop, listening, closed>>

\* A Shutdown of the gateway that does not wait for its handlers.
GatewayAbandoned ==
    /\ stop = "gateway"
    /\ stop' = "servers"
    /\ UNCHANGED <<others, sem, acquired, listening, expired, closed>>

\* http.Server.Shutdown returns when no handler is left or the budget is spent;
\* handlers that are left go on running.
GatewayStopped ==
    /\ stop = "gateway" /\ (Handling = {} \/ expired)
    /\ stop' = "servers"
    /\ UNCHANGED <<others, sem, acquired, listening, expired, closed>>

\* A call of the configuration API; its servers stop one after the other, and
\* gRPC still accepts calls while the REST server waits for its own.
BeginCall(c) ==
    /\ c \notin calling /\ stop \in {"serving", "draining", "gateway", "servers"}
    /\ calling' = calling \cup {c}
    /\ UNCHANGED <<req, write, sem, record, acquired, stop, listening, expired, closed>>

EndCall(c) ==
    /\ c \in calling
    /\ calling' = calling \ {c}
    /\ UNCHANGED <<req, write, sem, record, acquired, stop, listening, expired, closed>>

\* The REST, gRPC and metrics servers: a graceful stop, cut short (Stop, which
\* does not wait for handlers) when the budget is spent.
ServersStopped ==
    /\ stop = "servers" /\ (calling = {} \/ expired)
    /\ stop' = "recorder"
    /\ UNCHANGED <<others, sem, acquired, listening, expired, closed>>

\* A Drain that waits for every slot whatever the deadline.
DrainPatient ==
    /\ stop = "recorder"
    /\ \/ /\ acquired < Slots /\ sem < Slots
          /\ sem' = sem + 1 /\ acquired' = acquired + 1 /\ UNCHANGED stop
       \/ /\ acquired = Slots
          /\ sem' = sem - acquired /\ acquired' = 0 /\ stop' = "tracing"
    /\ UNCHANGED <<others, listening, expired, closed>>

\* One turn of Drain's loop: take a slot if there is one, or notice that the
\* context is done; either way the slots are given back at the end.
Drain ==
    /\ stop = "recorder"
    /\ \/ /\ acquired < Slots /\ sem < Slots
          /\ sem' = sem + 1 /\ acquired' = acquired + 1 /\ UNCHANGED stop
       \/ /\ acquired = Slots \/ expired
          /\ sem' = sem - acquired /\ acquired' = 0 /\ stop' = "tracing"
    /\ UNCHANGED <<others, listening, expired, closed>>

TracerStopped ==
    /\ stop = "tracing" /\ stop' = "store"
    /\ UNCHANGED <<others, sem, acquired, listening, expired, closed>>

CloseStore ==
    /\ stop = "store" /\ stop' = "exited"
    /\ closed' = TRUE
    /\ UNCHANGED <<others, sem, acquired, listening, expired>>

Shutdown ==
    \/ CloseListener \/ GatewayStopped \/ ServersStopped \/ Drain
    \/ TracerStopped \/ CloseStore

\* The process is gone, or has nothing left to do.
Exited == stop = "exited" /\ UNCHANGED vars

Handler(q) == Mask(q) \/ RecordResponse(q)

Next ==
    \/ \E q \in Requests : Arrive(q) \/ Handler(q) \/ Upstream(q)
    \/ \E q \in Requests, k \in Kinds : StoreWrite(q, k) \/ Release(q, k)
    \/ \E c \in Calls : BeginCall(c) \/ EndCall(c)
    \/ BeginStop \/ Deadline \/ Shutdown \/ Exited

Spec == Init /\ [][Next]_vars

\* Goroutines that do not wait are scheduled and the timer fires.  Neither the
\* upstream nor the store is assumed ever to answer.
Fairness ==
    /\ \A q \in Requests : WF_vars(Handler(q))
    /\ WF_vars(Shutdown) /\ WF_vars(Deadline)

FairSpec == Spec /\ Fairness

-----------------------------------------------------------------------------
(* Properties.                                                              *)

FlagType == listening \in BOOLEAN /\ expired \in BOOLEAN /\ closed \in BOOLEAN

\* Every variable has its type.
TypeOK ==
    /\ req \in [Requests -> ReqSteps]
    /\ write \in [Requests -> [Kinds -> WriteSteps]]
    /\ sem \in 0 .. Slots /\ acquired \in 0 .. Slots
    /\ record \in [Requests -> {"absent", "put", "enriched"}]
    /\ calling \in SUBSET Calls
    /\ stop \in StopSteps
    /\ FlagType

\* Every token in the semaphore belongs to a writer in flight or to a Drain in
\* progress: none leaks (a Recorder that leaks drops records for ever), none
\* is returned twice, and a cancelled Drain gives its tokens back.
SlotsAccounted ==
    /\ sem = Cardinality(InFlight) + acquired
    /\ stop # "recorder" => acquired = 0

\* A shutdown within its budget loses no accepted record and fails no call:
\* when the store is closed no writer is left, no handler is left that could
\* start one, and no configuration call still needs the store.
NothingLostAtClose ==
    (closed /\ ~expired) => InFlight = {} /\ Handling = {} /\ calling = {}

\* The inductive invariant behind the two properties above: the listener is
\* closed before the gateway is waited for, and each later step of a shutdown
\* within its budget finds what the steps before it have emptied.
AfterGateway == {"servers", "recorder", "tracing", "store", "exited"}
AfterServers == {"recorder", "tracing", "store", "exited"}
AfterDrain == {"tracing", "store", "exited"}

StopOrder ==
    /\ closed => stop = "exited"
    /\ stop \notin {"serving", "draining"} => ~listening
    /\ (stop \in AfterGateway /\ ~expired) => Handling = {}
    /\ (stop \in AfterServers /\ ~expired) => calling = {}
    /\ (stop \in AfterDrain /\ ~expired) => InFlight = {}

\* A request starts each of its writers at most once.
WritersStartOnce ==
    \A q \in Requests :
        /\ req[q] \in {"new", "handling"} => write[q]["put"] = "none"
        /\ req[q] # "done" => write[q]["response"] = "none"

IInv == TypeOK /\ SlotsAccounted /\ WritersStartOnce /\ StopOrder

\* Recording never delays a request, however slow the store: a handler always
\* gets past Record and RecordResponse.
AuditNeverBlocks ==
    \A q \in Requests :
        /\ req[q] = "handling" ~> req[q] # "handling"
        /\ req[q] = "answered" ~> req[q] = "done"

\* A shutdown ends even when requests and store writes hang.
ShutdownCompletes == stop = "draining" ~> stop = "exited"
=============================================================================
