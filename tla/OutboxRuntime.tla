--------------------------- MODULE OutboxRuntime ---------------------------
(***************************************************************************)
(* The event runtime of internal/app/metering_eventbus.go: on every        *)
(* replica, start opens the bus and starts two goroutines, one that        *)
(* dispatches committed outbox rows to the bus and one that deletes        *)
(* published rows; stop cancels both, waits for them and closes the bus.   *)
(*                                                                         *)
(* The dispatcher and the cleaner are a library.  As the table's columns   *)
(* and their configuration show, RunOnce claims due rows by moving their   *)
(* available_at past a lease, publishes them one by one, and sets          *)
(* published_at, or available_at past a retry delay when publishing fails. *)
(* The rows are those MeterCatalog and UsageIngestion commit.              *)
(***************************************************************************)
EXTENDS Naturals, FiniteSets

CONSTANTS
    Replicas,
    Events,     \* outbox rows that transactions commit
    BatchSize,  \* event_bus.dispatch_batch_size
    MaxFaults   \* bound on failed starts, failed publishes, crashes and stops

ASSUME OutboxAssumption ==
    /\ BatchSize \in Nat \ {0}
    /\ MaxFaults \in Nat

VARIABLES
    rows,      \* published_at of each row, if the row exists
    due,       \* rows whose available_at has passed
    stream,    \* events the bus has stored
    phase,     \* the life of each replica's runtime
    bus,       \* its connection to the bus
    canceled,  \* whether its runCtx is canceled
    dispatch,  \* where its dispatching goroutine is
    batch,     \* the rows RunOnce has claimed and not yet handled
    acked,     \* the one of them that is published and not yet marked
    clean,     \* where its cleaning goroutine is
    faults

runtimeVars == <<phase, bus, canceled, dispatch, batch, acked, clean>>
outboxVars == <<rows, due, stream, runtimeVars, faults>>

Fault == faults < MaxFaults /\ faults' = faults + 1
NoFault == UNCHANGED faults

-----------------------------------------------------------------------------
OutboxInit ==
    /\ rows = [e \in Events |-> "none"]
    /\ due = {}
    /\ stream = {}
    /\ phase = [r \in Replicas |-> "down"]
    /\ bus = [r \in Replicas |-> "none"]
    /\ canceled = [r \in Replicas |-> FALSE]
    /\ dispatch = [r \in Replicas |-> "off"]
    /\ batch = [r \in Replicas |-> {}]
    /\ acked = [r \in Replicas |-> {}]
    /\ clean = [r \in Replicas |-> "off"]
    /\ faults = 0

\* A transaction of the catalog or of ingestion commits an outbox row; its
\* available_at is the time of the request.
CommitRow(e) ==
    /\ rows[e] = "none"
    /\ rows' = [rows EXCEPT ![e] = "pending"]
    /\ due' = due \cup {e}
    /\ NoFault
    /\ UNCHANGED <<stream, runtimeVars>>

\* The lease or the retry delay of a row has passed.
Reappear(e) ==
    /\ rows[e] = "pending" /\ e \notin due
    /\ due' = due \cup {e}
    /\ NoFault
    /\ UNCHANGED <<rows, stream, runtimeVars>>

-----------------------------------------------------------------------------
\* start: the bus first, ...
OpenBus(r) ==
    /\ phase[r] = "down"
    /\ \/ /\ NoFault
          /\ phase' = [phase EXCEPT ![r] = "starting"]
          /\ bus' = [bus EXCEPT ![r] = "open"]
       \/ Fault /\ phase' = [phase EXCEPT ![r] = "failed"] /\ UNCHANGED bus
    /\ UNCHANGED <<rows, due, stream, canceled, dispatch, batch, acked, clean>>

\* ... then the dispatcher, the cleaner and their goroutines, or the bus is
\* closed again because one of the two is refused.
StartLoops(r) ==
    /\ phase[r] = "starting"
    /\ \/ /\ NoFault
          /\ phase' = [phase EXCEPT ![r] = "up"]
          /\ dispatch' = [dispatch EXCEPT ![r] = "run"]
          /\ clean' = [clean EXCEPT ![r] = "run"]
          /\ UNCHANGED bus
       \/ /\ Fault
          /\ phase' = [phase EXCEPT ![r] = "failed"]
          /\ bus' = [bus EXCEPT ![r] = "closed"]
          /\ UNCHANGED <<dispatch, clean>>
    /\ UNCHANGED <<rows, due, stream, canceled, batch, acked>>

\* stop: cancel both goroutines ...
Cancel(r) ==
    /\ phase[r] = "up"
    /\ Fault
    /\ phase' = [phase EXCEPT ![r] = "stopping"]
    /\ canceled' = [canceled EXCEPT ![r] = TRUE]
    /\ UNCHANGED <<rows, due, stream, bus, dispatch, batch, acked, clean>>

\* ... wait for them, and close the bus.
CloseUnawaited(r) ==
    /\ phase[r] = "stopping"
    /\ phase' = [phase EXCEPT ![r] = "stopped"]
    /\ bus' = [bus EXCEPT ![r] = "closed"]
    /\ NoFault
    /\ UNCHANGED <<rows, due, stream, canceled, dispatch, batch, acked, clean>>

Close(r) ==
    /\ phase[r] = "stopping"
    /\ dispatch[r] = "off" /\ clean[r] = "off"
    /\ phase' = [phase EXCEPT ![r] = "stopped"]
    /\ bus' = [bus EXCEPT ![r] = "closed"]
    /\ NoFault
    /\ UNCHANGED <<rows, due, stream, canceled, dispatch, batch, acked, clean>>

\* The process dies, or ends after a stop or a failed start; another one takes
\* its place.  Claimed rows come back when their lease has passed.
Replaced(r) ==
    /\ phase' = [phase EXCEPT ![r] = "down"]
    /\ bus' = [bus EXCEPT ![r] = "none"]
    /\ canceled' = [canceled EXCEPT ![r] = FALSE]
    /\ dispatch' = [dispatch EXCEPT ![r] = "off"]
    /\ batch' = [batch EXCEPT ![r] = {}]
    /\ acked' = [acked EXCEPT ![r] = {}]
    /\ clean' = [clean EXCEPT ![r] = "off"]
    /\ UNCHANGED <<rows, due, stream>>

CrashReplica(r) == phase[r] \in {"starting", "up", "stopping"} /\ Fault /\ Replaced(r)
Restart(r) == phase[r] \in {"failed", "stopped"} /\ NoFault /\ Replaced(r)

-----------------------------------------------------------------------------
Pending == {e \in due : rows[e] = "pending"}

\* RunOnce of the dispatcher claims rows that are due, ...
Claim(r) ==
    /\ dispatch[r] = "run" /\ ~canceled[r]
    /\ \E claimed \in SUBSET Pending :
         /\ Cardinality(claimed) \in 1..BatchSize
         /\ batch' = [batch EXCEPT ![r] = claimed]
         /\ due' = due \ claimed
    /\ dispatch' = [dispatch EXCEPT ![r] = "publish"]
    /\ NoFault
    /\ UNCHANGED <<rows, stream, phase, bus, canceled, acked, clean>>

\* ... publishes them one by one; when that fails the row waits for its retry
\* delay, although the bus may have stored the event and lost only its answer, ...
PublishUnchecked(r, e) ==
    /\ dispatch[r] = "publish" /\ e \in batch[r] /\ acked[r] = {} /\ ~canceled[r]
    /\ acked' = [acked EXCEPT ![r] = {e}]
    /\ \/ NoFault /\ stream' = stream \cup {e}
       \/ Fault /\ UNCHANGED stream
    /\ UNCHANGED <<rows, due, phase, bus, canceled, dispatch, batch, clean>>

Publish(r, e) ==
    /\ dispatch[r] = "publish" /\ e \in batch[r] /\ acked[r] = {} /\ ~canceled[r]
    /\ \/ /\ NoFault
          /\ stream' = stream \cup {e}
          /\ acked' = [acked EXCEPT ![r] = {e}]
          /\ UNCHANGED batch
       \/ /\ Fault
          /\ stream' \in {stream, stream \cup {e}}
          /\ batch' = [batch EXCEPT ![r] = @ \ {e}]
          /\ UNCHANGED acked
    /\ UNCHANGED <<rows, due, phase, bus, canceled, dispatch, clean>>

\* ... and sets published_at.
Mark(r) ==
    /\ acked[r] # {} /\ ~canceled[r]
    /\ rows' = [e \in Events |-> IF e \in acked[r] /\ rows[e] = "pending"
                                 THEN "published" ELSE rows[e]]
    /\ batch' = [batch EXCEPT ![r] = @ \ acked[r]]
    /\ acked' = [acked EXCEPT ![r] = {}]
    /\ NoFault
    /\ UNCHANGED <<due, stream, phase, bus, canceled, dispatch, clean>>

\* RunOnce returns: nothing left to do, a canceled context or an error.
EndOfRun(r) ==
    /\ \/ canceled[r] /\ NoFault
       \/ dispatch[r] = "run" /\ Pending = {} /\ NoFault
       \/ dispatch[r] = "publish" /\ batch[r] = {} /\ NoFault
       \/ ~canceled[r] /\ Fault
    /\ batch' = [batch EXCEPT ![r] = {}]
    /\ acked' = [acked EXCEPT ![r] = {}]
    /\ UNCHANGED <<rows, due, stream, phase, bus, canceled, clean>>

ReturnOnError(r) ==
    /\ dispatch[r] \in {"run", "publish"}
    /\ EndOfRun(r)
    /\ dispatch' = [dispatch EXCEPT ![r] = IF faults' # faults THEN "off" ELSE "wait"]

RunDispatcher(r) ==
    /\ dispatch[r] \in {"run", "publish"}
    /\ EndOfRun(r)
    /\ dispatch' = [dispatch EXCEPT ![r] = "wait"]

\* The select of each loop: the ticker, or the end of runCtx.  When both are
\* ready either may be chosen.
DispatchAgain(r) ==
    /\ dispatch[r] = "wait"
    /\ dispatch' = [dispatch EXCEPT ![r] = "run"]
    /\ NoFault
    /\ UNCHANGED <<rows, due, stream, phase, bus, canceled, batch, acked, clean>>

EndDispatch(r) ==
    /\ dispatch[r] = "wait" /\ canceled[r]
    /\ dispatch' = [dispatch EXCEPT ![r] = "off"]
    /\ NoFault
    /\ UNCHANGED <<rows, due, stream, phase, bus, canceled, batch, acked, clean>>

\* RunOnce of the cleaner: rows published longer ago than the retention.
Published == {e \in Events : rows[e] = "published"}

RunCleaner(r) ==
    /\ clean[r] = "run"
    /\ \E old \in IF canceled[r] THEN {{}} ELSE SUBSET Published :
         rows' = [e \in Events |-> IF e \in old THEN "deleted" ELSE rows[e]]
    /\ clean' = [clean EXCEPT ![r] = "wait"]
    /\ NoFault
    /\ UNCHANGED <<due, stream, phase, bus, canceled, dispatch, batch, acked>>

CleanAgain(r) ==
    /\ clean[r] = "wait"
    /\ clean' = [clean EXCEPT ![r] = "run"]
    /\ NoFault
    /\ UNCHANGED <<rows, due, stream, phase, bus, canceled, dispatch, batch, acked>>

CleanerKeepsOn(r) == FALSE /\ UNCHANGED outboxVars

EndClean(r) ==
    /\ clean[r] = "wait" /\ canceled[r]
    /\ clean' = [clean EXCEPT ![r] = "off"]
    /\ NoFault
    /\ UNCHANGED <<rows, due, stream, phase, bus, canceled, dispatch, batch, acked>>

-----------------------------------------------------------------------------
DispatchStep(r) ==
    Claim(r) \/ (\E e \in Events : Publish(r, e)) \/ Mark(r) \/ RunDispatcher(r)
CleanStep(r) == RunCleaner(r) \/ CleanAgain(r)
LifeStep(r) == OpenBus(r) \/ StartLoops(r) \/ Close(r) \/ Restart(r)

OutboxNext ==
    \/ \E e \in Events : CommitRow(e) \/ Reappear(e)
    \/ \E r \in Replicas :
         \/ LifeStep(r) \/ Cancel(r) \/ CrashReplica(r)
         \/ DispatchStep(r) \/ DispatchAgain(r) \/ EndDispatch(r)
         \/ CleanStep(r) \/ EndClean(r)

OutboxSpec == OutboxInit /\ [][OutboxNext]_outboxVars

\* Goroutines are scheduled, tickers tick, leases end, and a replica that ends
\* is started again by its deployment.  A select that is reached again and again
\* with its context canceled takes that case at some time.
FairOutboxSpec ==
    /\ OutboxSpec
    /\ \A e \in Events : WF_outboxVars(Reappear(e))
    /\ \A r \in Replicas :
         /\ WF_outboxVars(LifeStep(r)) /\ WF_outboxVars(DispatchStep(r))
         /\ WF_outboxVars(DispatchAgain(r)) /\ WF_outboxVars(RunCleaner(r))
         /\ SF_outboxVars(EndDispatch(r)) /\ SF_outboxVars(EndClean(r))
-----------------------------------------------------------------------------
\* A row counts as published, or is deleted, only when the bus has its event:
\* crashes, stops and lost answers at any point lose no committed event.
NothingLost == \A e \in Events : rows[e] \in {"published", "deleted"} => e \in stream

\* The goroutines run on an open bus, which stop closes only after both have
\* returned; a replica that failed to start or has stopped holds no connection
\* and runs nothing (metering_eventbus.go:46-63, 97-105).
LoopsHaveBus ==
    \A r \in Replicas :
        /\ dispatch[r] # "off" \/ clean[r] # "off" => bus[r] = "open"
        /\ phase[r] \in {"down", "failed", "stopped"} => bus[r] # "open" /\ batch[r] = {}

\* Every committed event reaches the bus, whichever replicas stop or crash in
\* the middle of a batch.
EventsPublished == \A e \in Events : rows[e] = "pending" ~> e \in stream

\* stop returns, or the process dies: cancellation reaches both goroutines
\* wherever they are.
StopReturns == \A r \in Replicas : phase[r] = "stopping" ~> phase[r] # "stopping"
=============================================================================
