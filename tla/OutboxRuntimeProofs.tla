------------------------ MODULE OutboxRuntimeProofs ------------------------
(***************************************************************************)
(* Proofs of the safety properties of OutboxRuntime for any sets of        *)
(* replicas and events, any batch size and any number of faults.           *)
(***************************************************************************)
EXTENDS OutboxRuntime, TLAPS

\* The state of the table, the bus and every replica's runtime.
OutboxTypeOK ==
    /\ rows \in [Events -> {"none", "pending", "published", "deleted"}]
    /\ due \subseteq Events
    /\ stream \subseteq Events
    /\ phase \in [Replicas -> {"down", "starting", "up", "stopping", "failed", "stopped"}]
    /\ bus \in [Replicas -> {"none", "open", "closed"}]
    /\ canceled \in [Replicas -> BOOLEAN]
    /\ dispatch \in [Replicas -> {"off", "run", "publish", "wait"}]
    /\ batch \in [Replicas -> SUBSET Events]
    /\ acked \in [Replicas -> SUBSET Events]
    /\ clean \in [Replicas -> {"off", "run", "wait"}]
    /\ faults \in 0..MaxFaults

\* What a dispatcher may mark has reached the bus: the row it holds between the
\* answer of the bus and the update of published_at.
AckedStored == \A r \in Replicas : acked[r] \subseteq stream

\* Rows are in hand only in the middle of RunOnce.
InHand == \A r \in Replicas : dispatch[r] # "publish" => batch[r] = {} /\ acked[r] = {}

\* The bus is open from start to the end of stop, ...
BusOpen == \A r \in Replicas : bus[r] = "open" <=> phase[r] \in {"starting", "up", "stopping"}

\* ... the goroutines live between the two.
LoopsLive ==
    \A r \in Replicas :
        dispatch[r] # "off" \/ clean[r] # "off" => phase[r] \in {"up", "stopping"}

OutboxInv ==
    /\ OutboxTypeOK /\ NothingLost
    /\ AckedStored /\ InHand /\ BusOpen /\ LoopsLive

-----------------------------------------------------------------------------
\* The steps of a replica's life, of start, stop and crashes.
LEMMA LifeKeeps ==
    ASSUME OutboxInv, NEW r \in Replicas, LifeStep(r) \/ Cancel(r) \/ CrashReplica(r)
    PROVE  OutboxInv'
<1> USE OutboxAssumption DEF OutboxInv, Fault, NoFault
<1>1. CASE OpenBus(r)
  <2>1. OutboxTypeOK'
    BY <1>1 DEF OpenBus, OutboxTypeOK
  <2> QED BY <1>1, <2>1 DEF OpenBus, OutboxTypeOK, NothingLost, AckedStored, InHand, BusOpen, LoopsLive
<1>2. CASE StartLoops(r)
  <2>1. OutboxTypeOK'
    BY <1>2 DEF StartLoops, OutboxTypeOK
  <2> QED BY <1>2, <2>1 DEF StartLoops, OutboxTypeOK, NothingLost, AckedStored, InHand, BusOpen, LoopsLive
<1>3. CASE Cancel(r)
  <2>1. canceled' \in [Replicas -> BOOLEAN]
    BY <1>3, Zenon DEF Cancel, OutboxTypeOK
  <2>2. OutboxTypeOK'
    BY <1>3, <2>1 DEF Cancel, OutboxTypeOK
  <2> QED BY <1>3, <2>2 DEF Cancel, OutboxTypeOK, NothingLost, AckedStored, InHand, BusOpen, LoopsLive
<1>4. CASE Close(r)
  <2>1. OutboxTypeOK'
    BY <1>4 DEF Close, OutboxTypeOK
  <2> QED BY <1>4, <2>1 DEF Close, OutboxTypeOK, NothingLost, AckedStored, InHand, BusOpen, LoopsLive
<1>5. CASE Restart(r) \/ CrashReplica(r)
  <2>1. Replaced(r) /\ faults' \in 0..MaxFaults
    BY <1>5 DEF Restart, CrashReplica, OutboxTypeOK
  <2>2. canceled' \in [Replicas -> BOOLEAN]
    BY <2>1, Zenon DEF Replaced, OutboxTypeOK
  <2>3. OutboxTypeOK'
    BY <2>1, <2>2 DEF Replaced, OutboxTypeOK
  <2> QED BY <2>1, <2>3 DEF Replaced, OutboxTypeOK, NothingLost, AckedStored, InHand, BusOpen, LoopsLive
<1> QED BY <1>1, <1>2, <1>3, <1>4, <1>5 DEF LifeStep

\* The steps of RunOnce and of the two selects.
LEMMA LoopKeeps ==
    ASSUME OutboxInv, NEW r \in Replicas,
           \/ DispatchStep(r) \/ DispatchAgain(r) \/ EndDispatch(r)
           \/ CleanStep(r) \/ EndClean(r)
    PROVE  OutboxInv'
<1> USE OutboxAssumption DEF OutboxInv, Fault, NoFault
<1>1. CASE Claim(r)
  <2>1. PICK claimed \in SUBSET Pending :
          batch' = [batch EXCEPT ![r] = claimed] /\ due' = due \ claimed
    BY <1>1 DEF Claim
  <2>2. OutboxTypeOK'
    BY <1>1, <2>1 DEF Claim, OutboxTypeOK, Pending
  <2> QED BY <1>1, <2>1, <2>2 DEF Claim, OutboxTypeOK, NothingLost, AckedStored, InHand, BusOpen, LoopsLive
<1>2. ASSUME NEW e \in Events, Publish(r, e) PROVE OutboxInv'
  <2>1. stream' \in {stream, stream \cup {e}}
    BY <1>2 DEF Publish
  <2>2. OutboxTypeOK'
    BY <1>2, <2>1 DEF Publish, OutboxTypeOK
  <2>3. AckedStored'
    BY <1>2, <2>1 DEF Publish, OutboxTypeOK, AckedStored
  <2>4. InHand'
    BY <1>2 DEF Publish, OutboxTypeOK, InHand
  <2> QED BY <1>2, <2>1, <2>2, <2>3, <2>4 DEF Publish, OutboxTypeOK, NothingLost, BusOpen, LoopsLive
<1>3. CASE Mark(r)
  <2>1. OutboxTypeOK'
    BY <1>3 DEF Mark, OutboxTypeOK
  <2>2. NothingLost'
    BY <1>3 DEF Mark, OutboxTypeOK, NothingLost, AckedStored
  <2> QED BY <1>3, <2>1, <2>2 DEF Mark, OutboxTypeOK, AckedStored, InHand, BusOpen, LoopsLive
<1>4. CASE RunDispatcher(r)
  <2>1. faults' \in 0..MaxFaults
    BY <1>4 DEF RunDispatcher, EndOfRun, OutboxTypeOK
  <2>2. OutboxTypeOK'
    BY <1>4, <2>1 DEF RunDispatcher, EndOfRun, OutboxTypeOK
  <2> QED BY <1>4, <2>2 DEF RunDispatcher, EndOfRun, OutboxTypeOK, NothingLost, AckedStored, InHand, BusOpen, LoopsLive
<1>5. CASE DispatchAgain(r) \/ EndDispatch(r)
  <2>1. OutboxTypeOK'
    BY <1>5 DEF DispatchAgain, EndDispatch, OutboxTypeOK
  <2> QED BY <1>5, <2>1 DEF DispatchAgain, EndDispatch, OutboxTypeOK, NothingLost, AckedStored, InHand, BusOpen, LoopsLive
<1>6. CASE RunCleaner(r)
  <2>1. PICK old \in SUBSET Published :
          rows' = [e \in Events |-> IF e \in old THEN "deleted" ELSE rows[e]]
    BY <1>6 DEF RunCleaner
  <2>2. OutboxTypeOK'
    BY <1>6, <2>1 DEF RunCleaner, OutboxTypeOK
  <2>3. NothingLost'
    BY <1>6, <2>1 DEF RunCleaner, OutboxTypeOK, NothingLost, Published
  <2> QED BY <1>6, <2>2, <2>3 DEF RunCleaner, OutboxTypeOK, AckedStored, InHand, BusOpen, LoopsLive
<1>7. CASE CleanAgain(r) \/ EndClean(r)
  <2>1. OutboxTypeOK'
    BY <1>7 DEF CleanAgain, EndClean, OutboxTypeOK
  <2> QED BY <1>7, <2>1 DEF CleanAgain, EndClean, OutboxTypeOK, NothingLost, AckedStored, InHand, BusOpen, LoopsLive
<1> QED BY <1>1, <1>2, <1>3, <1>4, <1>5, <1>6, <1>7 DEF DispatchStep, CleanStep

LEMMA OutboxStep == OutboxInv /\ [OutboxNext]_outboxVars => OutboxInv'
<1> SUFFICES ASSUME OutboxInv, [OutboxNext]_outboxVars PROVE OutboxInv'
  OBVIOUS
<1> USE DEF OutboxInv
<1>1. ASSUME NEW e \in Events, CommitRow(e) \/ Reappear(e) PROVE OutboxInv'
  <2>1. OutboxTypeOK'
    BY <1>1 DEF CommitRow, Reappear, NoFault, runtimeVars, OutboxTypeOK
  <2> QED BY <1>1, <2>1 DEF CommitRow, Reappear, runtimeVars, OutboxTypeOK,
        NothingLost, AckedStored, InHand, BusOpen, LoopsLive
<1>2. CASE UNCHANGED outboxVars
  BY <1>2 DEF outboxVars, runtimeVars, OutboxTypeOK, NothingLost, AckedStored, InHand,
        BusOpen, LoopsLive
<1> QED BY <1>1, <1>2, LifeKeeps, LoopKeeps DEF OutboxNext

LEMMA OutboxStart == OutboxInit => OutboxInv
BY OutboxAssumption DEF OutboxInit, OutboxInv, OutboxTypeOK, NothingLost, AckedStored,
    InHand, BusOpen, LoopsLive

-----------------------------------------------------------------------------
\* Whatever replicas do, the table, the bus and the runtimes keep their types.
THEOREM OutboxTyped == OutboxSpec => []OutboxTypeOK
<1>1. OutboxInv => OutboxTypeOK
  BY DEF OutboxInv
<1> QED BY <1>1, OutboxStart, OutboxStep, PTL DEF OutboxSpec

\* For any replicas, events and batch size, a row is marked published or deleted
\* only when the bus stores its event: a dispatcher that crashes, is stopped or
\* loses an answer between publishing and marking loses no committed event
\* (metering_eventbus.go:65-96).
THEOREM NothingIsLost == OutboxSpec => []NothingLost
<1>1. OutboxInv => NothingLost
  BY DEF OutboxInv
<1> QED BY <1>1, OutboxStart, OutboxStep, PTL DEF OutboxSpec

\* The goroutines of any replica run on an open bus, and a replica that failed
\* to start, has stopped or was replaced holds neither connection nor rows
\* (metering_eventbus.go:46-63, 97-105).
THEOREM LoopsRunOnBus == OutboxSpec => []LoopsHaveBus
<1>1. OutboxInv => LoopsHaveBus
  BY DEF OutboxInv, OutboxTypeOK, InHand, BusOpen, LoopsLive, LoopsHaveBus
<1> QED BY <1>1, OutboxStart, OutboxStep, PTL DEF OutboxSpec
=============================================================================
