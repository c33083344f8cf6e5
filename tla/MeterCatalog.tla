---------------------------- MODULE MeterCatalog ----------------------------
(***************************************************************************)
(* The meter catalog: the `meters` table, the CreateMeter and UpdateMeter  *)
(* operations of internal/metering/service.go, and the meter.changed rows  *)
(* they write to the transactional outbox.                                 *)
(*                                                                         *)
(* A call is one execution of CreateMeter or UpdateMeter.  It runs as the  *)
(* code does: validation, a read of the row outside any transaction        *)
(* (UpdateMeter only), then a transaction of two statements (the row and   *)
(* its event) and a commit.  Tables hold committed rows; what an open      *)
(* transaction has written is determined by the call's input and by what   *)
(* it has read.  A call's own name stands for the uuid it draws and for    *)
(* the name and description it writes.                                     *)
(***************************************************************************)
EXTENDS Naturals, FiniteSets

CONSTANTS
    Calls,       \* executions of CreateMeter and UpdateMeter
    Codes,       \* meter codes that pass codePattern
    MaxExpected, \* bound on the version a client of UpdateMeter may send
    Seeded,      \* the calls that finished before the modelled period
    Faults       \* whether statements, commits and processes may fail

ASSUME CatalogAssumption ==
    /\ MaxExpected \in Nat
    /\ Seeded \subseteq Calls
    /\ Faults \in BOOLEAN

Statuses == {"active", "disabled", "archived"}

\* What clients send.  A version below 1 is one of the inputs the code
\* rejects; the other malformed inputs are the choice made in RejectCall.
CreateInput == [op : {"create"}, code : Codes]
UpdateInput == [op : {"update"}, id : Calls, status : Statuses,
                expected : 0..MaxExpected]
CallInput == CreateInput \cup UpdateInput

Meter == [id : Calls, code : Codes, name : Calls, status : Statuses,
          version : Nat]
MeterEvent == [meter : Meter, change : {"created", "updated"}]

CallPcs == {"idle", "get", "write", "event", "commit", "done"}
CallReplies == {"none", "ok", "invalid", "notfound", "conflict", "internal"}

VARIABLES
    meters,      \* committed rows of the meters table
    meterEvents, \* committed outbox rows with subject meter.changed
    input,       \* the input of each call, fixed from the start
    cpc,         \* where each call is
    cread,       \* the row UpdateMeter read before its transaction, if any
    creply       \* what the caller was told

catalogVars == <<meters, meterEvents, input, cpc, cread, creply>>

-----------------------------------------------------------------------------
\* The Meter value a call builds, returns and puts in its event: CreateMeter
\* builds it from its input, UpdateMeter from the row it read earlier.
NewMeter(c) ==
    [id |-> c, code |-> input[c].code, name |-> c, status |-> "active",
     version |-> 1]

VersionFromRead(c, m) ==
    [id |-> m.id, code |-> m.code, name |-> c, status |-> input[c].status,
     version |-> m.version + 1]

UpdatedMeter(c, m) ==
    [id |-> m.id, code |-> m.code, name |-> c, status |-> input[c].status,
     version |-> input[c].expected + 1]

\* The row as the UPDATE statement leaves it: it keeps what the statement does
\* not name, and increments the version the table holds.
UpdatedRow(c, m) ==
    [id |-> m.id, code |-> m.code, name |-> c, status |-> input[c].status,
     version |-> m.version + 1]

Finish(c, answer) ==
    /\ cpc' = [cpc EXCEPT ![c] = "done"]
    /\ creply' = [creply EXCEPT ![c] = answer]

Goto(c, next) ==
    /\ cpc' = [cpc EXCEPT ![c] = next]
    /\ UNCHANGED creply

-----------------------------------------------------------------------------
\* Locks.  A transaction keeps the row it updated, or the unique-index entry
\* it inserted, until it commits or rolls back.
LeakedCallTx(c) ==
    cpc[c] \in {"event", "commit"} \/ creply[c] = "internal"

InCallTx(c) == cpc[c] \in {"event", "commit"}

CodeReserved(c) ==
    \E d \in Calls \ {c} :
        InCallTx(d) /\ input[d].op = "create" /\ input[d].code = input[c].code

RowLocked(c) ==
    \E d \in Calls \ {c} :
        InCallTx(d) /\ input[d].op = "update" /\ input[d].id = input[c].id

CodeTaken(code) == \E m \in meters : m.code = code

\* The row the statement's WHERE id=? AND version=? selects, as a set.
RowsById(c) == {m \in meters : m.id = input[c].id}

RowsMatching(c) ==
    {m \in meters : m.id = input[c].id /\ m.version = input[c].expected}

-----------------------------------------------------------------------------
CatalogInit ==
    /\ input \in [Calls -> CallInput]
    /\ \A c, d \in Seeded :
         /\ input[c] \in CreateInput
         /\ c # d => input[c].code # input[d].code
    /\ cpc = [c \in Calls |-> IF c \in Seeded THEN "done" ELSE "idle"]
    /\ creply = [c \in Calls |-> IF c \in Seeded THEN "ok" ELSE "none"]
    /\ meters = {NewMeter(c) : c \in Seeded}
    /\ meterEvents = {[meter |-> NewMeter(c), change |-> "created"] : c \in Seeded}
    /\ cread = [c \in Calls |-> {}]

\* No principal, or an input the code refuses.
RejectCall(c) ==
    /\ cpc[c] = "idle"
    /\ Finish(c, "invalid")
    /\ UNCHANGED <<meters, meterEvents, input, cread>>

StartCreate(c) ==
    /\ cpc[c] = "idle" /\ input[c].op = "create"
    /\ Goto(c, "write")
    /\ UNCHANGED <<meters, meterEvents, input, cread>>

StartUpdate(c) ==
    /\ cpc[c] = "idle" /\ input[c].op = "update"
    /\ input[c].expected >= 1
    /\ Goto(c, "get")
    /\ UNCHANGED <<meters, meterEvents, input, cread>>

\* GetMeter, outside any transaction: the row may change before it is used.
ReadMeter(c) ==
    /\ cpc[c] = "get"
    /\ IF RowsById(c) = {} THEN Finish(c, "notfound") /\ UNCHANGED cread
                           ELSE /\ cread' = [cread EXCEPT ![c] = RowsById(c)]
                                /\ Goto(c, "write")
    /\ UNCHANGED <<meters, meterEvents, input>>

\* The INSERT of CreateMeter.  It waits for a concurrent insert of the same
\* code; a duplicate code is a driver error, which translate does not know.
InsertMeter(c) ==
    /\ cpc[c] = "write" /\ input[c].op = "create"
    /\ ~CodeReserved(c)
    /\ IF CodeTaken(input[c].code) THEN Finish(c, "internal")
                                   ELSE Goto(c, "event")
    /\ UNCHANGED <<meters, meterEvents, input, cread>>

StaleUpdateAccepted(c) ==
    /\ cpc[c] = "write" /\ input[c].op = "update"
    /\ \/ RowsMatching(c) = {} /\ Finish(c, "ok")
       \/ RowsMatching(c) # {} /\ ~RowLocked(c) /\ Goto(c, "event")
    /\ UNCHANGED <<meters, meterEvents, input, cread>>

\* The UPDATE of UpdateMeter.  It waits for the row's lock and evaluates its
\* WHERE clause on the latest committed row; no row means a stale version.
UpdateRow(c) ==
    /\ cpc[c] = "write" /\ input[c].op = "update"
    /\ \/ RowsMatching(c) = {} /\ Finish(c, "conflict")
       \/ RowsMatching(c) # {} /\ ~RowLocked(c) /\ Goto(c, "event")
    /\ UNCHANGED <<meters, meterEvents, input, cread>>

\* addEvent: the outbox row of the same transaction.
AddMeterEvent(c) ==
    /\ cpc[c] = "event"
    /\ Goto(c, "commit")
    /\ UNCHANGED <<meters, meterEvents, input, cread>>

\* What a commit makes visible.
ApplyCall(c) ==
    IF input[c].op = "create"
    THEN /\ meters' = meters \cup {NewMeter(c)}
         /\ meterEvents' = meterEvents \cup
              {[meter |-> NewMeter(c), change |-> "created"]}
    ELSE /\ meters' = (meters \ RowsMatching(c)) \cup
              {UpdatedRow(c, m) : m \in RowsMatching(c)}
         /\ meterEvents' = meterEvents \cup
              {[meter |-> UpdatedMeter(c, m), change |-> "updated"] : m \in cread[c]}

CommitCall(c) ==
    /\ cpc[c] = "commit"
    /\ ApplyCall(c)
    /\ Finish(c, "ok")
    /\ UNCHANGED <<input, cread>>

\* The commit took effect but its answer was lost: Within returns an error.
CommitCallUnacknowledged(c) ==
    /\ Faults
    /\ cpc[c] = "commit"
    /\ ApplyCall(c)
    /\ Finish(c, "internal")
    /\ UNCHANGED <<input, cread>>

\* A statement, the commit or the process fails, or the request's deadline
\* passes: the database discards the open transaction.
AbortCall(c) ==
    /\ Faults
    /\ cpc[c] \notin {"idle", "done"}
    /\ Finish(c, "internal")
    /\ UNCHANGED <<meters, meterEvents, input, cread>>

CallStep(c) ==
    \/ ReadMeter(c) \/ InsertMeter(c) \/ UpdateRow(c) \/ AddMeterEvent(c)
    \/ CommitCall(c)

CatalogNext ==
    \E c \in Calls :
        \/ RejectCall(c) \/ StartCreate(c) \/ StartUpdate(c)
        \/ CallStep(c)
        \/ CommitCallUnacknowledged(c) \/ AbortCall(c)

CatalogSpec == CatalogInit /\ [][CatalogNext]_catalogVars

\* A started call is a goroutine that the runtime keeps scheduling, and the
\* database serves a statement whose lock is free.
FairCatalogSpec == CatalogSpec /\ \A c \in Calls : WF_catalogVars(CallStep(c))
-----------------------------------------------------------------------------
\* Type invariant of the catalog's state.
CatalogTypeOK ==
    /\ meters \subseteq Meter
    /\ meterEvents \subseteq MeterEvent
    /\ input \in [Calls -> CallInput]
    /\ cpc \in [Calls -> CallPcs]
    /\ cread \in [Calls -> SUBSET Meter]
    /\ creply \in [Calls -> CallReplies]

\* The meter.changed events are the history of the table: every meter has
\* exactly one event per version from 1 to the row's version, the last one
\* carries the row as it is, and no event tells of a row that does not exist.
\* This is what a consumer of the outbox relies on, although UpdateMeter fills
\* the event from a row it read before its transaction (service.go:78-88).
HistoryMatchesRows ==
    /\ \A m \in meters :
         /\ \E e \in meterEvents : e.meter = m
         /\ \A v \in 1..m.version : \E e \in meterEvents :
              e.meter.id = m.id /\ e.meter.version = v
    /\ \A e, f \in meterEvents :
         e.meter.id = f.meter.id /\ e.meter.version = f.meter.version => e = f
    /\ \A e \in meterEvents : \E m \in meters :
         /\ m.id = e.meter.id /\ m.code = e.meter.code
         /\ e.meter.version \in 1..m.version

\* Two concurrent CreateMeter calls never leave two meters with one code, so
\* a code names one meter for ingestion (GetMeter by code, service.go:150).
CodesUnique == \A m, n \in meters : m.code = n.code => m = n

\* What a caller is told about its own change: "ok" means the change is in the
\* catalog's history, and a definite refusal (invalid, not found, conflict)
\* means it is not and never will be.  Only "internal" leaves it open.
AnswersTruthful ==
    \A c \in Calls :
        /\ creply[c] = "ok" => \E e \in meterEvents : e.meter.name = c
        /\ creply[c] \in {"invalid", "notfound", "conflict"} =>
               \A e \in meterEvents : e.meter.name # c

\* A step never removes a meter or changes its code; it changes a row only by
\* one version, to what that version's new event says, and takes back no event.
OneVersion ==
    /\ \A m \in meters : \E n \in meters' :
         /\ n.id = m.id /\ n.code = m.code
         /\ \/ n = m
            \/ /\ n.version = m.version + 1
               /\ \E e \in meterEvents' \ meterEvents : e.meter = n
    /\ meterEvents \subseteq meterEvents'

\* Optimistic locking (repository.go:49-59): every step of the catalog obeys
\* OneVersion, so no update overwrites one it has not seen.
OneVersionPerStep == [][OneVersion]_catalogVars

\* Every accepted call is answered: row locks are always released, so nobody
\* waits for a call that has already returned.
CallsAnswered == \A c \in Calls : cpc[c] # "idle" ~> cpc[c] = "done"
=============================================================================
