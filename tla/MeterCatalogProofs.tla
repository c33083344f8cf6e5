------------------------ MODULE MeterCatalogProofs ------------------------
(***************************************************************************)
(* Proofs about MeterCatalog, for any number of calls, codes and versions. *)
(***************************************************************************)
EXTENDS MeterCatalog, TLAPS

\* A call's event, written from the row it read, is the row its UPDATE leaves.
ReadsAreCurrent ==
    \A c \in Calls :
        /\ \A m \in cread[c] : \E n \in meters :
             m.id = input[c].id /\ n.id = m.id /\ n.code = m.code
        /\ \A m, n \in cread[c] : m = n
        /\ InCallTx(c) \/ cpc[c] = "write" =>
             (input[c].op = "update" => cread[c] # {})
        /\ cpc[c] = "get" => input[c].op = "update"

\* What the locks of an open transaction keep from others.
LocksHold ==
    \A c \in Calls : InCallTx(c) =>
        /\ input[c].op = "create" => ~CodeTaken(input[c].code) /\ ~CodeReserved(c)
        /\ input[c].op = "update" => RowsMatching(c) # {} /\ ~RowLocked(c)

IdsUnique == \A m, n \in meters : m.id = n.id => m = n

\* A call that has not finished has left nothing behind.
NothingBeforeCommit ==
    /\ \A m \in meters : cpc[m.id] = "done"
    /\ \A e \in meterEvents : cpc[e.meter.name] = "done"
    /\ \A c \in Calls : cpc[c] = "done" <=> creply[c] # "none"

\* The inductive invariant.
CatalogInv ==
    /\ CatalogTypeOK
    /\ IdsUnique
    /\ CodesUnique
    /\ HistoryMatchesRows
    /\ ReadsAreCurrent
    /\ LocksHold
    /\ NothingBeforeCommit
    /\ AnswersTruthful
-----------------------------------------------------------------------------
LEMMA InputShape ==
    ASSUME NEW x \in CallInput
    PROVE  \/ x.op = "create" /\ x \in CreateInput /\ x.code \in Codes
           \/ /\ x.op = "update" /\ x \in UpdateInput /\ x.id \in Calls
              /\ x.status \in Statuses /\ x.expected \in Nat
  BY CatalogAssumption DEF CallInput, CreateInput, UpdateInput

\* The three Meter values the code builds are well typed, and the value
\* UpdateMeter announces is the row its UPDATE statement leaves.
LEMMA NewMeterType ==
    ASSUME CatalogTypeOK, NEW c \in Calls, input[c].op = "create"
    PROVE  /\ NewMeter(c) \in Meter
           /\ [meter |-> NewMeter(c), change |-> "created"] \in MeterEvent
  <1>1. input[c].code \in Codes
    BY InputShape DEF CatalogTypeOK
  <1> QED
    BY <1>1 DEF NewMeter, Meter, MeterEvent, Statuses

LEMMA UpdatedMeterType ==
    ASSUME CatalogTypeOK, NEW c \in Calls, input[c].op = "update", NEW m \in Meter
    PROVE  /\ UpdatedMeter(c, m) \in Meter
           /\ UpdatedRow(c, m) \in Meter
           /\ [meter |-> UpdatedMeter(c, m), change |-> "updated"] \in MeterEvent
  <1>1. input[c].status \in Statuses /\ input[c].expected \in Nat
    BY InputShape DEF CatalogTypeOK
  <1> QED
    BY <1>1 DEF UpdatedMeter, UpdatedRow, Meter, MeterEvent

\* The catalog's state keeps its type.
LEMMA TypeInit == CatalogInit => CatalogTypeOK
  <1> SUFFICES ASSUME CatalogInit PROVE CatalogTypeOK
    OBVIOUS
  <1>1. \A c \in Seeded : c \in Calls /\ NewMeter(c) \in Meter
    BY CatalogAssumption DEF CatalogInit, CreateInput, NewMeter, Meter, Statuses
  <1>2. meters \subseteq Meter /\ meterEvents \subseteq MeterEvent
    BY <1>1 DEF CatalogInit, MeterEvent
  <1> QED
    BY <1>2 DEF CatalogInit, CatalogTypeOK, CallPcs, CallReplies

LEMMA TypeStep == CatalogTypeOK /\ [CatalogNext]_catalogVars => CatalogTypeOK'
  <1> SUFFICES ASSUME CatalogTypeOK, [CatalogNext]_catalogVars
               PROVE  CatalogTypeOK'
    OBVIOUS
  <1>1. ASSUME NEW c \in Calls, RejectCall(c) PROVE CatalogTypeOK'
    BY <1>1 DEF CatalogTypeOK, RejectCall, Finish, CallPcs, CallReplies
  <1>2. ASSUME NEW c \in Calls, StartCreate(c) PROVE CatalogTypeOK'
    BY <1>2 DEF CatalogTypeOK, StartCreate, Goto, CallPcs
  <1>3. ASSUME NEW c \in Calls, StartUpdate(c) PROVE CatalogTypeOK'
    BY <1>3 DEF CatalogTypeOK, StartUpdate, Goto, CallPcs
  <1>4. ASSUME NEW c \in Calls, ReadMeter(c) PROVE CatalogTypeOK'
    BY <1>4 DEF CatalogTypeOK, ReadMeter, RowsById, Finish, Goto, CallPcs, CallReplies
  <1>5. ASSUME NEW c \in Calls, InsertMeter(c) PROVE CatalogTypeOK'
    BY <1>5 DEF CatalogTypeOK, InsertMeter, Finish, Goto, CallPcs, CallReplies
  <1>6. ASSUME NEW c \in Calls, UpdateRow(c) PROVE CatalogTypeOK'
    BY <1>6 DEF CatalogTypeOK, UpdateRow, Finish, Goto, CallPcs, CallReplies
  <1>7. ASSUME NEW c \in Calls, AddMeterEvent(c) PROVE CatalogTypeOK'
    BY <1>7 DEF CatalogTypeOK, AddMeterEvent, Goto, CallPcs
  <1>8. ASSUME NEW c \in Calls, ApplyCall(c)
        PROVE  meters' \subseteq Meter /\ meterEvents' \subseteq MeterEvent
    <2>1. CASE input[c].op = "create"
      <3>1. /\ NewMeter(c) \in Meter
            /\ [meter |-> NewMeter(c), change |-> "created"] \in MeterEvent
        BY <2>1, NewMeterType DEF CatalogTypeOK
      <3> QED
        BY <1>8, <2>1, <3>1 DEF ApplyCall, CatalogTypeOK
    <2>2. CASE input[c].op # "create"
      <3>1. input[c].op = "update"
        BY <2>2, InputShape DEF CatalogTypeOK
      <3>2. \A m \in Meter : /\ UpdatedRow(c, m) \in Meter
                            /\ [meter |-> UpdatedMeter(c, m), change |-> "updated"]
                                 \in MeterEvent
        BY <3>1, UpdatedMeterType
      <3>3. RowsMatching(c) \subseteq Meter /\ cread[c] \subseteq Meter
        BY DEF RowsMatching, CatalogTypeOK
      <3>4. meters' = (meters \ RowsMatching(c)) \cup
              {UpdatedRow(c, m) : m \in RowsMatching(c)}
        BY <1>8, <2>2 DEF ApplyCall
      <3>5. meterEvents' = meterEvents \cup
              {[meter |-> UpdatedMeter(c, m), change |-> "updated"] : m \in cread[c]}
        BY <1>8, <2>2 DEF ApplyCall
      <3>6. meters' \subseteq Meter
        BY <3>2, <3>3, <3>4 DEF CatalogTypeOK
      <3>7. meterEvents' \subseteq MeterEvent
        BY <3>2, <3>3, <3>5 DEF CatalogTypeOK
      <3> QED
        BY <3>6, <3>7
    <2> QED
      BY <2>1, <2>2
  <1>9. ASSUME NEW c \in Calls, CommitCall(c) \/ CommitCallUnacknowledged(c)
        PROVE  CatalogTypeOK'
    BY <1>8, <1>9 DEF CatalogTypeOK, CommitCall, CommitCallUnacknowledged, Finish, CallPcs,
                      CallReplies
  <1>10. ASSUME NEW c \in Calls, AbortCall(c) PROVE CatalogTypeOK'
    BY <1>10 DEF CatalogTypeOK, AbortCall, Finish, CallPcs, CallReplies
  <1>11. CASE UNCHANGED catalogVars
    BY <1>11 DEF CatalogTypeOK, catalogVars
  <1> QED
    BY <1>1, <1>2, <1>3, <1>4, <1>5, <1>6, <1>7, <1>9, <1>10, <1>11
       DEF CatalogNext, CallStep

\* The catalog is well typed in every behaviour.
THEOREM CatalogTyped == CatalogSpec => []CatalogTypeOK
  BY TypeInit, TypeStep, PTL DEF CatalogSpec
-----------------------------------------------------------------------------
LEMMA InvInit == CatalogInit => CatalogInv
  <1> SUFFICES ASSUME CatalogInit PROVE CatalogInv
    OBVIOUS
  <1>0. CatalogTypeOK
    BY TypeInit
  <1>1. \A m \in meters : \E c \in Seeded : m = NewMeter(c)
    BY DEF CatalogInit
  <1>2. \A e \in meterEvents : \E c \in Seeded :
           e = [meter |-> NewMeter(c), change |-> "created"]
    BY DEF CatalogInit
  <1>3. \A c \in Seeded : /\ c \in Calls /\ input[c].op = "create"
                         /\ cpc[c] = "done" /\ creply[c] = "ok"
                         /\ NewMeter(c) \in meters
                         /\ [meter |-> NewMeter(c), change |-> "created"] \in meterEvents
    BY CatalogAssumption DEF CatalogInit, CreateInput
  <1>4. \A c, d \in Seeded : c # d => input[c].code # input[d].code
    BY DEF CatalogInit
  <1>5. IdsUnique /\ CodesUnique
    BY <1>1, <1>4 DEF IdsUnique, CodesUnique, NewMeter
  <1>6. HistoryMatchesRows
    <2>1. ASSUME NEW m \in meters
          PROVE  /\ \E e \in meterEvents : e.meter = m
                 /\ \A v \in 1..m.version : \E e \in meterEvents :
                      e.meter.id = m.id /\ e.meter.version = v
      <3>1. PICK c \in Seeded : m = NewMeter(c)
        BY <1>1
      <3> DEFINE ev == [meter |-> NewMeter(c), change |-> "created"]
      <3>2. ev \in meterEvents /\ ev.meter = m /\ m.version = 1
        BY <1>3, <3>1 DEF NewMeter
      <3> QED
        BY <3>2
    <2>2. ASSUME NEW e \in meterEvents, NEW f \in meterEvents, e.meter.id = f.meter.id
          PROVE  e = f
      BY <1>2, <2>2 DEF NewMeter
    <2>3. ASSUME NEW e \in meterEvents
          PROVE  \E m \in meters : /\ m.id = e.meter.id /\ m.code = e.meter.code
                                  /\ e.meter.version \in 1..m.version
      BY <1>2, <1>3 DEF NewMeter
    <2> QED
      BY <2>1, <2>2, <2>3 DEF HistoryMatchesRows
  <1>7. ReadsAreCurrent
    BY DEF CatalogInit, ReadsAreCurrent, InCallTx
  <1>8. LocksHold
    BY DEF CatalogInit, LocksHold, InCallTx
  <1>9. NothingBeforeCommit
    <2>1. \A c \in Calls : cpc[c] = "done" <=> creply[c] # "none"
      BY DEF CatalogInit
    <2>2. \A c \in Seeded : NewMeter(c).id = c /\ NewMeter(c).name = c
      BY DEF NewMeter
    <2>3. ASSUME NEW m \in meters PROVE cpc[m.id] = "done"
      <3>1. PICK c \in Seeded : m = NewMeter(c)
        BY <1>1
      <3>2. m.id = c /\ cpc[c] = "done"
        BY <1>3, <2>2, <3>1
      <3> QED
        BY <3>2
    <2>4. \A e \in meterEvents : cpc[e.meter.name] = "done"
      BY <1>2, <1>3, <2>2
    <2> QED
      BY <2>1, <2>3, <2>4 DEF NothingBeforeCommit
  <1>10. AnswersTruthful
    <2>1. ASSUME NEW c \in Calls, creply[c] = "ok"
          PROVE  \E e \in meterEvents : e.meter.name = c
      <3>1. c \in Seeded
        BY <2>1 DEF CatalogInit
      <3> QED
        BY <1>3, <3>1 DEF NewMeter
    <2>2. \A c \in Calls : creply[c] \notin {"invalid", "notfound", "conflict"}
      BY DEF CatalogInit
    <2> QED
      BY <2>1, <2>2 DEF AnswersTruthful
  <1> QED
    BY <1>0, <1>5, <1>6, <1>7, <1>8, <1>9, <1>10 DEF CatalogInv

\* The conjuncts that only mention the tables survive a step that writes none.
LEMMA TablesUntouched ==
    ASSUME CatalogInv, UNCHANGED <<meters, meterEvents>>
    PROVE  IdsUnique' /\ CodesUnique' /\ HistoryMatchesRows'
  BY DEF CatalogInv, IdsUnique, CodesUnique, HistoryMatchesRows

\* A call that ends with an error leaves the invariant as it was.
LEMMA FailedCall ==
    ASSUME CatalogInv, CatalogTypeOK', NEW c \in Calls, cpc[c] # "done",
           NEW a \in CallReplies \ {"ok", "none"}, Finish(c, a),
           UNCHANGED <<meters, meterEvents, input, cread>>
    PROVE  CatalogInv'
  <1>1. ReadsAreCurrent'
    BY DEF CatalogInv, CatalogTypeOK, ReadsAreCurrent, Finish, InCallTx
  <1>2. LocksHold'
    BY DEF CatalogInv, CatalogTypeOK, LocksHold, Finish, InCallTx, CodeTaken,
           CodeReserved, RowsMatching, RowLocked
  <1>3. NothingBeforeCommit'
    BY DEF CatalogInv, CatalogTypeOK, NothingBeforeCommit, Finish, Meter, MeterEvent
  <1>4. AnswersTruthful'
    BY DEF CatalogInv, CatalogTypeOK, NothingBeforeCommit, AnswersTruthful, Finish
  <1> QED
    BY <1>1, <1>2, <1>3, <1>4, TablesUntouched DEF CatalogInv
\* A call that goes on without having committed anything.
LEMMA ContinuedCall ==
    ASSUME CatalogInv, CatalogTypeOK', NEW c \in Calls, cpc[c] # "done",
           NEW p \in CallPcs \ {"done"}, Goto(c, p),
           UNCHANGED <<meters, meterEvents, input>>
    PROVE  /\ NothingBeforeCommit' /\ AnswersTruthful'
           /\ IdsUnique' /\ CodesUnique' /\ HistoryMatchesRows'
  <1>1. NothingBeforeCommit'
    BY DEF CatalogInv, CatalogTypeOK, NothingBeforeCommit, Goto, Meter, MeterEvent
  <1>2. AnswersTruthful'
    BY DEF CatalogInv, AnswersTruthful, Goto
  <1> QED
    BY <1>1, <1>2, TablesUntouched

LEMMA StartPreserves ==
    ASSUME CatalogInv, CatalogTypeOK', NEW c \in Calls,
           StartCreate(c) \/ StartUpdate(c)
    PROVE  CatalogInv'
  <1>1. CASE StartCreate(c)
    <2>1. /\ Goto(c, "write") /\ cpc[c] = "idle" /\ input[c].op = "create"
          /\ UNCHANGED <<meters, meterEvents, input, cread>>
      BY <1>1 DEF StartCreate
    <2>2. ReadsAreCurrent'
      BY <2>1 DEF CatalogInv, CatalogTypeOK, ReadsAreCurrent, Goto, InCallTx
    <2>3. LocksHold'
      BY <2>1 DEF CatalogInv, CatalogTypeOK, LocksHold, Goto, InCallTx,
             CodeTaken, CodeReserved, RowsMatching, RowLocked
    <2> QED
      BY <2>1, <2>2, <2>3, ContinuedCall DEF CatalogInv, CallPcs
  <1>2. CASE StartUpdate(c)
    <2>1. /\ Goto(c, "get") /\ cpc[c] = "idle" /\ input[c].op = "update"
          /\ UNCHANGED <<meters, meterEvents, input, cread>>
      BY <1>2 DEF StartUpdate
    <2>2. ReadsAreCurrent'
      BY <2>1 DEF CatalogInv, CatalogTypeOK, ReadsAreCurrent, Goto, InCallTx
    <2>3. LocksHold'
      BY <2>1 DEF CatalogInv, CatalogTypeOK, LocksHold, Goto, InCallTx,
             CodeTaken, CodeReserved, RowsMatching, RowLocked
    <2> QED
      BY <2>1, <2>2, <2>3, ContinuedCall DEF CatalogInv, CallPcs
  <1> QED
    BY <1>1, <1>2

LEMMA ReadPreserves ==
    ASSUME CatalogInv, CatalogTypeOK', NEW c \in Calls, ReadMeter(c)
    PROVE  CatalogInv'
  <1>1. CASE RowsById(c) = {}
    BY <1>1, FailedCall DEF ReadMeter, CallReplies
  <1>2. CASE RowsById(c) # {}
    <2>1. /\ Goto(c, "write") /\ cpc[c] = "get" /\ cread' = [cread EXCEPT ![c] = RowsById(c)]
          /\ UNCHANGED <<meters, meterEvents, input>>
      BY <1>2 DEF ReadMeter
    <2>2. ReadsAreCurrent'
      <3> SUFFICES ASSUME NEW d \in Calls
                   PROVE  /\ \A m \in cread'[d] : \E n \in meters :
                               m.id = input[d].id /\ n.id = m.id /\ n.code = m.code
                          /\ \A m, n \in cread'[d] : m = n
                          /\ cpc'[d] \in {"event", "commit"} \/ cpc'[d] = "write" =>
                               (input[d].op = "update" => cread'[d] # {})
                          /\ cpc'[d] = "get" => input[d].op = "update"
        BY <2>1 DEF ReadsAreCurrent, InCallTx
      <3>1. CASE d = c
        <4>1. cread'[c] = RowsById(c) /\ cpc'[c] = "write"
          BY <2>1 DEF CatalogInv, CatalogTypeOK, Goto
        <4> QED
          BY <1>2, <3>1, <4>1 DEF RowsById, CatalogInv, IdsUnique
      <3>2. CASE d # c
        BY <2>1, <3>2 DEF CatalogInv, CatalogTypeOK, Goto, ReadsAreCurrent, InCallTx
      <3> QED
        BY <3>1, <3>2
    <2>3. LocksHold'
      BY <2>1 DEF CatalogInv, CatalogTypeOK, LocksHold, Goto, InCallTx,
             CodeTaken, CodeReserved, RowsMatching, RowLocked
    <2> QED
      BY <2>1, <2>2, <2>3, ContinuedCall DEF CatalogInv, CallPcs
  <1> QED
    BY <1>1, <1>2

\* The first statement of a transaction takes the lock it needs.
LEMMA WritePreserves ==
    ASSUME CatalogInv, CatalogTypeOK', NEW c \in Calls,
           InsertMeter(c) \/ UpdateRow(c)
    PROVE  CatalogInv'
  <1>1. CASE Goto(c, "event")
    <2>1. /\ UNCHANGED <<meters, meterEvents, input, cread>> /\ cpc[c] = "write"
          /\ input[c].op = "create" => ~CodeTaken(input[c].code) /\ ~CodeReserved(c)
          /\ input[c].op = "update" => RowsMatching(c) # {} /\ ~RowLocked(c)
      BY <1>1 DEF InsertMeter, UpdateRow, Goto, Finish, CatalogInv, CatalogTypeOK
    <2>2. ReadsAreCurrent'
      BY <1>1, <2>1 DEF CatalogInv, CatalogTypeOK, ReadsAreCurrent, Goto, InCallTx
    <2>3. LocksHold'
      BY <1>1, <2>1 DEF CatalogInv, CatalogTypeOK, LocksHold, Goto, InCallTx,
             CodeTaken, CodeReserved, RowsMatching, RowLocked
    <2> QED
      BY <1>1, <2>1, <2>2, <2>3, ContinuedCall DEF CatalogInv, CallPcs
  <1>2. CASE ~Goto(c, "event")
    <2>1. PICK a \in {"internal", "conflict"} : Finish(c, a)
      BY <1>2 DEF InsertMeter, UpdateRow
    <2>2. UNCHANGED <<meters, meterEvents, input, cread>> /\ cpc[c] = "write"
      BY DEF InsertMeter, UpdateRow
    <2> QED
      BY <2>1, <2>2, FailedCall DEF CallReplies
  <1> QED
    BY <1>1, <1>2

LEMMA EventPreserves ==
    ASSUME CatalogInv, CatalogTypeOK', NEW c \in Calls, AddMeterEvent(c)
    PROVE  CatalogInv'
  <1>1. /\ Goto(c, "commit") /\ cpc[c] = "event"
        /\ UNCHANGED <<meters, meterEvents, input, cread>>
    BY DEF AddMeterEvent
  <1>2. ReadsAreCurrent'
    BY <1>1 DEF CatalogInv, CatalogTypeOK, ReadsAreCurrent, Goto, InCallTx
  <1>3. LocksHold'
    BY <1>1 DEF CatalogInv, CatalogTypeOK, LocksHold, Goto, InCallTx,
           CodeTaken, CodeReserved, RowsMatching, RowLocked
  <1> QED
    BY <1>1, <1>2, <1>3, ContinuedCall DEF CatalogInv, CallPcs
-----------------------------------------------------------------------------
\* A commit finds the tables as the statements of its transaction left them.
LEMMA CommitCreate ==
    ASSUME CatalogInv, NEW c \in Calls, cpc[c] = "commit", input[c].op = "create",
           ApplyCall(c)
    PROVE  /\ IdsUnique' /\ CodesUnique' /\ HistoryMatchesRows'
           /\ meters' = meters \cup {NewMeter(c)}
           /\ meterEvents' = meterEvents \cup {[meter |-> NewMeter(c), change |-> "created"]}
  <1> DEFINE new == NewMeter(c)
             ev == [meter |-> NewMeter(c), change |-> "created"]
  <1>1. meters' = meters \cup {new} /\ meterEvents' = meterEvents \cup {ev}
    BY DEF ApplyCall
  <1>2. /\ new.id = c /\ new.code = input[c].code /\ new.version = 1
        /\ ev.meter = new
    BY DEF NewMeter
  <1>3. \A m \in meters : m.id # c /\ m.code # input[c].code
    BY DEF CatalogInv, NothingBeforeCommit, LocksHold, InCallTx, CodeTaken
  <1>4. \A e \in meterEvents : e.meter.id # c
    BY <1>3 DEF CatalogInv, HistoryMatchesRows
  <1>5. IdsUnique' /\ CodesUnique'
    BY <1>1, <1>2, <1>3 DEF CatalogInv, IdsUnique, CodesUnique
  <1>6. HistoryMatchesRows'
    <2> HIDE DEF new, ev
    <2>1. ASSUME NEW m \in meters'
          PROVE  /\ \E e \in meterEvents' : e.meter = m
                 /\ \A v \in 1..m.version : \E e \in meterEvents' :
                      e.meter.id = m.id /\ e.meter.version = v
      <3>1. CASE m = new
        BY <1>1, <1>2, <3>1
      <3>2. CASE m \in meters
        BY <1>1, <3>2 DEF CatalogInv, HistoryMatchesRows
      <3> QED
        BY <1>1, <3>1, <3>2
    <2>2. ASSUME NEW e \in meterEvents', NEW f \in meterEvents',
                 e.meter.id = f.meter.id, e.meter.version = f.meter.version
          PROVE  e = f
      BY <1>1, <1>2, <1>4, <2>2 DEF CatalogInv, HistoryMatchesRows
    <2>3. ASSUME NEW e \in meterEvents'
          PROVE  \E m \in meters' : /\ m.id = e.meter.id /\ m.code = e.meter.code
                                   /\ e.meter.version \in 1..m.version
      <3>1. CASE e = ev
        BY <1>1, <1>2, <3>1
      <3>2. CASE e \in meterEvents
        BY <1>1, <3>2 DEF CatalogInv, HistoryMatchesRows
      <3> QED
        BY <1>1, <3>1, <3>2
    <2> QED
      BY <2>1, <2>2, <2>3 DEF HistoryMatchesRows
  <1> QED
    BY <1>1, <1>5, <1>6
LEMMA CommitUpdate ==
    ASSUME CatalogInv, NEW c \in Calls, cpc[c] = "commit", input[c].op = "update",
           ApplyCall(c)
    PROVE  /\ IdsUnique' /\ CodesUnique' /\ HistoryMatchesRows'
           /\ \E m \in RowsMatching(c) :
                LET row == UpdatedRow(c, m)
                    ev == [meter |-> row, change |-> "updated"]
                IN  /\ meters' = (meters \ {m}) \cup {row}
                    /\ meterEvents' = meterEvents \cup {ev}
                    /\ ev \notin meterEvents
  <1>0. InCallTx(c) /\ input[c].op # "create"
    BY DEF InCallTx
  <1>1. PICK m0 \in RowsMatching(c) : TRUE
    BY <1>0 DEF CatalogInv, LocksHold
  <1>2. m0 \in meters /\ m0.id = input[c].id /\ m0.version = input[c].expected
    BY <1>1 DEF RowsMatching
  <1>3. RowsMatching(c) = {m0}
    BY <1>1 DEF RowsMatching, CatalogInv, IdsUnique
  <1>4. PICK r \in cread[c] : TRUE
    BY <1>0 DEF CatalogInv, ReadsAreCurrent
  <1>5. cread[c] = {r} /\ r.id = m0.id /\ r.code = m0.code
    BY <1>2, <1>4 DEF CatalogInv, ReadsAreCurrent, IdsUnique
  <1> DEFINE row == UpdatedRow(c, m0)
             ev == [meter |-> row, change |-> "updated"]
  <1>6. UpdatedMeter(c, r) = row
    BY <1>2, <1>5 DEF UpdatedMeter, UpdatedRow
  <1>7. /\ row.id = m0.id /\ row.code = m0.code /\ row.version = m0.version + 1
        /\ m0.version \in Nat /\ ev.meter = row
    BY <1>2 DEF UpdatedRow, CatalogInv, CatalogTypeOK, Meter
  <1>8. meters' = (meters \ {m0}) \cup {row}
    BY <1>0, <1>3 DEF ApplyCall
  <1>9. meterEvents' = meterEvents \cup {ev}
    BY <1>0, <1>5, <1>6 DEF ApplyCall
  <1> HIDE DEF row, ev
  <1>10. \A e \in meterEvents : e.meter.id = m0.id => e.meter.version \in 1..m0.version
    BY <1>2 DEF CatalogInv, HistoryMatchesRows, IdsUnique
  <1>11. IdsUnique' /\ CodesUnique'
    BY <1>2, <1>7, <1>8 DEF CatalogInv, IdsUnique, CodesUnique
  <1>12. HistoryMatchesRows'
    <2>1. ASSUME NEW m \in meters'
          PROVE  /\ \E e \in meterEvents' : e.meter = m
                 /\ \A v \in 1..m.version : \E e \in meterEvents' :
                      e.meter.id = m.id /\ e.meter.version = v
      <3>1. CASE m = row
        <4>1. ASSUME NEW v \in 1..m.version
              PROVE  \E e \in meterEvents' : e.meter.id = m.id /\ e.meter.version = v
          <5>1. CASE v = m0.version + 1
            BY <1>7, <1>9, <3>1, <5>1
          <5>2. CASE v # m0.version + 1
            <6>1. v \in 1..m0.version
              BY <1>7, <3>1, <5>2
            <6> QED
              BY <1>2, <1>7, <1>9, <3>1, <6>1 DEF CatalogInv, HistoryMatchesRows
          <5> QED
            BY <5>1, <5>2
        <4> QED
          BY <1>7, <1>9, <3>1, <4>1
      <3>2. CASE m \in meters
        BY <1>9, <3>2 DEF CatalogInv, HistoryMatchesRows
      <3> QED
        BY <1>8, <3>1, <3>2
    <2>2. ASSUME NEW e \in meterEvents', NEW f \in meterEvents',
                 e.meter.id = f.meter.id, e.meter.version = f.meter.version
          PROVE  e = f
      BY <1>7, <1>9, <1>10, <2>2 DEF CatalogInv, HistoryMatchesRows
    <2>3. ASSUME NEW e \in meterEvents'
          PROVE  \E m \in meters' : /\ m.id = e.meter.id /\ m.code = e.meter.code
                                   /\ e.meter.version \in 1..m.version
      <3>1. CASE e = ev
        BY <1>7, <1>8, <3>1
      <3>2. CASE e \in meterEvents
        <4>1. PICK m \in meters : /\ m.id = e.meter.id /\ m.code = e.meter.code
                                  /\ e.meter.version \in 1..m.version
          BY <3>2 DEF CatalogInv, HistoryMatchesRows
        <4>2. CASE m = m0
          BY <1>7, <1>8, <4>1, <4>2
        <4>3. CASE m # m0
          BY <1>8, <4>1, <4>3
        <4> QED
          BY <4>2, <4>3
      <3> QED
        BY <1>9, <3>1, <3>2
    <2> QED
      BY <2>1, <2>2, <2>3 DEF HistoryMatchesRows
  <1>13. ev \notin meterEvents
    BY <1>7, <1>10
  <1> QED
    BY <1>1, <1>8, <1>9, <1>11, <1>12, <1>13 DEF row, ev

LEMMA CommitPreserves ==
    ASSUME CatalogInv, CatalogTypeOK', NEW c \in Calls,
           CommitCall(c) \/ CommitCallUnacknowledged(c)
    PROVE  CatalogInv'
  <1>1. /\ cpc[c] = "commit" /\ ApplyCall(c) /\ UNCHANGED <<input, cread>>
        /\ cpc' = [cpc EXCEPT ![c] = "done"]
        /\ \/ creply' = [creply EXCEPT ![c] = "ok"]
           \/ creply' = [creply EXCEPT ![c] = "internal"]
    BY DEF CommitCall, CommitCallUnacknowledged, Finish
  <1>2. input[c].op \in {"create", "update"} /\ InCallTx(c)
    BY <1>1, InputShape DEF CatalogInv, CatalogTypeOK, InCallTx
  <1>3. PICK row, ev :
          /\ ev.meter = row /\ row.name = c /\ (row.id = c \/ row.id = input[c].id)
          /\ ev \in meterEvents' /\ meterEvents' = meterEvents \cup {ev}
          /\ row \in meters' /\ meters' \subseteq meters \cup {row}
          /\ input[c].op = "create" => row.code = input[c].code /\ meters \subseteq meters' /\ row.id = c
          /\ input[c].op = "update" =>
               \E m \in meters : /\ row.id = m.id /\ row.code = m.code
                                /\ m.id = input[c].id
                                /\ meters' = (meters \ {m}) \cup {row}
    <2>1. CASE input[c].op = "create"
      <3> DEFINE row == NewMeter(c)
                 ev == [meter |-> NewMeter(c), change |-> "created"]
      <3>1. meters' = meters \cup {row} /\ meterEvents' = meterEvents \cup {ev}
        BY <1>1, <2>1, CommitCreate
      <3>2. ev.meter = row /\ row.name = c /\ row.id = c /\ row.code = input[c].code
        BY DEF NewMeter
      <3> HIDE DEF row, ev
      <3> QED
        BY <2>1, <3>1, <3>2
    <2>2. CASE input[c].op = "update"
      <3>1. PICK m \in RowsMatching(c) :
              LET row == UpdatedRow(c, m)
                  ev == [meter |-> row, change |-> "updated"]
              IN  /\ meters' = (meters \ {m}) \cup {row}
                  /\ meterEvents' = meterEvents \cup {ev}
                  /\ ev \notin meterEvents
        BY <1>1, <2>2, CommitUpdate
      <3> DEFINE row == UpdatedRow(c, m)
                 ev == [meter |-> row, change |-> "updated"]
      <3>2. m \in meters /\ m.id = input[c].id
        BY <3>1 DEF RowsMatching
      <3>3. ev.meter = row /\ row.name = c /\ row.id = m.id /\ row.code = m.code
        BY DEF UpdatedRow
      <3>4. meters' = (meters \ {m}) \cup {row} /\ meterEvents' = meterEvents \cup {ev}
        BY <3>1
      <3> HIDE DEF row, ev
      <3> QED
        BY <2>2, <3>2, <3>3, <3>4
    <2> QED
      BY <1>2, <2>1, <2>2
  <1>4. IdsUnique' /\ CodesUnique' /\ HistoryMatchesRows'
    BY <1>1, <1>2, CommitCreate, CommitUpdate
  <1>5. ReadsAreCurrent'
    <2>1. \A n \in meters : \E k \in meters' : k.id = n.id /\ k.code = n.code
      BY <1>2, <1>3
    <2> QED
      BY <1>1, <2>1 DEF CatalogInv, CatalogTypeOK, ReadsAreCurrent, InCallTx
  <1>6. LocksHold'
    <2> SUFFICES ASSUME NEW d \in Calls, InCallTx(d)'
                 PROVE  /\ input[d].op = "create" => ~CodeTaken(input[d].code)' /\ ~CodeReserved(d)'
                        /\ input[d].op = "update" => RowsMatching(d)' # {} /\ ~RowLocked(d)'
      BY <1>1 DEF LocksHold
    <2>1. d # c /\ InCallTx(d) /\ \A b \in Calls : InCallTx(b)' => InCallTx(b)
      BY <1>1 DEF CatalogInv, CatalogTypeOK, InCallTx
    <2>2. ~CodeReserved(c)  \/ input[c].op = "update"
      BY <1>2 DEF CatalogInv, LocksHold
    <2>3. ~RowLocked(c)  \/ input[c].op = "create"
      BY <1>2 DEF CatalogInv, LocksHold
    <2>4. ASSUME input[d].op = "create"
          PROVE  ~CodeTaken(input[d].code)' /\ ~CodeReserved(d)'
      <3>1. ~CodeTaken(input[d].code) /\ ~CodeReserved(d)
        BY <2>1, <2>4 DEF CatalogInv, LocksHold
      <3>2. ~CodeReserved(d)'
        BY <1>1, <2>1, <3>1 DEF CodeReserved
      <3>3. row.code # input[d].code
        BY <1>2, <1>3, <2>1, <2>2, <2>4, <3>1 DEF CodeReserved, CodeTaken
      <3> QED
        BY <1>1, <1>3, <3>1, <3>2, <3>3 DEF CodeTaken
    <2>5. ASSUME input[d].op = "update"
          PROVE  RowsMatching(d)' # {} /\ ~RowLocked(d)'
      <3>1. RowsMatching(d) # {} /\ ~RowLocked(d)
        BY <2>1, <2>5 DEF CatalogInv, LocksHold
      <3>2. ~RowLocked(d)'
        BY <1>1, <2>1, <3>1 DEF RowLocked
      <3>3. \A m \in RowsMatching(d) : m \in meters'
        BY <1>2, <1>3, <2>1, <2>3, <2>5 DEF RowsMatching, RowLocked
      <3>4. \A m \in RowsMatching(d) : m \in RowsMatching(d)'
        BY <1>1, <3>3 DEF RowsMatching
      <3> QED
        BY <3>1, <3>2, <3>4
    <2> QED
      BY <2>4, <2>5
  <1>7. NothingBeforeCommit'
    <2>1. \A b \in Calls : cpc'[b] = (IF b = c THEN "done" ELSE cpc[b])
      BY <1>1 DEF CatalogInv, CatalogTypeOK
    <2>2. \A m \in meters' : m.id \in Calls
      BY DEF CatalogTypeOK, Meter
    <2>3. \A m \in meters' : cpc'[m.id] = "done"
      BY <1>2, <1>3, <2>1, <2>2 DEF CatalogInv, NothingBeforeCommit
    <2>4. \A e \in meterEvents' : e.meter.name \in Calls
      BY DEF CatalogTypeOK, Meter, MeterEvent
    <2>5. \A e \in meterEvents' : cpc'[e.meter.name] = "done"
      BY <1>3, <2>1, <2>4 DEF CatalogInv, NothingBeforeCommit
    <2>6. \A b \in Calls : cpc'[b] = "done" <=> creply'[b] # "none"
      BY <1>1 DEF CatalogInv, CatalogTypeOK, NothingBeforeCommit
    <2> QED
      BY <2>3, <2>5, <2>6 DEF NothingBeforeCommit
  <1>8. AnswersTruthful'
    <2>1. ASSUME NEW b \in Calls, b # c
          PROVE  /\ creply'[b] = "ok" => \E e \in meterEvents' : e.meter.name = b
                 /\ creply'[b] \in {"invalid", "notfound", "conflict"} =>
                       \A e \in meterEvents' : e.meter.name # b
      <3>1. creply'[b] = creply[b]
        BY <1>1, <2>1 DEF CatalogInv, CatalogTypeOK
      <3> QED
        BY <1>3, <2>1, <3>1 DEF CatalogInv, AnswersTruthful
    <2>2. creply'[c] \in {"ok", "internal"}
      BY <1>1 DEF CatalogInv, CatalogTypeOK
    <2> QED
      BY <1>3, <2>1, <2>2 DEF AnswersTruthful
  <1> QED
    BY <1>4, <1>5, <1>6, <1>7, <1>8 DEF CatalogInv

LEMMA InvStep == CatalogInv /\ [CatalogNext]_catalogVars => CatalogInv'
  <1> SUFFICES ASSUME CatalogInv, [CatalogNext]_catalogVars
               PROVE  CatalogInv'
    OBVIOUS
  <1>0. CatalogTypeOK'
    BY TypeStep DEF CatalogInv
  <1>1. ASSUME NEW c \in Calls, RejectCall(c) PROVE CatalogInv'
    BY <1>0, <1>1, FailedCall DEF RejectCall, CallReplies
  <1>2. ASSUME NEW c \in Calls, StartCreate(c) \/ StartUpdate(c) PROVE CatalogInv'
    BY <1>0, <1>2, StartPreserves
  <1>3. ASSUME NEW c \in Calls, ReadMeter(c) PROVE CatalogInv'
    BY <1>0, <1>3, ReadPreserves
  <1>4. ASSUME NEW c \in Calls, InsertMeter(c) \/ UpdateRow(c) PROVE CatalogInv'
    BY <1>0, <1>4, WritePreserves
  <1>5. ASSUME NEW c \in Calls, AddMeterEvent(c) PROVE CatalogInv'
    BY <1>0, <1>5, EventPreserves
  <1>6. ASSUME NEW c \in Calls, CommitCall(c) \/ CommitCallUnacknowledged(c)
        PROVE  CatalogInv'
    BY <1>0, <1>6, CommitPreserves
  <1>7. ASSUME NEW c \in Calls, AbortCall(c) PROVE CatalogInv'
    BY <1>0, <1>7, FailedCall DEF AbortCall, CallReplies
  <1>8. CASE UNCHANGED catalogVars
    BY <1>8 DEF catalogVars, CatalogInv, CatalogTypeOK, IdsUnique, CodesUnique,
         HistoryMatchesRows, ReadsAreCurrent, LocksHold, NothingBeforeCommit,
         AnswersTruthful, InCallTx, CodeTaken, CodeReserved, RowsMatching, RowLocked
  <1> QED
    BY <1>1, <1>2, <1>3, <1>4, <1>5, <1>6, <1>7, <1>8 DEF CatalogNext, CallStep

LEMMA CatalogInvariant == CatalogSpec => []CatalogInv
  BY InvInit, InvStep, PTL DEF CatalogSpec

\* The outbox is the exact history of the meters table, although events are
\* filled from rows read before the transaction.
THEOREM CatalogHistory == CatalogSpec => []HistoryMatchesRows
  <1>1. CatalogInv => HistoryMatchesRows
    BY DEF CatalogInv
  <1> QED
    BY <1>1, CatalogInvariant, PTL

\* Concurrent CreateMeter calls never leave two meters with one code.
THEOREM CatalogCodesUnique == CatalogSpec => []CodesUnique
  <1>1. CatalogInv => CodesUnique
    BY DEF CatalogInv
  <1> QED
    BY <1>1, CatalogInvariant, PTL

\* A caller told "ok" has its change in the history; one told of a definite
\* refusal does not.
THEOREM CatalogAnswers == CatalogSpec => []AnswersTruthful
  <1>1. CatalogInv => AnswersTruthful
    BY DEF CatalogInv
  <1> QED
    BY <1>1, CatalogInvariant, PTL
LEMMA StepOneVersion == CatalogInv /\ [CatalogNext]_catalogVars => [OneVersion]_catalogVars
  <1> SUFFICES ASSUME CatalogInv, CatalogNext PROVE OneVersion
    OBVIOUS
  <1>1. CASE UNCHANGED <<meters, meterEvents>>
    BY <1>1 DEF OneVersion
  <1>2. CASE \E c \in Calls : cpc[c] = "commit" /\ ApplyCall(c)
    <2>1. PICK c \in Calls : cpc[c] = "commit" /\ ApplyCall(c)
      BY <1>2
    <2>2. input[c].op \in {"create", "update"}
      BY InputShape DEF CatalogInv, CatalogTypeOK
    <2>3. CASE input[c].op = "create"
      BY <2>1, <2>3, CommitCreate DEF OneVersion
    <2>4. CASE input[c].op = "update"
      <3>1. PICK m \in RowsMatching(c) :
              LET row == UpdatedRow(c, m)
                  ev == [meter |-> row, change |-> "updated"]
              IN  /\ meters' = (meters \ {m}) \cup {row}
                  /\ meterEvents' = meterEvents \cup {ev}
                  /\ ev \notin meterEvents
        BY <2>1, <2>4, CommitUpdate
      <3> DEFINE row == UpdatedRow(c, m)
                 ev == [meter |-> row, change |-> "updated"]
      <3>2. /\ row.id = m.id /\ row.code = m.code /\ row.version = m.version + 1
            /\ ev.meter = row
        BY DEF UpdatedRow
      <3>3. /\ meters' = (meters \ {m}) \cup {row} /\ meterEvents' = meterEvents \cup {ev}
            /\ ev \notin meterEvents
        BY <3>1
      <3> HIDE DEF row, ev
      <3> QED
        BY <3>2, <3>3 DEF OneVersion
    <2> QED
      BY <2>2, <2>3, <2>4
  <1> QED
    BY <1>1, <1>2 DEF CatalogNext, CallStep, RejectCall, StartCreate, StartUpdate,
         ReadMeter, InsertMeter, UpdateRow, AddMeterEvent, CommitCall,
         CommitCallUnacknowledged, AbortCall

\* Optimistic locking loses no update: rows change one version at a time, each
\* time to what a new event says.
THEOREM CatalogOneVersion == CatalogSpec => OneVersionPerStep
  BY CatalogInvariant, StepOneVersion, PTL DEF CatalogSpec, OneVersionPerStep
===========================================================================
