----------------------- MODULE UsageIngestionProofs -----------------------
(***************************************************************************)
(* Proofs about UsageIngestion, for any number of requests, any batches    *)
(* and either driver.                                                      *)
(***************************************************************************)
EXTENDS UsageIngestion, MeterCatalogProofs, FiniteSetTheorems

InTx(r) == pc[r] \in {"claim", "select", "insert", "events", "commit"}

\* The loop index is inside the batch wherever it is used, and a transaction
\* only touches inputs of its batch.
PositionOK(r) ==
    /\ pc[r] = "idle" => idx[r] = 1
    /\ pc[r] \in {"check", "claim", "select", "insert"} => idx[r] \in 1..Len(Items(r))
    /\ InTx(r) \/ pc[r] = "fetch" => Len(Items(r)) >= 1
    /\ claimed[r] \subseteq 1..Len(Items(r))
    /\ inserted[r] \subseteq 1..Len(Items(r))

TypeInv ==
    /\ CatalogTypeOK
    /\ UsageTypeOK
    /\ \A r \in Requests : PositionOK(r)

-----------------------------------------------------------------------------
LEMMA ItemsType ==
    ASSUME UsageTypeOK, NEW r \in Requests
    PROVE  /\ Items(r) \in Seq(Item) /\ Len(Items(r)) \in Nat
           /\ DOMAIN Items(r) = 1..Len(Items(r))
           /\ \A i \in 1..Len(Items(r)) : Items(r)[i] \in Item
           /\ \A i \in 1..Len(Items(r)) :
                /\ Items(r)[i].event \in EventIds /\ Items(r)[i].scope \in Scope
                /\ Items(r)[i].code \in Codes
  <1>1. Items(r) \in Seq(Item)
    BY UsageAssumption DEF UsageTypeOK, Items, Submission
  <1>2. Len(Items(r)) \in Nat /\ DOMAIN Items(r) = 1..Len(Items(r))
    BY <1>1
  <1>3. \A i \in 1..Len(Items(r)) : Items(r)[i] \in Item
    BY <1>1
  <1>4. \A x \in Item : x.event \in EventIds /\ x.scope \in Scope /\ x.code \in Codes
    BY DEF Item
  <1> QED
    BY <1>1, <1>2, <1>3, <1>4

LEMMA RowTypes ==
    ASSUME UsageTypeOK, NEW r \in Requests, NEW i \in 1..Len(Items(r))
    PROVE  /\ NewKey(r, i) \in KeyRow /\ NewFact(r, i) \in FactRow
           /\ Key(r, i) \in EventIds /\ <<r, i>> \in FactId
  <1>1. /\ Items(r)[i].event \in EventIds /\ Items(r)[i].scope \in Scope
        /\ Items(r)[i].code \in Codes /\ i \in Nat
    BY ItemsType
  <1>2. Key(r, i) \in EventIds
    BY <1>1, UsageAssumption DEF Key
  <1>3. <<r, i>> \in FactId
    BY <1>1 DEF FactId
  <1> QED
    BY <1>1, <1>2, <1>3 DEF NewKey, NewFact, KeyRow, FactRow

\* What another request's step leaves alone.
Frame(r) ==
    /\ sub' = sub
    /\ \A q \in Requests \ {r} :
         /\ pc'[q] = pc[q] /\ idx'[q] = idx[q] /\ verified'[q] = verified[q]
         /\ seen'[q] = seen[q] /\ claimed'[q] = claimed[q]
         /\ inserted'[q] = inserted[q] /\ logged'[q] = logged[q]
         /\ view'[q] = view[q] /\ results'[q] = results[q] /\ reply'[q] = reply[q]

LEMMA FramePosition ==
    ASSUME TypeInv, NEW r \in Requests, Frame(r), PositionOK(r)'
    PROVE  \A q \in Requests : PositionOK(q)'
  <1> SUFFICES ASSUME NEW q \in Requests PROVE PositionOK(q)'
    OBVIOUS
  <1>1. CASE q = r
    BY <1>1
  <1>2. CASE q # r
    <2>1. /\ pc'[q] = pc[q] /\ idx'[q] = idx[q] /\ claimed'[q] = claimed[q]
          /\ inserted'[q] = inserted[q] /\ Items(q)' = Items(q)
      BY <1>2 DEF Frame, Items
    <2>2. PositionOK(q)
      BY DEF TypeInv
    <2> QED
      BY <2>1, <2>2 DEF PositionOK, InTx
  <1> QED
    BY <1>1, <1>2

\* What Release and Answer leave behind, as facts about values.
Released(r) ==
    /\ idx' \in [Requests -> Nat] /\ verified' \in [Requests -> SUBSET Scope]
    /\ seen' \in [Requests -> SUBSET Meter]
    /\ claimed' \in [Requests -> SUBSET Nat] /\ inserted' \in [Requests -> SUBSET Nat]
    /\ logged' \in [Requests -> SUBSET UsageEvent]
    /\ view' \in [Requests -> SUBSET (SUBSET KeyRow)]
    /\ claimed'[r] = {} /\ inserted'[r] = {} /\ logged'[r] = {} /\ view'[r] = {}
    /\ verified'[r] = {} /\ seen'[r] = {}
    /\ \A q \in Requests \ {r} :
         /\ idx'[q] = idx[q] /\ verified'[q] = verified[q] /\ seen'[q] = seen[q]
         /\ claimed'[q] = claimed[q] /\ inserted'[q] = inserted[q]
         /\ logged'[q] = logged[q] /\ view'[q] = view[q]

Answered(r, a, s) ==
    /\ pc' \in [Requests -> Pcs] /\ reply' \in [Requests -> Replies]
    /\ results' \in [Requests -> Seq(Result)]
    /\ pc'[r] = "done" /\ reply'[r] = a /\ results'[r] = s
    /\ \A q \in Requests \ {r} :
         pc'[q] = pc[q] /\ reply'[q] = reply[q] /\ results'[q] = results[q]

LEMMA ReleaseEffect ==
    ASSUME UsageTypeOK, NEW r \in Requests, Release(r)
    PROVE  Released(r)
  BY DEF UsageTypeOK, Release, Released

LEMMA AnswerEffect ==
    ASSUME UsageTypeOK, NEW r \in Requests, NEW a \in Replies, NEW s \in Seq(Result),
           Answer(r, a, s)
    PROVE  Answered(r, a, s)
  BY DEF UsageTypeOK, Answer, Answered, Pcs

\* A request that is answered and released keeps types and touches nobody else.
LEMMA EndEffect ==
    ASSUME TypeInv, NEW r \in Requests, NEW a \in Replies, NEW s \in Seq(Result),
           Answer(r, a, s), Release(r), UNCHANGED <<catalogVars, sub>>,
           keys' \subseteq KeyRow, facts' \subseteq FactRow, outbox' \subseteq UsageEvent
    PROVE  TypeInv' /\ Frame(r) /\ Released(r) /\ Answered(r, a, s)
  <1>1. UsageTypeOK /\ Released(r) /\ Answered(r, a, s)
    BY ReleaseEffect, AnswerEffect DEF TypeInv
  <1>2. CatalogTypeOK'
    BY DEF TypeInv, CatalogTypeOK, catalogVars
  <1>3. UsageTypeOK'
    BY <1>1 DEF UsageTypeOK, Released, Answered
  <1>4. Frame(r)
    BY <1>1 DEF Frame, Released, Answered
  <1>5. PositionOK(r)'
    BY <1>1 DEF PositionOK, InTx, Released, Answered
  <1>6. \A q \in Requests : PositionOK(q)'
    BY <1>4, <1>5, FramePosition
  <1> QED
    BY <1>1, <1>2, <1>3, <1>4, <1>6 DEF TypeInv

\* Every path that ends in an error: request r is done with nothing held, and
\* nobody else and no table notices.
LEMMA FailEffect ==
    ASSUME TypeInv, NEW r \in Requests, NEW a \in Replies, Fail(r, a)
    PROVE  /\ TypeInv' /\ Frame(r) /\ Released(r) /\ Answered(r, a, <<>>)
           /\ keys' = keys /\ facts' = facts /\ outbox' = outbox
  <1>1. UNCHANGED <<catalogVars, keys, facts, outbox, sub>> /\ Release(r)
        /\ Answer(r, a, <<>>) /\ <<>> \in Seq(Result)
    BY DEF Fail, tables
  <1>2. keys' \subseteq KeyRow /\ facts' \subseteq FactRow /\ outbox' \subseteq UsageEvent
    BY <1>1 DEF TypeInv, UsageTypeOK
  <1> QED
    BY <1>1, <1>2, EndEffect

LEMMA NextItemEffect ==
    ASSUME TypeInv, NEW r \in Requests, NextItem(r), idx[r] \in 1..Len(Items(r))
    PROVE  /\ idx' \in [Requests -> Nat] /\ pc' \in [Requests -> Pcs]
           /\ \A q \in Requests \ {r} : idx'[q] = idx[q] /\ pc'[q] = pc[q]
           /\ \/ /\ idx[r] < Len(Items(r)) /\ idx'[r] = idx[r] + 1 /\ pc'[r] = "claim"
              \/ idx[r] = Len(Items(r)) /\ idx'[r] = idx[r] /\ pc'[r] = "events"
  <1>1. Len(Items(r)) \in Nat /\ idx \in [Requests -> Nat] /\ pc \in [Requests -> Pcs]
    BY ItemsType DEF TypeInv, UsageTypeOK
  <1>2. "claim" \in Pcs /\ "events" \in Pcs
    BY DEF Pcs
  <1>3. CASE idx[r] < Len(Items(r))
    <2>1. idx' = [idx EXCEPT ![r] = @ + 1] /\ pc' = [pc EXCEPT ![r] = "claim"]
      BY <1>3 DEF NextItem
    <2> QED
      BY <1>1, <1>2, <1>3, <2>1
  <1>4. CASE ~(idx[r] < Len(Items(r)))
    <2>1. idx' = idx /\ pc' = [pc EXCEPT ![r] = "events"]
      BY <1>4 DEF NextItem
    <2> QED
      BY <1>1, <1>2, <1>4, <2>1
  <1> QED
    BY <1>3, <1>4

LEMMA OwnRowsType ==
    ASSUME TypeInv, NEW r \in Requests
    PROVE  OwnKeys(r) \subseteq KeyRow /\ OwnFacts(r) \subseteq FactRow
  BY RowTypes DEF TypeInv, PositionOK, OwnKeys, OwnFacts

LEMMA BatchEventsType ==
    ASSUME TypeInv, NEW r \in Requests
    PROVE  BatchEvents(r) \subseteq UsageEvent
  <1>1. ASSUME NEW i \in inserted[r]
        PROVE  EventFor(r, Items(r)[i].scope) \in UsageEvent
    <2>1. i \in 1..Len(Items(r)) /\ Items(r)[i].scope \in Scope
      BY ItemsType DEF TypeInv, PositionOK
    <2>2. \A j \in inserted[r] : <<r, j>> \in FactId
      BY RowTypes DEF TypeInv, PositionOK
    <2> QED
      BY <2>1, <2>2 DEF EventFor, UsageEvent
  <1> QED
    BY <1>1 DEF BatchEvents
-----------------------------------------------------------------------------
\* The effect of each action that does not end its request: it keeps the types,
\* touches nobody else, and changes the listed things of its own.
LEMMA StartEffect ==
    ASSUME TypeInv, NEW r \in Requests, StartBatch(r)
    PROVE  /\ TypeInv' /\ Frame(r)
           /\ UNCHANGED <<keys, facts, outbox, idx, verified, claimed, inserted,
                          logged, view, results, reply>>
           /\ pc[r] = "idle" /\ pc'[r] = "check"
  <1>1. /\ UNCHANGED <<catalogVars, keys, facts, outbox, sub, idx, verified, seen,
                       claimed, inserted, logged, view, results, reply>>
        /\ pc' = [pc EXCEPT ![r] = "check"] /\ pc[r] = "idle"
        /\ Len(Items(r)) \in 1..MaxRecordBatch
    BY DEF StartBatch, tables, locals
  <1>2. CatalogTypeOK'
    BY <1>1 DEF TypeInv, CatalogTypeOK, catalogVars
  <1>3. pc' \in [Requests -> Pcs] /\ pc'[r] = "check"
        /\ \A q \in Requests \ {r} : pc'[q] = pc[q]
    BY <1>1 DEF TypeInv, UsageTypeOK, Pcs
  <1>4. UsageTypeOK'
    BY <1>1, <1>3 DEF TypeInv, UsageTypeOK
  <1>5. Frame(r)
    BY <1>1, <1>3 DEF Frame
  <1>6. PositionOK(r)'
    <2>1. PositionOK(r) /\ idx[r] = 1 /\ Len(Items(r)) \in Nat /\ Items(r)' = Items(r)
      BY <1>1, ItemsType DEF TypeInv, PositionOK, Items
    <2> QED
      BY <1>1, <1>3, <2>1, UsageAssumption DEF PositionOK, InTx
  <1> QED
    BY <1>1, <1>2, <1>3, <1>4, <1>5, <1>6, FramePosition DEF TypeInv

\* A step that stays inside its request needs only its own types and position.
LEMMA StepType ==
    ASSUME TypeInv, NEW r \in Requests, Frame(r), PositionOK(r)', UsageTypeOK',
           UNCHANGED catalogVars
    PROVE  TypeInv'
  <1>1. CatalogTypeOK'
    BY DEF TypeInv, CatalogTypeOK, catalogVars
  <1> QED
    BY <1>1, FramePosition DEF TypeInv

LEMMA AcceptEffect ==
    ASSUME TypeInv, NEW r \in Requests, AcceptItem(r)
    PROVE  /\ TypeInv' /\ Frame(r)
           /\ UNCHANGED <<keys, facts, outbox, claimed, inserted, logged, view,
                          results, reply>>
           /\ verified'[r] = verified[r] \cup {Current(r).scope}
           /\ \/ /\ pc'[r] = "check" /\ idx'[r] = idx[r] + 1
              \/ /\ pc'[r] = "claim" /\ idx'[r] = 1 /\ idx[r] = Len(Items(r))
  <1> DEFINE n == Len(Items(r))
  <1>1. /\ UNCHANGED <<catalogVars, keys, facts, outbox, sub, claimed, inserted,
                       logged, view, results, reply>>
        /\ verified' = [verified EXCEPT ![r] = @ \cup {Current(r).scope}]
        /\ seen' = [seen EXCEPT ![r] = @ \cup LookUp(r)]
        /\ pc[r] = "check"
    BY DEF AcceptItem, tables
  <1>2. idx[r] \in 1..n /\ n \in Nat /\ PositionOK(r) /\ Items(r)' = Items(r)
    BY <1>1, ItemsType DEF TypeInv, PositionOK, Items
  <1>3. Current(r).scope \in Scope
    BY <1>2, ItemsType DEF Current, TypeInv
  <1>4. LookUp(r) \subseteq Meter
    BY DEF LookUp, TypeInv, CatalogTypeOK, UsageTypeOK
  <1>5. /\ verified' \in [Requests -> SUBSET Scope]
        /\ verified'[r] = verified[r] \cup {Current(r).scope}
        /\ \A q \in Requests \ {r} : verified'[q] = verified[q]
    BY <1>1, <1>3 DEF TypeInv, UsageTypeOK
  <1>6. /\ seen' \in [Requests -> SUBSET Meter]
        /\ \A q \in Requests \ {r} : seen'[q] = seen[q]
    BY <1>1, <1>4 DEF TypeInv, UsageTypeOK
  <1>7. /\ idx' \in [Requests -> Nat] /\ pc' \in [Requests -> Pcs]
        /\ \A q \in Requests \ {r} : idx'[q] = idx[q] /\ pc'[q] = pc[q]
        /\ \/ pc'[r] = "check" /\ idx'[r] = idx[r] + 1 /\ idx[r] < n
           \/ pc'[r] = "claim" /\ idx'[r] = 1 /\ idx[r] = n
    <2>1. idx \in [Requests -> Nat] /\ pc \in [Requests -> Pcs] /\ "claim" \in Pcs
      BY DEF TypeInv, UsageTypeOK, Pcs
    <2>2. CASE idx[r] < n
      <3>1. idx' = [idx EXCEPT ![r] = @ + 1] /\ pc' = pc
        BY <2>2 DEF AcceptItem
      <3> QED
        BY <1>1, <2>1, <2>2, <3>1
    <2>3. CASE ~(idx[r] < n)
      <3>1. idx' = [idx EXCEPT ![r] = 1] /\ pc' = [pc EXCEPT ![r] = "claim"]
        BY <2>3 DEF AcceptItem
      <3> QED
        BY <1>2, <2>1, <2>3, <3>1
    <2> QED
      BY <2>2, <2>3
  <1>8. UsageTypeOK'
    BY <1>1, <1>5, <1>6, <1>7 DEF TypeInv, UsageTypeOK
  <1>9. Frame(r)
    BY <1>1, <1>5, <1>6, <1>7 DEF Frame
  <1>10. PositionOK(r)'
    BY <1>1, <1>2, <1>7 DEF PositionOK, InTx
  <1> QED
    BY <1>1, <1>5, <1>7, <1>8, <1>9, <1>10, StepType

LEMMA ResultType ==
    ASSUME TypeInv, NEW r \in Requests, NEW id \in FactId, NEW d \in BOOLEAN,
           AddResult(r, id, d)
    PROVE  /\ results' \in [Requests -> Seq(Result)]
           /\ results'[r] = Append(results[r], [fact |-> id, dup |-> d])
           /\ results[r] \in Seq(Result) /\ [fact |-> id, dup |-> d] \in Result
           /\ \A q \in Requests \ {r} : results'[q] = results[q]
  <1>1. [fact |-> id, dup |-> d] \in Result /\ results[r] \in Seq(Result)
    BY DEF Result, TypeInv, UsageTypeOK
  <1>2. Append(results[r], [fact |-> id, dup |-> d]) \in Seq(Result)
    BY <1>1
  <1> QED
    BY <1>1, <1>2 DEF AddResult, TypeInv, UsageTypeOK

\* The INSERT of ClaimUsage, when the key is taken and when it is free.
LEMMA ClaimEffect ==
    ASSUME TypeInv, NEW r \in Requests, ClaimInsert(r)
    PROVE  /\ TypeInv' /\ Frame(r)
           /\ UNCHANGED <<keys, facts, outbox, idx, verified, inserted, logged,
                          view, reply>>
           /\ pc[r] = "claim" /\ ~Blocked(r)
           /\ \/ pc'[r] = "select" /\ UNCHANGED <<claimed, results>>
              \/ /\ pc'[r] = "insert" /\ claimed'[r] = claimed[r] \cup {idx[r]}
                 /\ ~HasKey(keys \cup OwnKeys(r), Key(r, idx[r]))
                 /\ results[r] \in Seq(Result)
                 /\ [fact |-> <<r, idx[r]>>, dup |-> FALSE] \in Result
                 /\ results'[r] =
                      Append(results[r], [fact |-> <<r, idx[r]>>, dup |-> FALSE])
  <1>1. /\ UNCHANGED <<catalogVars, keys, facts, outbox, sub, idx, verified, seen,
                       inserted, logged, view, reply>>
        /\ pc[r] = "claim" /\ ~Blocked(r)
    BY DEF ClaimInsert, tables
  <1>2. /\ idx[r] \in 1..Len(Items(r)) /\ Len(Items(r)) \in Nat /\ PositionOK(r)
        /\ Items(r)' = Items(r) /\ <<r, idx[r]>> \in FactId
    BY <1>1, ItemsType, RowTypes DEF TypeInv, PositionOK, Items
  <1>3. CASE HasKey(keys \cup OwnKeys(r), Key(r, idx[r]))
    <2>1. pc' = [pc EXCEPT ![r] = "select"] /\ claimed' = claimed /\ results' = results
      BY <1>3 DEF ClaimInsert
    <2>2. /\ pc' \in [Requests -> Pcs] /\ pc'[r] = "select"
          /\ \A q \in Requests \ {r} : pc'[q] = pc[q]
      BY <2>1 DEF TypeInv, UsageTypeOK, Pcs
    <2>3. UsageTypeOK'
      BY <1>1, <2>1, <2>2 DEF TypeInv, UsageTypeOK
    <2>4. Frame(r)
      BY <1>1, <2>1, <2>2 DEF Frame
    <2>5. PositionOK(r)'
      BY <1>1, <1>2, <2>1, <2>2 DEF PositionOK, InTx
    <2> QED
      BY <1>1, <2>1, <2>2, <2>3, <2>4, <2>5, StepType
  <1>4. CASE ~HasKey(keys \cup OwnKeys(r), Key(r, idx[r]))
    <2>1. /\ pc' = [pc EXCEPT ![r] = "insert"]
          /\ claimed' = [claimed EXCEPT ![r] = @ \cup {idx[r]}]
          /\ AddResult(r, <<r, idx[r]>>, FALSE)
      BY <1>4 DEF ClaimInsert
    <2>2. /\ pc' \in [Requests -> Pcs] /\ pc'[r] = "insert"
          /\ \A q \in Requests \ {r} : pc'[q] = pc[q]
      BY <2>1 DEF TypeInv, UsageTypeOK, Pcs
    <2>3. /\ claimed' \in [Requests -> SUBSET Nat]
          /\ claimed'[r] = claimed[r] \cup {idx[r]}
          /\ \A q \in Requests \ {r} : claimed'[q] = claimed[q]
      BY <2>1 DEF TypeInv, UsageTypeOK
    <2>4. /\ results' \in [Requests -> Seq(Result)]
          /\ results'[r] = Append(results[r], [fact |-> <<r, idx[r]>>, dup |-> FALSE])
          /\ results[r] \in Seq(Result) /\ [fact |-> <<r, idx[r]>>, dup |-> FALSE] \in Result
          /\ \A q \in Requests \ {r} : results'[q] = results[q]
      BY <1>2, <2>1, ResultType
    <2>5. UsageTypeOK'
      BY <1>1, <2>2, <2>3, <2>4 DEF TypeInv, UsageTypeOK
    <2>6. Frame(r)
      BY <1>1, <2>2, <2>3, <2>4 DEF Frame
    <2>7. PositionOK(r)'
      BY <1>1, <1>2, <2>2, <2>3 DEF PositionOK, InTx
    <2> QED
      BY <1>1, <1>4, <2>2, <2>3, <2>4, <2>5, <2>6, <2>7, StepType
  <1> QED
    BY <1>3, <1>4

LEMMA SnapshotType ==
    ASSUME UsageTypeOK, NEW r \in Requests
    PROVE  Snapshot(r) \subseteq KeyRow
  BY DEF UsageTypeOK, Snapshot

\* The SELECT of ClaimUsage that makes the input a duplicate.
LEMMA DuplicateEffect ==
    ASSUME TypeInv, NEW r \in Requests, ClaimDuplicate(r)
    PROVE  /\ TypeInv' /\ Frame(r)
           /\ UNCHANGED <<keys, facts, outbox, verified, claimed, inserted, logged, reply>>
           /\ pc[r] = "select" /\ idx[r] \in 1..Len(Items(r))
           /\ view'[r] = view[r] \/ view'[r] = {Snapshot(r)}
           /\ \/ /\ idx[r] < Len(Items(r)) /\ idx'[r] = idx[r] + 1 /\ pc'[r] = "claim"
              \/ idx[r] = Len(Items(r)) /\ idx'[r] = idx[r] /\ pc'[r] = "events"
           /\ \E row \in ExistingKeys(r) :
                /\ SameScope(r, row)
                /\ results[r] \in Seq(Result) /\ [fact |-> row.fact, dup |-> TRUE] \in Result
                /\ results'[r] = Append(results[r], [fact |-> row.fact, dup |-> TRUE])
  <1>1. /\ UNCHANGED <<catalogVars, keys, facts, outbox, sub, verified, seen,
                       claimed, inserted, logged, reply>>
        /\ pc[r] = "select" /\ OpenView(r) /\ NextItem(r)
    BY DEF ClaimDuplicate, tables
  <1>2. /\ idx[r] \in 1..Len(Items(r)) /\ Len(Items(r)) \in Nat /\ PositionOK(r)
        /\ Items(r)' = Items(r)
    BY <1>1, ItemsType DEF TypeInv, PositionOK, Items
  <1>3. PICK row \in ExistingKeys(r) :
          SameScope(r, row) /\ AddResult(r, row.fact, TRUE)
    BY DEF ClaimDuplicate, ReportedFact
  <1>4. row.fact \in FactId
    <2>1. row \in KeyRow
      BY OwnRowsType, SnapshotType DEF ExistingKeys, TypeInv
    <2> QED
      BY <2>1 DEF KeyRow
  <1>5. /\ results' \in [Requests -> Seq(Result)]
        /\ results'[r] = Append(results[r], [fact |-> row.fact, dup |-> TRUE])
        /\ results[r] \in Seq(Result) /\ [fact |-> row.fact, dup |-> TRUE] \in Result
        /\ \A q \in Requests \ {r} : results'[q] = results[q]
    BY <1>3, <1>4, ResultType
  <1>6. /\ view' \in [Requests -> SUBSET (SUBSET KeyRow)]
        /\ view'[r] = view[r] \/ view'[r] = {Snapshot(r)}
        /\ \A q \in Requests \ {r} : view'[q] = view[q]
    <2>1. {Snapshot(r)} \in SUBSET (SUBSET KeyRow)
      BY SnapshotType DEF TypeInv
    <2>2. view \in [Requests -> SUBSET (SUBSET KeyRow)]
      BY DEF TypeInv, UsageTypeOK
    <2> QED
      BY <1>1, <2>1, <2>2 DEF OpenView
  <1>7. /\ idx' \in [Requests -> Nat] /\ pc' \in [Requests -> Pcs]
        /\ \A q \in Requests \ {r} : idx'[q] = idx[q] /\ pc'[q] = pc[q]
        /\ \/ /\ idx[r] < Len(Items(r)) /\ idx'[r] = idx[r] + 1 /\ pc'[r] = "claim"
           \/ idx[r] = Len(Items(r)) /\ idx'[r] = idx[r] /\ pc'[r] = "events"
    BY <1>1, <1>2, NextItemEffect
  <1>8. UsageTypeOK'
    BY <1>1, <1>5, <1>6, <1>7 DEF TypeInv, UsageTypeOK
  <1>9. Frame(r)
    BY <1>1, <1>5, <1>6, <1>7 DEF Frame
  <1>10. PositionOK(r)'
    BY <1>1, <1>2, <1>7 DEF PositionOK, InTx
  <1>11. TypeInv'
    BY <1>1, <1>8, <1>9, <1>10, StepType
  <1> QED
    BY <1>1, <1>2, <1>3, <1>5, <1>6, <1>7, <1>9, <1>11

LEMMA InsertEffect ==
    ASSUME TypeInv, NEW r \in Requests, InsertUsage(r)
    PROVE  /\ TypeInv' /\ Frame(r)
           /\ UNCHANGED <<keys, facts, outbox, verified, claimed, logged, view,
                          results, reply>>
           /\ pc[r] = "insert" /\ idx[r] \in 1..Len(Items(r))
           /\ inserted'[r] = inserted[r] \cup {idx[r]}
           /\ \/ /\ idx[r] < Len(Items(r)) /\ idx'[r] = idx[r] + 1 /\ pc'[r] = "claim"
              \/ idx[r] = Len(Items(r)) /\ idx'[r] = idx[r] /\ pc'[r] = "events"
  <1>1. /\ UNCHANGED <<catalogVars, keys, facts, outbox, sub, verified, seen,
                       claimed, logged, view, results, reply>>
        /\ pc[r] = "insert" /\ NextItem(r)
        /\ inserted' = [inserted EXCEPT ![r] = @ \cup {idx[r]}]
    BY DEF InsertUsage, tables
  <1>2. /\ idx[r] \in 1..Len(Items(r)) /\ Len(Items(r)) \in Nat /\ PositionOK(r)
        /\ Items(r)' = Items(r)
    BY <1>1, ItemsType DEF TypeInv, PositionOK, Items
  <1>3. /\ inserted' \in [Requests -> SUBSET Nat]
        /\ inserted'[r] = inserted[r] \cup {idx[r]}
        /\ \A q \in Requests \ {r} : inserted'[q] = inserted[q]
    BY <1>1 DEF TypeInv, UsageTypeOK
  <1>4. /\ idx' \in [Requests -> Nat] /\ pc' \in [Requests -> Pcs]
        /\ \A q \in Requests \ {r} : idx'[q] = idx[q] /\ pc'[q] = pc[q]
        /\ \/ /\ idx[r] < Len(Items(r)) /\ idx'[r] = idx[r] + 1 /\ pc'[r] = "claim"
           \/ idx[r] = Len(Items(r)) /\ idx'[r] = idx[r] /\ pc'[r] = "events"
    BY <1>1, <1>2, NextItemEffect
  <1>5. UsageTypeOK'
    BY <1>1, <1>3, <1>4 DEF TypeInv, UsageTypeOK
  <1>6. Frame(r)
    BY <1>1, <1>3, <1>4 DEF Frame
  <1>7. PositionOK(r)'
    BY <1>1, <1>2, <1>3, <1>4 DEF PositionOK, InTx
  <1> QED
    BY <1>1, <1>2, <1>3, <1>4, <1>5, <1>6, <1>7, StepType

LEMMA EventsEffect ==
    ASSUME TypeInv, NEW r \in Requests, AddEvents(r)
    PROVE  /\ TypeInv' /\ Frame(r)
           /\ UNCHANGED <<keys, facts, outbox, idx, verified, claimed, inserted,
                          view, results, reply>>
           /\ pc[r] = "events" /\ pc'[r] = "commit" /\ logged'[r] = BatchEvents(r)
  <1>1. /\ UNCHANGED <<catalogVars, keys, facts, outbox, sub, idx, verified, seen,
                       claimed, inserted, view, results, reply>>
        /\ pc[r] = "events" /\ pc' = [pc EXCEPT ![r] = "commit"]
        /\ logged' = [logged EXCEPT ![r] = BatchEvents(r)]
    BY DEF AddEvents, tables
  <1>2. /\ pc' \in [Requests -> Pcs] /\ pc'[r] = "commit"
        /\ \A q \in Requests \ {r} : pc'[q] = pc[q]
    BY <1>1 DEF TypeInv, UsageTypeOK, Pcs
  <1>3. /\ logged' \in [Requests -> SUBSET UsageEvent] /\ logged'[r] = BatchEvents(r)
        /\ \A q \in Requests \ {r} : logged'[q] = logged[q]
    BY <1>1, BatchEventsType DEF TypeInv, UsageTypeOK
  <1>4. UsageTypeOK'
    BY <1>1, <1>2, <1>3 DEF TypeInv, UsageTypeOK
  <1>5. Frame(r)
    BY <1>1, <1>2, <1>3 DEF Frame
  <1>6. PositionOK(r)'
    <2>1. PositionOK(r) /\ Items(r)' = Items(r)
      BY <1>1 DEF TypeInv, Items
    <2> QED
      BY <1>1, <1>2, <2>1 DEF PositionOK, InTx
  <1> QED
    BY <1>1, <1>2, <1>3, <1>4, <1>5, <1>6, StepType

\* Both commits: the batch's rows become visible and r has left its
\* transaction; only an adjustment has a step left.
LEMMA CommitEffect ==
    ASSUME TypeInv, NEW r \in Requests, Commit(r) \/ CommitUnacknowledged(r)
    PROVE  /\ TypeInv' /\ Frame(r) /\ Released(r) /\ ApplyBatch(r) /\ pc[r] = "commit"
           /\ \/ /\ pc'[r] = "fetch" /\ sub[r].adjust /\ results'[r] = results[r]
                 /\ reply'[r] = reply[r]
              \/ /\ pc'[r] = "done" /\ reply'[r] = "ok" /\ results'[r] = results[r]
              \/ /\ pc'[r] = "done" /\ reply'[r] = "internal" /\ results'[r] = <<>>
  <1>1. /\ UNCHANGED <<catalogVars, sub>> /\ pc[r] = "commit" /\ Release(r) /\ ApplyBatch(r)
        /\ PositionOK(r) /\ UsageTypeOK
    BY DEF Commit, CommitUnacknowledged, TypeInv
  <1>2. keys' \subseteq KeyRow /\ facts' \subseteq FactRow /\ outbox' \subseteq UsageEvent
    BY <1>1, OwnRowsType DEF UsageTypeOK, ApplyBatch
  <1>3. results[r] \in Seq(Result) /\ <<>> \in Seq(Result)
        /\ "ok" \in Replies /\ "internal" \in Replies
    BY <1>1 DEF UsageTypeOK, Replies
  <1>4. CASE Answer(r, "ok", results[r])
    <2>1. TypeInv' /\ Frame(r) /\ Released(r) /\ Answered(r, "ok", results[r])
      BY <1>1, <1>2, <1>3, <1>4, EndEffect
    <2> QED
      BY <1>1, <2>1 DEF Answered
  <1>5. CASE Answer(r, "internal", <<>>)
    <2>1. TypeInv' /\ Frame(r) /\ Released(r) /\ Answered(r, "internal", <<>>)
      BY <1>1, <1>2, <1>3, <1>5, EndEffect
    <2> QED
      BY <1>1, <2>1 DEF Answered
  <1>6. CASE /\ pc' = [pc EXCEPT ![r] = "fetch"] /\ UNCHANGED <<results, reply>>
             /\ sub[r].adjust
    <2>1. /\ pc' \in [Requests -> Pcs] /\ pc'[r] = "fetch"
          /\ \A q \in Requests \ {r} : pc'[q] = pc[q]
      BY <1>6 DEF TypeInv, UsageTypeOK, Pcs
    <2>2. Released(r)
      BY <1>1, ReleaseEffect
    <2>3. UsageTypeOK'
      BY <1>1, <1>2, <1>6, <2>1, <2>2 DEF UsageTypeOK, Released
    <2>4. Frame(r)
      BY <1>1, <1>6, <2>1, <2>2 DEF Frame, Released
    <2>5. PositionOK(r)'
      <3>1. Items(r)' = Items(r) /\ Len(Items(r)) >= 1
        BY <1>1 DEF PositionOK, InTx, Items
      <3> QED
        BY <2>1, <2>2, <3>1 DEF PositionOK, InTx, Released
    <2>6. TypeInv'
      BY <1>1, <2>3, <2>4, <2>5, StepType
    <2> QED
      BY <1>1, <1>6, <2>1, <2>2, <2>4, <2>6
  <1> QED
    BY <1>4, <1>5, <1>6 DEF Commit, CommitUnacknowledged

\* AdjustUsage found the fact it recorded.
FetchOk(r) ==
    /\ pc[r] = "fetch"
    /\ Answer(r, "ok", results[r]) /\ Release(r) /\ UNCHANGED <<catalogVars, tables, sub>>

LEMMA FetchEffect ==
    ASSUME TypeInv, NEW r \in Requests, FetchOk(r)
    PROVE  /\ TypeInv' /\ Frame(r) /\ Released(r) /\ Answered(r, "ok", results[r])
           /\ keys' = keys /\ facts' = facts /\ outbox' = outbox
  <1>1. /\ UNCHANGED <<catalogVars, keys, facts, outbox, sub>> /\ Release(r)
        /\ Answer(r, "ok", results[r]) /\ results[r] \in Seq(Result) /\ "ok" \in Replies
    BY DEF FetchOk, tables, TypeInv, UsageTypeOK, Replies
  <1>2. keys' \subseteq KeyRow /\ facts' \subseteq FactRow /\ outbox' \subseteq UsageEvent
    BY <1>1 DEF TypeInv, UsageTypeOK
  <1> QED
    BY <1>1, <1>2, EndEffect

ErrorReplies == Replies \ {"none", "ok"}

\* The steps of a request, with the many that fail put together.
LEMMA RequestCases ==
    ASSUME TypeInv, NEW r \in Requests,
           \/ RefuseBatch(r) \/ StartBatch(r) \/ RequestStep(r)
           \/ CommitUnacknowledged(r) \/ Abort(r)
    PROVE  \/ pc[r] # "done" /\ \E a \in ErrorReplies : Fail(r, a)
           \/ StartBatch(r) \/ AcceptItem(r) \/ ClaimInsert(r) \/ ClaimDuplicate(r)
           \/ InsertUsage(r) \/ AddEvents(r)
           \/ Commit(r) \/ CommitUnacknowledged(r) \/ FetchOk(r)
  <1>1. \A s : VerifyFailures(s) \subseteq ErrorReplies
    BY DEF VerifyFailures, ErrorReplies, Replies
  <1>2. {"unauthorized", "invalid", "forbidden", "notfound", "conflict", "internal"}
          \subseteq ErrorReplies
    BY DEF ErrorReplies, Replies
  <1>3. ASSUME RefuseBatch(r) \/ RefuseItem(r) \/ ClaimRefused(r) \/ Abort(r)
        PROVE  pc[r] # "done" /\ \E a \in ErrorReplies : Fail(r, a)
    BY <1>1, <1>2, <1>3 DEF RefuseBatch, RefuseItem, ClaimRefused, Abort
  <1>4. ASSUME DeadlockVictim(r)
        PROVE  pc[r] # "done" /\ \E a \in ErrorReplies : Fail(r, a)
    <2>1. pc[r] = "claim"
      BY <1>4 DEF DeadlockVictim, Waits
    <2> QED
      BY <1>2, <1>4, <2>1 DEF DeadlockVictim
  <1>5. ASSUME FetchAdjusted(r)
        PROVE  FetchOk(r) \/ (pc[r] # "done" /\ \E a \in ErrorReplies : Fail(r, a))
    BY <1>1, <1>2, <1>5 DEF FetchAdjusted, FetchOk
  <1> QED
    BY <1>3, <1>4, <1>5 DEF RequestStep

LEMMA RequestType ==
    ASSUME TypeInv, NEW r \in Requests,
           \/ RefuseBatch(r) \/ StartBatch(r) \/ RequestStep(r)
           \/ CommitUnacknowledged(r) \/ Abort(r)
    PROVE  TypeInv'
  <1>1. ErrorReplies \subseteq Replies
    BY DEF ErrorReplies
  <1> QED
    BY <1>1, RequestCases, FailEffect, StartEffect, AcceptEffect, ClaimEffect,
       DuplicateEffect, InsertEffect, EventsEffect, CommitEffect, FetchEffect

\* A step of the catalog leaves every request where it is.
LEMMA CatalogStepType ==
    ASSUME TypeInv, CatalogNext, UNCHANGED usageVars
    PROVE  TypeInv'
  <1>1. CatalogTypeOK'
    BY TypeStep DEF TypeInv
  <1>2. UsageTypeOK'
    BY DEF TypeInv, UsageTypeOK, usageVars, tables, locals
  <1>3. \A r \in Requests : PositionOK(r)'
    BY DEF TypeInv, PositionOK, InTx, Items, usageVars, tables, locals
  <1> QED
    BY <1>1, <1>2, <1>3 DEF TypeInv

LEMMA UsageTypeInit == UsageInit => TypeInv
  <1> SUFFICES ASSUME UsageInit PROVE TypeInv
    OBVIOUS
  <1>1. CatalogTypeOK
    BY TypeInit DEF UsageInit
  <1>2. UsageTypeOK
    <2>1. <<>> \in Seq(Result)
      OBVIOUS
    <2> QED
      BY <2>1 DEF UsageInit, UsageTypeOK, Pcs, Replies
  <1>3. \A r \in Requests : PositionOK(r)
    BY DEF UsageInit, PositionOK, InTx
  <1> QED
    BY <1>1, <1>2, <1>3 DEF TypeInv

LEMMA UsageTypeStep == TypeInv /\ [UsageNext]_vars => TypeInv'
  <1> SUFFICES ASSUME TypeInv, [UsageNext]_vars PROVE TypeInv'
    OBVIOUS
  <1>1. CASE CatalogNext /\ UNCHANGED usageVars
    BY <1>1, CatalogStepType
  <1>2. ASSUME NEW r \in Requests,
               \/ RefuseBatch(r) \/ StartBatch(r) \/ RequestStep(r)
               \/ CommitUnacknowledged(r) \/ Abort(r)
        PROVE  TypeInv'
    BY <1>2, RequestType
  <1>3. CASE UNCHANGED vars
    <2>1. CatalogTypeOK'
      BY <1>3 DEF TypeInv, CatalogTypeOK, vars, catalogVars
    <2>2. UsageTypeOK'
      BY <1>3 DEF TypeInv, UsageTypeOK, vars, usageVars, tables, locals
    <2>3. \A r \in Requests : PositionOK(r)'
      BY <1>3 DEF TypeInv, PositionOK, InTx, Items, vars, usageVars, tables, locals
    <2> QED
      BY <2>1, <2>2, <2>3 DEF TypeInv
  <1> QED
    BY <1>1, <1>2, <1>3 DEF UsageNext

\* Every variable keeps its type, the loop index of every request stays inside
\* its batch, and nothing outside the batch is ever claimed or inserted.
THEOREM UsageTyped == UsageSpec => []UsageTypeOK
  <1>1. TypeInv => UsageTypeOK
    BY DEF TypeInv
  <1> QED
    BY <1>1, UsageTypeInit, UsageTypeStep, PTL DEF UsageSpec

-----------------------------------------------------------------------------
(***************************************************************************)
(* The inductive invariant.  OneFactPerEvent says nothing of the rows that *)
(* open transactions hold; what makes a commit safe is that held keys are  *)
(* exclusive (Exclusive), not yet committed (Fresh), and matched one to    *)
(* one by the facts and the events of the same transaction (Progress), and *)
(* that a request commits at most once (Settled).                          *)
(***************************************************************************)

\* What the transaction of r has written so far, by where it is.
Progress(r) ==
    /\ ~InTx(r) => claimed[r] = {}
    /\ pc[r] \in {"claim", "select"} => \A i \in claimed[r] : i < idx[r]
    /\ pc[r] = "insert" => idx[r] \in claimed[r] /\ \A i \in claimed[r] : i <= idx[r]
    /\ inserted[r] = IF pc[r] = "insert" THEN claimed[r] \ {idx[r]} ELSE claimed[r]
    /\ logged[r] = IF pc[r] = "commit" THEN BatchEvents(r) ELSE {}

\* No two inputs hold one key, and a held key is not committed.
Exclusive ==
    \A q, r \in Requests : \A i \in claimed[q], j \in claimed[r] :
        Key(q, i) = Key(r, j) => q = r /\ i = j
Fresh == \A r \in Requests : \A i \in claimed[r] : \A k \in keys : k.event # Key(r, i)

\* A fact belongs to a request that has left its transaction.
Settled ==
    \A f \in facts : \E r \in Requests : f.id[1] = r /\ pc[r] \in {"fetch", "done"}

\* Inputs that have passed the checking loop are authorized.
Authorized(r) ==
    /\ verified[r] \subseteq Granted
    /\ \A i \in 1..Len(Items(r)) :
         InTx(r) \/ (pc[r] = "check" /\ i < idx[r]) =>
             Items(r)[i].scope \in Granted /\ MayAct(sub[r].who, Items(r)[i].scope)

UsageInv ==
    /\ TypeInv
    /\ \A r \in Requests : Progress(r) /\ Authorized(r)
    /\ Exclusive /\ Fresh /\ Settled
    /\ OneFactPerEvent /\ FactsAnnouncedOnce /\ FactsAuthorized

-----------------------------------------------------------------------------
LEMMA SameBatch ==
    ASSUME sub' = sub
    PROVE  \A q \in Requests :
             /\ Items(q)' = Items(q)
             /\ \A i : /\ Key(q, i)' = Key(q, i) /\ NewKey(q, i)' = NewKey(q, i)
                       /\ NewFact(q, i)' = NewFact(q, i)
  BY DEF Items, Key, NewKey, NewFact

LEMMA FrameLocal ==
    ASSUME UsageInv, NEW r \in Requests, Frame(r), Progress(r)', Authorized(r)'
    PROVE  \A q \in Requests : Progress(q)' /\ Authorized(q)'
  <1> SUFFICES ASSUME NEW q \in Requests, q # r PROVE Progress(q)' /\ Authorized(q)'
    OBVIOUS
  <1>1. /\ pc'[q] = pc[q] /\ idx'[q] = idx[q] /\ claimed'[q] = claimed[q]
        /\ inserted'[q] = inserted[q] /\ logged'[q] = logged[q]
        /\ verified'[q] = verified[q] /\ sub' = sub /\ Items(q)' = Items(q)
    BY DEF Frame, Items
  <1>2. BatchEvents(q)' = BatchEvents(q)
    BY <1>1 DEF BatchEvents, EventFor
  <1>3. Progress(q) /\ Authorized(q)
    BY DEF UsageInv
  <1>4. Progress(q)'
    BY <1>1, <1>2, <1>3 DEF Progress, InTx
  <1>5. Authorized(q)'
    BY <1>1, <1>3 DEF Authorized, InTx, MayAct
  <1> QED
    BY <1>4, <1>5

\* A step of r that commits nothing and claims nothing new.
LEMMA QuietStep ==
    ASSUME UsageInv, TypeInv', NEW r \in Requests, Frame(r), Progress(r)', Authorized(r)',
           UNCHANGED <<keys, facts, outbox>>, claimed'[r] \subseteq claimed[r],
           pc[r] \in {"fetch", "done"} => pc'[r] \in {"fetch", "done"}
    PROVE  UsageInv'
  <1>1. sub' = sub /\ \A q \in Requests : claimed'[q] \subseteq claimed[q]
    BY DEF Frame
  <1>2. \A q \in Requests : \A i : Key(q, i)' = Key(q, i)
    BY <1>1, SameBatch
  <1>3. Exclusive'
    BY <1>1, <1>2 DEF UsageInv, Exclusive
  <1>4. Fresh'
    BY <1>1, <1>2 DEF UsageInv, Fresh
  <1>5. Settled'
    BY DEF UsageInv, Settled, Frame
  <1>6. OneFactPerEvent' /\ FactsAnnouncedOnce'
    BY DEF UsageInv, OneFactPerEvent, FactsAnnouncedOnce
  <1>7. FactsAuthorized'
    BY <1>1 DEF UsageInv, FactsAuthorized, MayAct
  <1> QED
    BY <1>3, <1>4, <1>5, <1>6, <1>7, FrameLocal DEF UsageInv

\* A request that has left its transaction with nothing held.
LEMMA EndLocal ==
    ASSUME NEW r \in Requests, Released(r), pc'[r] \in {"fetch", "done"}
    PROVE  Progress(r)' /\ Authorized(r)'
  BY DEF Progress, Authorized, InTx, Released

LEMMA FailPreserves ==
    ASSUME UsageInv, NEW r \in Requests, NEW a \in Replies, Fail(r, a)
    PROVE  UsageInv'
  <1>1. /\ TypeInv' /\ Frame(r) /\ Released(r) /\ Answered(r, a, <<>>)
        /\ keys' = keys /\ facts' = facts /\ outbox' = outbox
    BY FailEffect DEF UsageInv
  <1>2. pc'[r] = "done" /\ claimed'[r] = {}
    BY <1>1 DEF Answered, Released
  <1> QED
    BY <1>1, <1>2, EndLocal, QuietStep

LEMMA FetchPreserves ==
    ASSUME UsageInv, NEW r \in Requests, FetchOk(r)
    PROVE  UsageInv'
  <1>1. /\ TypeInv' /\ Frame(r) /\ Released(r) /\ Answered(r, "ok", results[r])
        /\ keys' = keys /\ facts' = facts /\ outbox' = outbox
    BY FetchEffect DEF UsageInv
  <1>2. pc'[r] = "done" /\ claimed'[r] = {}
    BY <1>1 DEF Answered, Released
  <1> QED
    BY <1>1, <1>2, EndLocal, QuietStep

\* Inside a transaction nothing is left to authorize.
LEMMA StaysAuthorized ==
    ASSUME UsageInv, NEW r \in Requests, Frame(r), InTx(r), verified'[r] = verified[r]
    PROVE  Authorized(r)'
  <1>1. Authorized(r) /\ sub' = sub /\ Items(r)' = Items(r)
    BY DEF UsageInv, Frame, Items
  <1> QED
    BY <1>1 DEF Authorized, MayAct

LEMMA StartPreservesUsage ==
    ASSUME UsageInv, NEW r \in Requests, StartBatch(r)
    PROVE  UsageInv'
  <1>1. /\ TypeInv' /\ Frame(r) /\ pc[r] = "idle" /\ pc'[r] = "check"
        /\ UNCHANGED <<keys, facts, outbox, idx, verified, claimed, inserted, logged>>
    BY StartEffect DEF UsageInv
  <1>2. Progress(r) /\ Authorized(r) /\ PositionOK(r) /\ Items(r)' = Items(r)
    BY <1>1 DEF UsageInv, TypeInv, Frame, Items
  <1>3. Progress(r)'
    BY <1>1, <1>2 DEF Progress, InTx
  <1>4. Authorized(r)'
    <2>1. idx'[r] = 1 /\ \A i \in 1..Len(Items(r)) : ~(i < 1)
      BY <1>1, <1>2 DEF PositionOK
    <2> QED
      BY <1>1, <1>2, <2>1 DEF Authorized, InTx
  <1> QED
    BY <1>1, <1>3, <1>4, QuietStep

LEMMA AcceptPreserves ==
    ASSUME UsageInv, NEW r \in Requests, AcceptItem(r)
    PROVE  UsageInv'
  <1>1. /\ TypeInv' /\ Frame(r)
        /\ UNCHANGED <<keys, facts, outbox, claimed, inserted, logged>>
        /\ verified'[r] = verified[r] \cup {Current(r).scope}
        /\ \/ /\ pc'[r] = "check" /\ idx'[r] = idx[r] + 1
           \/ /\ pc'[r] = "claim" /\ idx'[r] = 1 /\ idx[r] = Len(Items(r))
    BY AcceptEffect DEF UsageInv
  <1>2. /\ Progress(r) /\ Authorized(r) /\ PositionOK(r) /\ Items(r)' = Items(r)
        /\ pc[r] = "check" /\ sub' = sub
    BY <1>1 DEF UsageInv, TypeInv, Frame, Items, AcceptItem
  <1>3. /\ idx[r] \in 1..Len(Items(r)) /\ Len(Items(r)) \in Nat
        /\ Current(r) = Items(r)[idx[r]]
    BY <1>2, ItemsType DEF PositionOK, Current, UsageInv, TypeInv
  <1>4. Current(r).scope \in Granted /\ MayAct(sub[r].who, Current(r).scope)
    BY <1>2 DEF AcceptItem, Passes, Verified, Authorized
  <1>5. Progress(r)'
    BY <1>1, <1>2 DEF Progress, InTx
  <1>6. Authorized(r)'
    <2>1. verified'[r] \subseteq Granted
      BY <1>1, <1>2, <1>4 DEF Authorized
    <2>2. ASSUME NEW i \in 1..Len(Items(r)),
                 InTx(r)' \/ (pc'[r] = "check" /\ i < idx'[r])
          PROVE  Items(r)[i].scope \in Granted /\ MayAct(sub[r].who, Items(r)[i].scope)
      <3>1. i < idx[r] \/ i = idx[r]
        BY <1>1, <1>3, <2>2 DEF InTx
      <3> QED
        BY <1>2, <1>3, <1>4, <3>1 DEF Authorized
    <2> QED
      BY <1>2, <2>1, <2>2 DEF Authorized, MayAct
  <1>7. UNCHANGED <<keys, facts, outbox>> /\ claimed'[r] \subseteq claimed[r]
    BY <1>1
  <1> QED
    BY <1>1, <1>2, <1>5, <1>6, <1>7, QuietStep

LEMMA OwnKeyOf ==
    ASSUME NEW q \in Requests, NEW i \in claimed[q]
    PROVE  NewKey(q, i) \in OwnKeys(q) /\ NewKey(q, i).event = Key(q, i)
  BY DEF OwnKeys, NewKey

\* The INSERT of ClaimUsage keeps held keys exclusive: it waits for a key that
\* another transaction holds, and takes only one that nobody has.
LEMMA ClaimPreserves ==
    ASSUME UsageInv, NEW r \in Requests, ClaimInsert(r)
    PROVE  UsageInv'
  <1>1. /\ TypeInv' /\ Frame(r) /\ sub' = sub
        /\ UNCHANGED <<keys, facts, outbox, idx, verified, inserted, logged>>
        /\ pc[r] = "claim" /\ ~Blocked(r)
        /\ \/ pc'[r] = "select" /\ UNCHANGED claimed
           \/ /\ pc'[r] = "insert" /\ claimed'[r] = claimed[r] \cup {idx[r]}
              /\ ~HasKey(keys \cup OwnKeys(r), Key(r, idx[r]))
    BY ClaimEffect DEF UsageInv, Frame
  <1>2. /\ Progress(r) /\ Items(r)' = Items(r) /\ idx[r] \in Nat
        /\ claimed[r] \subseteq Nat
    BY <1>1 DEF UsageInv, TypeInv, UsageTypeOK, Items
  <1>3. Authorized(r)'
    BY <1>1, StaysAuthorized DEF InTx
  <1>4. Progress(r)'
    <2>1. /\ inserted[r] = claimed[r] /\ \A i \in claimed[r] : i < idx[r]
          /\ logged[r] = {}
      BY <1>1, <1>2 DEF Progress
    <2>2. CASE pc'[r] = "select" /\ UNCHANGED claimed
      BY <1>1, <2>1, <2>2 DEF Progress, InTx
    <2>3. CASE pc'[r] = "insert" /\ claimed'[r] = claimed[r] \cup {idx[r]}
      <3>1. /\ inserted'[r] = claimed'[r] \ {idx'[r]} /\ idx'[r] \in claimed'[r]
            /\ \A i \in claimed'[r] : i <= idx'[r]
        BY <1>1, <1>2, <2>1, <2>3
      <3> QED
        BY <1>1, <2>1, <2>3, <3>1 DEF Progress, InTx
    <2> QED
      BY <1>1, <2>2, <2>3
  <1>5. CASE pc'[r] = "select" /\ UNCHANGED claimed
    BY <1>1, <1>3, <1>4, <1>5, QuietStep
  <1>6. CASE /\ pc'[r] = "insert" /\ claimed'[r] = claimed[r] \cup {idx[r]}
             /\ ~HasKey(keys \cup OwnKeys(r), Key(r, idx[r]))
    <2> DEFINE key == Key(r, idx[r])
    <2>1. \A q \in Requests : \A i : Key(q, i)' = Key(q, i)
      BY <1>1, SameBatch
    <2>2. \A q \in Requests \ {r} : claimed'[q] = claimed[q]
      BY <1>1 DEF Frame
    <2>3. \A q \in Requests : \A i \in claimed[q] : Key(q, i) # key
      <3>1. \A q \in Requests \ {r} : \A i \in claimed[q] : Key(q, i) # key
        BY <1>1, OwnKeyOf DEF Blocked, HeldBy, HasKey
      <3>2. \A i \in claimed[r] : Key(r, i) # key
        BY <1>6, OwnKeyOf DEF HasKey
      <3> QED
        BY <3>1, <3>2
    <2>4. \A k \in keys : k.event # key
      BY <1>6 DEF HasKey
    <2>5. \A q \in Requests : \A i \in claimed'[q] :
            i \in claimed[q] \/ (q = r /\ i = idx[r])
      BY <1>6, <2>2
    <2>6. Exclusive'
      <3> HIDE DEF key
      <3>1. ASSUME NEW q \in Requests, NEW p \in Requests, NEW i \in claimed'[q],
                   NEW j \in claimed'[p], Key(q, i) = Key(p, j)
            PROVE  q = p /\ i = j
        <4>1. CASE i \in claimed[q] /\ j \in claimed[p]
          BY <3>1, <4>1 DEF UsageInv, Exclusive
        <4>2. CASE q = r /\ i = idx[r] /\ j \in claimed[p]
          BY <2>3, <3>1, <4>2 DEF key
        <4>3. CASE p = r /\ j = idx[r] /\ i \in claimed[q]
          BY <2>3, <3>1, <4>3 DEF key
        <4> QED
          BY <2>5, <4>1, <4>2, <4>3
      <3> QED
        BY <2>1, <3>1 DEF Exclusive
    <2>7. Fresh'
      BY <1>1, <2>1, <2>4, <2>5 DEF UsageInv, Fresh
    <2>8. Settled'
      BY <1>1, <1>6 DEF UsageInv, Settled, Frame
    <2>9. OneFactPerEvent' /\ FactsAnnouncedOnce'
      BY <1>1 DEF UsageInv, OneFactPerEvent, FactsAnnouncedOnce
    <2>10. FactsAuthorized'
      BY <1>1 DEF UsageInv, FactsAuthorized, MayAct
    <2> QED
      BY <1>1, <1>3, <1>4, <2>6, <2>7, <2>8, <2>9, <2>10, FrameLocal DEF UsageInv
  <1> QED
    BY <1>1, <1>5, <1>6

LEMMA DuplicatePreserves ==
    ASSUME UsageInv, NEW r \in Requests, ClaimDuplicate(r)
    PROVE  UsageInv'
  <1>1. /\ TypeInv' /\ Frame(r) /\ sub' = sub
        /\ UNCHANGED <<keys, facts, outbox, verified, claimed, inserted, logged>>
        /\ pc[r] = "select" /\ idx[r] \in 1..Len(Items(r))
        /\ \/ idx'[r] = idx[r] + 1 /\ pc'[r] = "claim"
           \/ idx'[r] = idx[r] /\ pc'[r] = "events"
    BY DuplicateEffect DEF UsageInv, Frame
  <1>2. Progress(r) /\ idx[r] \in Nat /\ claimed[r] \subseteq Nat
    BY DEF UsageInv, TypeInv, UsageTypeOK
  <1>3. Progress(r)'
    BY <1>1, <1>2 DEF Progress, InTx
  <1>4. Authorized(r)'
    BY <1>1, StaysAuthorized DEF InTx
  <1>5. UNCHANGED <<keys, facts, outbox>> /\ claimed'[r] \subseteq claimed[r]
    BY <1>1
  <1> QED
    BY <1>1, <1>3, <1>4, <1>5, QuietStep

LEMMA InsertPreserves ==
    ASSUME UsageInv, NEW r \in Requests, InsertUsage(r)
    PROVE  UsageInv'
  <1>1. /\ TypeInv' /\ Frame(r)
        /\ UNCHANGED <<keys, facts, outbox, verified, claimed, logged>>
        /\ pc[r] = "insert" /\ inserted'[r] = inserted[r] \cup {idx[r]}
        /\ \/ idx'[r] = idx[r] + 1 /\ pc'[r] = "claim"
           \/ idx'[r] = idx[r] /\ pc'[r] = "events"
    BY InsertEffect DEF UsageInv
  <1>2. Progress(r) /\ idx[r] \in Nat /\ claimed[r] \subseteq Nat
    BY DEF UsageInv, TypeInv, UsageTypeOK
  <1>3. Progress(r)'
    BY <1>1, <1>2 DEF Progress, InTx
  <1>4. Authorized(r)'
    BY <1>1, StaysAuthorized DEF InTx
  <1>5. UNCHANGED <<keys, facts, outbox>> /\ claimed'[r] \subseteq claimed[r]
    BY <1>1
  <1> QED
    BY <1>1, <1>3, <1>4, <1>5, QuietStep

LEMMA EventsPreserves ==
    ASSUME UsageInv, NEW r \in Requests, AddEvents(r)
    PROVE  UsageInv'
  <1>1. /\ TypeInv' /\ Frame(r) /\ sub' = sub
        /\ UNCHANGED <<keys, facts, outbox, verified, claimed, inserted>>
        /\ pc[r] = "events" /\ pc'[r] = "commit" /\ logged'[r] = BatchEvents(r)
    BY EventsEffect DEF UsageInv, Frame
  <1>2. Progress(r) /\ Items(r)' = Items(r)
    BY <1>1 DEF UsageInv, Items
  <1>3. BatchEvents(r)' = BatchEvents(r)
    BY <1>1, <1>2 DEF BatchEvents, EventFor
  <1>4. Progress(r)'
    BY <1>1, <1>2, <1>3 DEF Progress, InTx
  <1>5. Authorized(r)'
    BY <1>1, StaysAuthorized DEF InTx
  <1>6. UNCHANGED <<keys, facts, outbox>> /\ claimed'[r] \subseteq claimed[r]
    BY <1>1
  <1> QED
    BY <1>1, <1>4, <1>5, <1>6, QuietStep

LEMMA NewRows ==
    ASSUME NEW r \in Requests, NEW i
    PROVE  /\ NewKey(r, i).event = Key(r, i) /\ NewKey(r, i).fact = <<r, i>>
           /\ NewKey(r, i).scope = Items(r)[i].scope /\ NewKey(r, i).code = Items(r)[i].code
           /\ NewFact(r, i).id = <<r, i>> /\ NewFact(r, i).id[1] = r
           /\ Collate[NewFact(r, i).event] = Key(r, i)
           /\ NewFact(r, i).scope = Items(r)[i].scope
           /\ NewFact(r, i).code = Items(r)[i].code
  BY DEF NewKey, NewFact, Key

\* The commit keeps one fact per event: the committed facts have committed
\* keys, and none of those is a key this transaction holds.
LEMMA CommitOneFact ==
    ASSUME UsageInv, NEW r \in Requests, pc[r] = "commit", ApplyBatch(r)
    PROVE  OneFactPerEvent'
  <1>1. /\ keys' = keys \cup {NewKey(r, i) : i \in claimed[r]}
        /\ facts' = facts \cup {NewFact(r, i) : i \in claimed[r]}
    BY DEF ApplyBatch, OwnKeys, OwnFacts, UsageInv, Progress
  <1>2. \A i \in claimed[r] : \A k \in keys : k.event # Key(r, i)
    BY DEF UsageInv, Fresh
  <1>3. \A i, j \in claimed[r] : Key(r, i) = Key(r, j) => i = j
    BY DEF UsageInv, Exclusive
  <1>4. \A f \in facts : \E k \in keys : k.fact = f.id /\ k.event = Collate[f.event]
    BY DEF UsageInv, OneFactPerEvent
  <1>5. ASSUME NEW f \in facts', NEW g \in facts', Collate[f.event] = Collate[g.event]
        PROVE  f = g
    <2>1. CASE f \in facts /\ g \in facts
      BY <1>5, <2>1 DEF UsageInv, OneFactPerEvent
    <2>2. ASSUME NEW x \in facts, NEW i \in claimed[r]
          PROVE  Collate[x.event] # Key(r, i)
      BY <1>2, <1>4
    <2>3. CASE f \in facts /\ g \notin facts
      <3>1. PICK i \in claimed[r] : g = NewFact(r, i)
        BY <1>1, <2>3
      <3> QED
        BY <1>5, <2>2, <2>3, <3>1, NewRows
    <2>4. CASE f \notin facts /\ g \in facts
      <3>1. PICK i \in claimed[r] : f = NewFact(r, i)
        BY <1>1, <2>4
      <3> QED
        BY <1>5, <2>2, <2>4, <3>1, NewRows
    <2>5. CASE f \notin facts /\ g \notin facts
      <3>1. PICK i \in claimed[r] : f = NewFact(r, i)
        BY <1>1, <2>5
      <3>2. PICK j \in claimed[r] : g = NewFact(r, j)
        BY <1>1, <2>5
      <3>3. Key(r, i) = Key(r, j)
        BY <1>5, <3>1, <3>2, NewRows
      <3> QED
        BY <1>3, <3>1, <3>2, <3>3
    <2> QED
      BY <2>1, <2>3, <2>4, <2>5
  <1>6. ASSUME NEW k \in keys'
        PROVE  \E f \in facts' :
                 /\ f.id = k.fact /\ Collate[f.event] = k.event
                 /\ f.scope = k.scope /\ f.code = k.code
    <2>1. CASE k \in keys
      BY <1>1, <2>1 DEF UsageInv, OneFactPerEvent
    <2>2. ASSUME NEW i \in claimed[r], k = NewKey(r, i)
          PROVE  \E f \in facts' :
                   /\ f.id = k.fact /\ Collate[f.event] = k.event
                   /\ f.scope = k.scope /\ f.code = k.code
      <3>1. NewFact(r, i) \in facts'
        BY <1>1
      <3> QED
        BY <2>2, <3>1, NewRows
    <2> QED
      BY <1>1, <2>1, <2>2
  <1>7. ASSUME NEW f \in facts'
        PROVE  \E k \in keys' : k.fact = f.id /\ k.event = Collate[f.event]
    <2>1. CASE f \in facts
      BY <1>1, <1>4, <2>1
    <2>2. ASSUME NEW i \in claimed[r], f = NewFact(r, i)
          PROVE  \E k \in keys' : k.fact = f.id /\ k.event = Collate[f.event]
      <3>1. NewKey(r, i) \in keys'
        BY <1>1
      <3> QED
        BY <2>2, <3>1, NewRows
    <2> QED
      BY <1>1, <2>1, <2>2
  <1> QED
    BY <1>5, <1>6, <1>7 DEF OneFactPerEvent

\* The commit announces its own facts, and nobody else's.
LEMMA CommitAnnounces ==
    ASSUME UsageInv, NEW r \in Requests, pc[r] = "commit", ApplyBatch(r)
    PROVE  FactsAnnouncedOnce'
  <1> DEFINE scopeOf(i) == Items(r)[i].scope
  <1>1. /\ facts' = facts \cup {NewFact(r, i) : i \in inserted[r]}
        /\ outbox' = outbox \cup BatchEvents(r)
    BY DEF ApplyBatch, OwnFacts, UsageInv, Progress
  <1>2. \A i \in inserted[r] :
          /\ EventFor(r, scopeOf(i)) \in BatchEvents(r)
          /\ <<r, i>> \in EventFor(r, scopeOf(i)).facts
    BY DEF BatchEvents, EventFor
  <1>3. \A e \in BatchEvents(r) : \E i \in inserted[r] :
          /\ e = EventFor(r, scopeOf(i)) /\ e.scope = scopeOf(i)
          /\ <<r, i>> \in e.facts
          /\ \A id \in e.facts : \E j \in inserted[r] :
               id = <<r, j>> /\ scopeOf(j) = e.scope
    BY DEF BatchEvents, EventFor
  <1> HIDE DEF scopeOf
  <1>4. \A f \in facts : f.id[1] # r
    BY DEF UsageInv, Settled
  <1>5. \A f \in facts' : \E e \in outbox' : f.id \in e.facts
    <2>1. ASSUME NEW i \in inserted[r]
          PROVE  \E e \in outbox' : NewFact(r, i).id \in e.facts
      <3>1. NewFact(r, i).id = <<r, i>>
        BY NewRows
      <3>2. <<r, i>> \in EventFor(r, scopeOf(i)).facts /\ EventFor(r, scopeOf(i)) \in outbox'
        BY <1>1, <1>2
      <3> QED
        BY <3>1, <3>2
    <2> QED
      BY <1>1, <2>1 DEF UsageInv, FactsAnnouncedOnce
  <1>6. ASSUME NEW e \in outbox'
        PROVE  /\ e.facts # {}
               /\ \A id \in e.facts : \E f \in facts' : f.id = id /\ f.scope = e.scope
    <2>1. CASE e \in outbox
      BY <1>1, <2>1 DEF UsageInv, FactsAnnouncedOnce
    <2>2. CASE e \in BatchEvents(r)
      <3>1. ASSUME NEW j \in inserted[r], scopeOf(j) = e.scope
            PROVE  \E f \in facts' : f.id = <<r, j>> /\ f.scope = e.scope
        <4>1. NewFact(r, j) \in facts'
          BY <1>1
        <4>2. NewFact(r, j).id = <<r, j>> /\ NewFact(r, j).scope = scopeOf(j)
          BY NewRows DEF scopeOf
        <4> QED
          BY <3>1, <4>1, <4>2
      <3>2. e.facts # {}
        BY <1>3, <2>2
      <3>3. \A id \in e.facts : \E j \in inserted[r] : id = <<r, j>> /\ scopeOf(j) = e.scope
        BY <1>3, <2>2
      <3> QED
        BY <3>1, <3>2, <3>3
    <2> QED
      BY <1>1, <2>1, <2>2
  <1>7. ASSUME NEW d \in outbox', NEW e \in outbox', d.facts \cap e.facts # {}
        PROVE  d = e
    <2>1. PICK id : id \in d.facts /\ id \in e.facts
      BY <1>7
    <2>2. ASSUME NEW x \in outbox, id \in x.facts PROVE id[1] # r
      BY <1>4, <2>2 DEF UsageInv, FactsAnnouncedOnce
    <2>3. ASSUME NEW x \in BatchEvents(r), id \in x.facts
          PROVE  id[1] = r /\ \E j \in inserted[r] :
                   id = <<r, j>> /\ x = EventFor(r, scopeOf(j))
      <3>1. PICK i \in inserted[r] :
              /\ x = EventFor(r, scopeOf(i)) /\ x.scope = scopeOf(i)
              /\ \A y \in x.facts : \E j \in inserted[r] :
                   y = <<r, j>> /\ scopeOf(j) = x.scope
        BY <1>3
      <3>2. PICK j \in inserted[r] : id = <<r, j>> /\ scopeOf(j) = x.scope
        BY <2>3, <3>1
      <3>3. x = EventFor(r, scopeOf(j)) /\ id[1] = r
        BY <3>1, <3>2
      <3> QED
        BY <3>2, <3>3
    <2>4. CASE d \in outbox /\ e \in outbox
      BY <1>7, <2>4 DEF UsageInv, FactsAnnouncedOnce
    <2>5. CASE d \in BatchEvents(r) /\ e \in BatchEvents(r)
      BY <2>1, <2>3, <2>5
    <2> QED
      BY <1>1, <2>1, <2>2, <2>3, <2>4, <2>5
  <1> QED
    BY <1>5, <1>6, <1>7 DEF FactsAnnouncedOnce

LEMMA CommitPreservesUsage ==
    ASSUME UsageInv, NEW r \in Requests, Commit(r) \/ CommitUnacknowledged(r)
    PROVE  UsageInv'
  <1>1. /\ TypeInv' /\ Frame(r) /\ Released(r) /\ ApplyBatch(r) /\ pc[r] = "commit"
        /\ pc'[r] \in {"fetch", "done"}
    BY CommitEffect DEF UsageInv
  <1>2. /\ keys' = keys \cup {NewKey(r, i) : i \in claimed[r]}
        /\ facts' = facts \cup {NewFact(r, i) : i \in claimed[r]}
    BY <1>1 DEF ApplyBatch, OwnKeys, OwnFacts, UsageInv, Progress
  <1>3. /\ sub' = sub /\ claimed'[r] = {} /\ \A q \in Requests \ {r} : claimed'[q] = claimed[q]
        /\ \A q \in Requests : \A i : Key(q, i)' = Key(q, i)
    BY <1>1, SameBatch DEF Frame, Released
  <1>4. OneFactPerEvent' /\ FactsAnnouncedOnce'
    BY <1>1, CommitOneFact, CommitAnnounces
  <1>5. Exclusive'
    BY <1>3 DEF UsageInv, Exclusive
  <1>6. Fresh'
    <2>1. ASSUME NEW q \in Requests \ {r}, NEW i \in claimed[q], NEW k \in keys'
          PROVE  k.event # Key(q, i)
      <3>1. CASE k \in keys
        BY <3>1 DEF UsageInv, Fresh
      <3>2. ASSUME NEW j \in claimed[r], k = NewKey(r, j) PROVE k.event # Key(q, i)
        BY <3>2, NewRows DEF UsageInv, Exclusive
      <3> QED
        BY <1>2, <3>1, <3>2
    <2> QED
      BY <1>3, <2>1 DEF Fresh
  <1>7. Settled'
    <2>1. ASSUME NEW f \in facts
          PROVE  \E q \in Requests : f.id[1] = q /\ pc'[q] \in {"fetch", "done"}
      BY <1>1 DEF UsageInv, Settled, Frame
    <2>2. ASSUME NEW i \in claimed[r]
          PROVE  NewFact(r, i).id[1] = r /\ pc'[r] \in {"fetch", "done"}
      BY <1>1, NewRows
    <2> QED
      BY <1>2, <2>1, <2>2 DEF Settled
  <1>8. FactsAuthorized'
    <2>1. ASSUME NEW i \in claimed[r]
          PROVE  /\ NewFact(r, i).scope \in Granted
                 /\ MayAct(sub[NewFact(r, i).id[1]].who, NewFact(r, i).scope)
      <3>1. i \in 1..Len(Items(r)) /\ Authorized(r)
        BY DEF UsageInv, TypeInv, PositionOK
      <3>2. Items(r)[i].scope \in Granted /\ MayAct(sub[r].who, Items(r)[i].scope)
        BY <1>1, <3>1 DEF Authorized, InTx
      <3> QED
        BY <3>2, NewRows
    <2>2. \A f \in facts : f.scope \in Granted /\ MayAct(sub[f.id[1]].who, f.scope)
      BY DEF UsageInv, FactsAuthorized
    <2> QED
      BY <1>2, <1>3, <2>1, <2>2 DEF FactsAuthorized, MayAct
  <1>9. \A q \in Requests : Progress(q)' /\ Authorized(q)'
    BY <1>1, EndLocal, FrameLocal
  <1> QED
    BY <1>1, <1>4, <1>5, <1>6, <1>7, <1>8, <1>9 DEF UsageInv

LEMMA UsageInvInit == UsageInit => UsageInv
  <1> SUFFICES ASSUME UsageInit PROVE UsageInv
    OBVIOUS
  <1>1. TypeInv
    BY UsageTypeInit
  <1>2. /\ keys = {} /\ facts = {} /\ outbox = {}
        /\ \A r \in Requests : /\ pc[r] = "idle" /\ claimed[r] = {} /\ inserted[r] = {}
                               /\ logged[r] = {} /\ verified[r] = {}
    BY DEF UsageInit
  <1>3. \A r \in Requests : Progress(r) /\ Authorized(r)
    BY <1>2 DEF Progress, Authorized, InTx
  <1>4. Exclusive /\ Fresh /\ Settled
    BY <1>2 DEF Exclusive, Fresh, Settled
  <1>5. OneFactPerEvent /\ FactsAnnouncedOnce /\ FactsAuthorized
    BY <1>2 DEF OneFactPerEvent, FactsAnnouncedOnce, FactsAuthorized
  <1> QED
    BY <1>1, <1>3, <1>4, <1>5 DEF UsageInv

\* Nothing the requests and their tables hold changes in a step of the catalog.
LEMMA UsageUntouched ==
    ASSUME UsageInv, TypeInv', UNCHANGED usageVars
    PROVE  UsageInv'
  <1>1. UNCHANGED <<keys, facts, outbox, sub, pc, idx, verified, claimed, inserted, logged>>
    BY DEF usageVars, tables, locals
  <1>2. \A r \in Requests : /\ Items(r)' = Items(r) /\ BatchEvents(r)' = BatchEvents(r)
                            /\ \A i : Key(r, i)' = Key(r, i)
    BY <1>1 DEF Items, Key, BatchEvents, EventFor
  <1>3. \A r \in Requests : Progress(r)'
    BY <1>1, <1>2 DEF UsageInv, Progress, InTx
  <1>4. \A r \in Requests : Authorized(r)'
    BY <1>1, <1>2 DEF UsageInv, Authorized, InTx, MayAct
  <1>5. Exclusive' /\ Fresh'
    BY <1>1, <1>2 DEF UsageInv, Exclusive, Fresh
  <1>6. Settled' /\ OneFactPerEvent' /\ FactsAnnouncedOnce' /\ FactsAuthorized'
    BY <1>1 DEF UsageInv, Settled, OneFactPerEvent, FactsAnnouncedOnce, FactsAuthorized,
       MayAct
  <1> QED
    BY <1>3, <1>4, <1>5, <1>6 DEF UsageInv

LEMMA UsageInvStep == UsageInv /\ [UsageNext]_vars => UsageInv'
  <1> SUFFICES ASSUME UsageInv, [UsageNext]_vars PROVE UsageInv'
    OBVIOUS
  <1>1. TypeInv /\ TypeInv'
    BY UsageTypeStep DEF UsageInv
  <1>2. CASE UNCHANGED usageVars
    BY <1>1, <1>2, UsageUntouched
  <1>3. ASSUME NEW r \in Requests,
               \/ RefuseBatch(r) \/ StartBatch(r) \/ RequestStep(r)
               \/ CommitUnacknowledged(r) \/ Abort(r)
        PROVE  UsageInv'
    <2>1. ErrorReplies \subseteq Replies
      BY DEF ErrorReplies
    <2> QED
      BY <1>1, <1>3, <2>1, RequestCases, FailPreserves, StartPreservesUsage,
         AcceptPreserves, ClaimPreserves, DuplicatePreserves, InsertPreserves,
         EventsPreserves, CommitPreservesUsage, FetchPreserves
  <1> QED
    BY <1>2, <1>3 DEF UsageNext, vars

LEMMA UsageInvariant == UsageSpec => []UsageInv
  BY UsageInvInit, UsageInvStep, PTL DEF UsageSpec

\* Ingestion is idempotent for any number of requests, batches of any size and
\* either driver: one fact per event id, the one its key row names.
THEOREM IngestionIdempotent == UsageSpec => []OneFactPerEvent
  <1>1. UsageInv => OneFactPerEvent
    BY DEF UsageInv
  <1> QED
    BY <1>1, UsageInvariant, PTL

\* The transactional outbox announces every committed fact exactly once, and
\* nothing that was rolled back.
THEOREM IngestionAnnounced == UsageSpec => []FactsAnnouncedOnce
  <1>1. UsageInv => FactsAnnouncedOnce
    BY DEF UsageInv
  <1> QED
    BY <1>1, UsageInvariant, PTL

\* No fact is recorded in a scope its caller was not entitled to, although the
\* checks run in a loop of their own before the transaction.
THEOREM IngestionAuthorized == UsageSpec => []FactsAuthorized
  <1>1. UsageInv => FactsAuthorized
    BY DEF UsageInv
  <1> QED
    BY <1>1, UsageInvariant, PTL
-----------------------------------------------------------------------------
(***************************************************************************)
(* What callers are told.  The results of a request are collected while    *)
(* others commit; they name rows that are committed or its own.            *)
(***************************************************************************)

\* How many results there are, and what each one names: the key of its input,
\* committed or held by this transaction.
ResultCount(r) ==
    /\ pc[r] \in {"idle", "check"} => results[r] = <<>>
    /\ pc[r] \in {"claim", "select"} => Len(results[r]) + 1 = idx[r]
    /\ pc[r] = "insert" => Len(results[r]) = idx[r]
    /\ pc[r] = "events" \/ pc[r] = "commit" \/ pc[r] = "fetch" \/ reply[r] = "ok" =>
           Len(results[r]) = Len(Items(r))
Names(r, i, k) ==
    /\ k.fact = results[r][i].fact /\ k.event = Key(r, i)
    /\ k.scope = Items(r)[i].scope /\ k.code = Items(r)[i].code
    /\ results[r][i].dup <=> k.fact # <<r, i>>
ResultsName(r) ==
    \A i \in 1..Len(results[r]) : \E k \in keys \cup OwnKeys(r) : Names(r, i, k)
ViewPast(r) == \A v \in view[r] : v \subseteq keys
Replied(r) ==
    /\ reply[r] = "none" <=> pc[r] # "done"
    /\ pc[r] = "fetch" => sub[r].adjust

AnswerInv ==
    /\ UsageInv
    /\ \A r \in Requests :
         ResultCount(r) /\ ResultsName(r) /\ ViewPast(r) /\ Replied(r)
    /\ BatchAtomic

LEMMA ResultsSeq ==
    ASSUME TypeInv, NEW r \in Requests
    PROVE  /\ results[r] \in Seq(Result) /\ Len(results[r]) \in Nat
           /\ DOMAIN results[r] = 1..Len(results[r])
  <1>1. results[r] \in Seq(Result)
    BY DEF TypeInv, UsageTypeOK
  <1> QED
    BY <1>1

Answers(r) == ResultCount(r) /\ ResultsName(r) /\ ViewPast(r) /\ Replied(r)

\* Committed keys are never removed, so the others' results stay good.
LEMMA FrameAnswers ==
    ASSUME AnswerInv, NEW r \in Requests, Frame(r), keys \subseteq keys', Answers(r)'
    PROVE  \A q \in Requests : Answers(q)'
  <1> SUFFICES ASSUME NEW q \in Requests, q # r PROVE Answers(q)'
    OBVIOUS
  <1>1. /\ pc'[q] = pc[q] /\ idx'[q] = idx[q] /\ claimed'[q] = claimed[q]
        /\ view'[q] = view[q] /\ results'[q] = results[q] /\ reply'[q] = reply[q]
        /\ sub' = sub /\ Items(q)' = Items(q)
        /\ \A i : Key(q, i)' = Key(q, i) /\ NewKey(q, i)' = NewKey(q, i)
    BY SameBatch DEF Frame
  <1>2. ResultCount(q) /\ ResultsName(q) /\ ViewPast(q) /\ Replied(q)
    BY DEF AnswerInv
  <1>3. OwnKeys(q)' = OwnKeys(q)
    BY <1>1 DEF OwnKeys
  <1>4. ResultCount(q)'
    BY <1>1, <1>2 DEF ResultCount
  <1>5. ResultsName(q)'
    <2>1. \A i, k : Names(q, i, k)' <=> Names(q, i, k)
      BY <1>1 DEF Names
    <2> QED
      BY <1>1, <1>2, <1>3, <2>1 DEF ResultsName
  <1>6. ViewPast(q)'
    BY <1>1, <1>2 DEF ViewPast
  <1>7. Replied(q)'
    BY <1>1, <1>2 DEF Replied
  <1> QED
    BY <1>4, <1>5, <1>6, <1>7 DEF Answers

\* A step that commits nothing keeps BatchAtomic if its request's reply does.
LEMMA QuietAtomic ==
    ASSUME AnswerInv, NEW r \in Requests, Frame(r), UNCHANGED <<keys, facts>>,
           \/ reply'[r] = reply[r] \/ reply'[r] = "ok"
           \/ FactsOf(r) = {} \/ sub[r].adjust
    PROVE  BatchAtomic'
  <1>1. sub' = sub /\ \A q \in Requests \ {r} : reply'[q] = reply[q]
    BY DEF Frame
  <1>2. \A q \in Requests : /\ FactsOf(q)' = FactsOf(q) /\ Items(q)' = Items(q)
                            /\ \A i : Key(q, i)' = Key(q, i)
    BY <1>1, SameBatch DEF FactsOf
  <1>3. ASSUME NEW q \in Requests
        PROVE  \/ FactsOf(q)' = {}
               \/ \A i \in DOMAIN Items(q)' : HasKey(keys', Key(q, i)')
    BY <1>2 DEF AnswerInv, BatchAtomic
  <1>4. ASSUME NEW q \in Requests, reply'[q] \notin {"none", "ok", "internal"},
               ~sub'[q].adjust
        PROVE  FactsOf(q)' = {}
    BY <1>1, <1>2, <1>4 DEF AnswerInv, BatchAtomic
  <1> QED
    BY <1>3, <1>4 DEF BatchAtomic, HasKey

LEMMA NoFactsYet ==
    ASSUME UsageInv, NEW r \in Requests, pc[r] \notin {"fetch", "done"}
    PROVE  FactsOf(r) = {}
  BY DEF UsageInv, Settled, FactsOf

LEMMA FailAnswers ==
    ASSUME AnswerInv, NEW r \in Requests, pc[r] # "done", NEW a \in ErrorReplies, Fail(r, a)
    PROVE  (\A q \in Requests : Answers(q)') /\ BatchAtomic'
  <1>1. a \in Replies /\ a # "none" /\ a # "ok" /\ UsageInv /\ TypeInv
    BY DEF ErrorReplies, AnswerInv, UsageInv
  <1>2. /\ Frame(r) /\ Released(r) /\ Answered(r, a, <<>>)
        /\ keys' = keys /\ facts' = facts
    BY <1>1, FailEffect
  <1>3. /\ pc'[r] = "done" /\ reply'[r] = a /\ results'[r] = <<>> /\ view'[r] = {}
        /\ Len(<<>>) = 0
    BY <1>2 DEF Answered, Released
  <1>4. Answers(r)'
    BY <1>1, <1>3 DEF Answers, ResultCount, ResultsName, ViewPast, Replied
  <1>5. FactsOf(r) = {} \/ sub[r].adjust
    BY <1>1, NoFactsYet DEF AnswerInv, Replied
  <1> QED
    BY <1>2, <1>4, <1>5, FrameAnswers, QuietAtomic

\* A step of r that leaves its results, keys and reply alone.
LEMMA SameAnswers ==
    ASSUME AnswerInv, NEW r \in Requests, Frame(r),
           UNCHANGED <<keys, facts, results, reply, claimed>>,
           ResultCount(r)', ViewPast(r)', Replied(r)'
    PROVE  (\A q \in Requests : Answers(q)') /\ BatchAtomic'
  <1>1. /\ Items(r)' = Items(r) /\ ResultsName(r)
        /\ \A i : Key(r, i)' = Key(r, i) /\ NewKey(r, i)' = NewKey(r, i)
    BY SameBatch DEF Frame, AnswerInv
  <1>2. OwnKeys(r)' = OwnKeys(r)
    BY <1>1 DEF OwnKeys
  <1>3. ResultsName(r)'
    BY <1>1, <1>2 DEF ResultsName, Names
  <1> QED
    BY <1>3, FrameAnswers, QuietAtomic DEF Answers

LEMMA PlainAnswers ==
    ASSUME AnswerInv, NEW r \in Requests,
           StartBatch(r) \/ AcceptItem(r) \/ InsertUsage(r) \/ AddEvents(r)
    PROVE  (\A q \in Requests : Answers(q)') /\ BatchAtomic'
  <1>1. /\ UsageInv /\ TypeInv /\ ResultCount(r) /\ ViewPast(r) /\ Replied(r)
        /\ Len(<<>>) = 0
    BY DEF AnswerInv, UsageInv
  <1>2. CASE StartBatch(r)
    <2>1. /\ Frame(r) /\ pc[r] = "idle" /\ pc'[r] = "check"
          /\ UNCHANGED <<keys, facts, results, reply, claimed, view>>
      BY <1>1, <1>2, StartEffect
    <2> QED
      BY <1>1, <2>1, SameAnswers DEF ResultCount, ViewPast, Replied
  <1>3. CASE AcceptItem(r)
    <2>1. /\ Frame(r) /\ sub' = sub
          /\ pc'[r] = "check" \/ (pc'[r] = "claim" /\ idx'[r] = 1)
          /\ UNCHANGED <<keys, facts, results, reply, claimed, view>>
      BY <1>1, <1>3, AcceptEffect DEF Frame
    <2>2. pc[r] = "check" /\ Items(r)' = Items(r)
      BY <1>3, <2>1 DEF AcceptItem, Items
    <2> QED
      BY <1>1, <2>1, <2>2, SameAnswers DEF ResultCount, ViewPast, Replied
  <1>4. CASE InsertUsage(r)
    <2>1. /\ Frame(r) /\ pc[r] = "insert" /\ idx[r] \in Nat /\ sub' = sub
          /\ UNCHANGED <<keys, facts, results, reply, claimed, view>>
          /\ \/ idx'[r] = idx[r] + 1 /\ pc'[r] = "claim"
             \/ idx[r] = Len(Items(r)) /\ pc'[r] = "events"
      BY <1>1, <1>4, InsertEffect DEF TypeInv, UsageTypeOK, Frame
    <2>2. Items(r)' = Items(r)
      BY <2>1 DEF Items
    <2> QED
      BY <1>1, <2>1, <2>2, SameAnswers DEF ResultCount, ViewPast, Replied
  <1>5. CASE AddEvents(r)
    <2>1. /\ Frame(r) /\ pc[r] = "events" /\ pc'[r] = "commit" /\ sub' = sub
          /\ UNCHANGED <<keys, facts, results, reply, claimed, view>>
      BY <1>1, <1>5, EventsEffect DEF Frame
    <2>2. Items(r)' = Items(r)
      BY <2>1 DEF Items
    <2> QED
      BY <1>1, <2>1, <2>2, SameAnswers DEF ResultCount, ViewPast, Replied
  <1> QED
    BY <1>2, <1>3, <1>4, <1>5

\* One more result, for the input the claiming loop is at.
LEMMA AppendNames ==
    ASSUME AnswerInv, NEW r \in Requests, Frame(r), UNCHANGED keys,
           OwnKeys(r) \subseteq OwnKeys(r)', idx[r] = Len(results[r]) + 1,
           NEW x \in Result, results'[r] = Append(results[r], x),
           NEW k \in keys \cup OwnKeys(r)', k.fact = x.fact, k.event = Key(r, idx[r]),
           SameScope(r, k), x.dup <=> k.fact # <<r, idx[r]>>
    PROVE  ResultsName(r)' /\ Len(results'[r]) = idx[r]
  <1>1. /\ results[r] \in Seq(Result) /\ Len(results[r]) \in Nat /\ ResultsName(r)
        /\ Items(r)' = Items(r) /\ \A i : Key(r, i)' = Key(r, i)
    BY ResultsSeq, SameBatch DEF AnswerInv, UsageInv, Frame
  <1>2. /\ Len(results'[r]) = idx[r] /\ results'[r][idx[r]] = x
        /\ \A i \in 1..Len(results[r]) : results'[r][i] = results[r][i]
    BY <1>1
  <1>3. ASSUME NEW i \in 1..Len(results[r])
        PROVE  \E j \in keys' \cup OwnKeys(r)' : Names(r, i, j)'
    <2>1. PICK j \in keys \cup OwnKeys(r) : Names(r, i, j)
      BY <1>1 DEF ResultsName
    <2>2. Names(r, i, j)'
      BY <1>1, <1>2, <2>1 DEF Names
    <2> QED
      BY <2>1, <2>2
  <1>4. PICK n : n = idx[r]
    OBVIOUS
  <1>5. Names(r, n, k)'
    <2>1. k.scope = Items(r)[n].scope /\ k.code = Items(r)[n].code
      BY <1>4 DEF SameScope, Current
    <2>2. k.fact = results'[r][n].fact /\ (results'[r][n].dup <=> k.fact # <<r, n>>)
      BY <1>2, <1>4
    <2>3. k.event = Key(r, n)'
      BY <1>1, <1>4
    <2> QED
      BY <1>1, <2>1, <2>2, <2>3 DEF Names
  <1>6. \A i \in 1..Len(results'[r]) : i \in 1..Len(results[r]) \/ i = n
    BY <1>1, <1>2, <1>4
  <1>7. \A i \in 1..Len(results'[r]) : \E j \in keys' \cup OwnKeys(r)' : Names(r, i, j)'
    BY <1>3, <1>5, <1>6
  <1> QED
    BY <1>2, <1>7 DEF ResultsName

LEMMA ClaimAnswers ==
    ASSUME AnswerInv, NEW r \in Requests, ClaimInsert(r)
    PROVE  (\A q \in Requests : Answers(q)') /\ BatchAtomic'
  <1>1. /\ UsageInv /\ TypeInv /\ ResultCount(r) /\ ViewPast(r) /\ Replied(r)
        /\ Len(results[r]) \in Nat
    BY ResultsSeq DEF AnswerInv, UsageInv
  <1>2. /\ Frame(r) /\ sub' = sub /\ UNCHANGED <<keys, facts, idx, view, reply>>
        /\ pc[r] = "claim"
    BY <1>1, ClaimEffect DEF Frame
  <1>3. /\ Items(r)' = Items(r)
        /\ \A i : Key(r, i)' = Key(r, i) /\ NewKey(r, i)' = NewKey(r, i)
    BY <1>2, SameBatch
  <1>4. idx[r] = Len(results[r]) + 1 /\ reply[r] = "none"
    BY <1>1, <1>2 DEF ResultCount, Replied
  <1>5. CASE pc'[r] = "select" /\ UNCHANGED <<claimed, results>>
    BY <1>1, <1>2, <1>4, <1>5, SameAnswers DEF ResultCount, ViewPast, Replied
  <1>6. CASE /\ pc'[r] = "insert" /\ claimed'[r] = claimed[r] \cup {idx[r]}
             /\ [fact |-> <<r, idx[r]>>, dup |-> FALSE] \in Result
             /\ results'[r] =
                  Append(results[r], [fact |-> <<r, idx[r]>>, dup |-> FALSE])
    <2> DEFINE x == [fact |-> <<r, idx[r]>>, dup |-> FALSE]
               k == NewKey(r, idx[r])
    <2>1. OwnKeys(r) \subseteq OwnKeys(r)' /\ k \in OwnKeys(r)'
      BY <1>3, <1>6 DEF OwnKeys
    <2>2. /\ k.fact = x.fact /\ k.event = Key(r, idx[r]) /\ SameScope(r, k)
          /\ x.dup <=> k.fact # <<r, idx[r]>>
      BY NewRows DEF SameScope, Current
    <2>3. x \in Result /\ results'[r] = Append(results[r], x)
      BY <1>6
    <2> HIDE DEF x, k
    <2>4. ResultsName(r)' /\ Len(results'[r]) = idx[r]
      BY <1>2, <1>4, <2>1, <2>2, <2>3, AppendNames
    <2>5. ResultCount(r)' /\ ViewPast(r)' /\ Replied(r)'
      BY <1>1, <1>2, <1>4, <1>6, <2>4 DEF ResultCount, ViewPast, Replied
    <2> QED
      BY <1>2, <2>4, <2>5, FrameAnswers, QuietAtomic DEF Answers
  <1> QED
    BY <1>1, <1>5, <1>6, ClaimEffect

\* A duplicate names a fact of another input: committed by another request, or
\* claimed earlier in this batch.  What the SELECT sees is committed already,
\* under either isolation level.
LEMMA DuplicateAnswers ==
    ASSUME AnswerInv, NEW r \in Requests, ClaimDuplicate(r)
    PROVE  (\A q \in Requests : Answers(q)') /\ BatchAtomic'
  <1>1. /\ UsageInv /\ TypeInv /\ ResultCount(r) /\ ViewPast(r) /\ Replied(r)
        /\ Len(results[r]) \in Nat
    BY ResultsSeq DEF AnswerInv, UsageInv
  <1>2. /\ Frame(r) /\ sub' = sub /\ UNCHANGED <<keys, facts, claimed, reply>>
        /\ pc[r] = "select" /\ idx[r] \in 1..Len(Items(r))
        /\ view'[r] = view[r] \/ view'[r] = {Snapshot(r)}
        /\ \/ idx'[r] = idx[r] + 1 /\ pc'[r] = "claim"
           \/ idx[r] = Len(Items(r)) /\ pc'[r] = "events"
    BY <1>1, DuplicateEffect DEF Frame
  <1>3. PICK row \in ExistingKeys(r) :
          /\ SameScope(r, row) /\ [fact |-> row.fact, dup |-> TRUE] \in Result
          /\ results'[r] = Append(results[r], [fact |-> row.fact, dup |-> TRUE])
    BY <1>1, DuplicateEffect
  <1>4. Snapshot(r) \subseteq keys
    BY <1>1 DEF Snapshot, ViewPast
  <1>5. row \in keys \cup OwnKeys(r) /\ row.event = Key(r, idx[r])
    BY <1>4 DEF ExistingKeys
  <1>6. row.fact # <<r, idx[r]>>
    <2>1. CASE row \in keys
      <3>1. PICK f \in facts : f.id = row.fact
        BY <1>1, <2>1 DEF UsageInv, OneFactPerEvent
      <3>2. f.id[1] # r
        BY <1>1, <1>2 DEF UsageInv, Settled
      <3> QED
        BY <3>1, <3>2
    <2>2. ASSUME NEW j \in claimed[r], row = NewKey(r, j) PROVE row.fact # <<r, idx[r]>>
      <3>1. j < idx[r] /\ j \in Nat /\ idx[r] \in Nat
        BY <1>1, <1>2 DEF UsageInv, Progress, TypeInv, UsageTypeOK
      <3> QED
        BY <2>2, <3>1, NewRows
    <2> QED
      BY <1>5, <2>1, <2>2 DEF OwnKeys
  <1>7. /\ Items(r)' = Items(r) /\ OwnKeys(r)' = OwnKeys(r)
    BY <1>2, SameBatch DEF OwnKeys
  <1>8. idx[r] = Len(results[r]) + 1 /\ reply[r] = "none" /\ idx[r] \in Nat
    BY <1>1, <1>2 DEF ResultCount, Replied
  <1>9. ResultsName(r)' /\ Len(results'[r]) = idx[r]
    <2> DEFINE x == [fact |-> row.fact, dup |-> TRUE]
    <2>1. /\ row.fact = x.fact /\ x.dup <=> row.fact # <<r, idx[r]>>
          /\ x \in Result /\ results'[r] = Append(results[r], x)
      BY <1>3, <1>6
    <2> HIDE DEF x
    <2> QED
      BY <1>2, <1>3, <1>5, <1>7, <1>8, <2>1, AppendNames
  <1>10. ViewPast(r)'
    BY <1>1, <1>2, <1>4 DEF ViewPast
  <1>11. ResultCount(r)' /\ Replied(r)'
    BY <1>1, <1>2, <1>7, <1>8, <1>9 DEF ResultCount, Replied
  <1> QED
    BY <1>2, <1>9, <1>10, <1>11, FrameAnswers, QuietAtomic DEF Answers

\* At the commit every result names a committed key.
LEMMA CommitAnswers ==
    ASSUME AnswerInv, NEW r \in Requests, Commit(r) \/ CommitUnacknowledged(r)
    PROVE  (\A q \in Requests : Answers(q)') /\ BatchAtomic'
  <1>1. /\ UsageInv /\ TypeInv /\ ResultCount(r) /\ ResultsName(r) /\ Replied(r)
        /\ Len(<<>>) = 0
    BY DEF AnswerInv, UsageInv
  <1>2. /\ Frame(r) /\ sub' = sub /\ Released(r) /\ ApplyBatch(r) /\ pc[r] = "commit"
        /\ \/ /\ pc'[r] = "fetch" /\ sub[r].adjust /\ results'[r] = results[r]
              /\ reply'[r] = reply[r]
           \/ /\ pc'[r] = "done" /\ reply'[r] = "ok" /\ results'[r] = results[r]
           \/ /\ pc'[r] = "done" /\ reply'[r] = "internal" /\ results'[r] = <<>>
    BY <1>1, CommitEffect DEF Frame
  <1>3. /\ keys' = keys \cup OwnKeys(r) /\ view'[r] = {}
        /\ \A q \in Requests : Items(q)' = Items(q) /\ \A i : Key(q, i)' = Key(q, i)
    BY <1>2, SameBatch DEF ApplyBatch, Released
  <1>4. Len(results[r]) = Len(Items(r)) /\ reply[r] = "none"
    BY <1>1, <1>2 DEF ResultCount, Replied
  <1>5. ResultsName(r)'
    <2>1. CASE results'[r] = <<>>
      BY <1>1, <2>1 DEF ResultsName
    <2>2. CASE results'[r] = results[r]
      <3>1. \A i, k : Names(r, i, k)' <=> Names(r, i, k)
        BY <1>3, <2>2 DEF Names
      <3> QED
        BY <1>1, <1>3, <2>2, <3>1 DEF ResultsName
    <2> QED
      BY <1>2, <2>1, <2>2
  <1>6. ResultCount(r)' /\ ViewPast(r)' /\ Replied(r)'
    BY <1>2, <1>3, <1>4 DEF ResultCount, ViewPast, Replied
  <1>7. \A q \in Requests : Answers(q)'
    BY <1>2, <1>3, <1>5, <1>6, FrameAnswers DEF Answers
  <1>8. \A i \in DOMAIN Items(r) : HasKey(keys', Key(r, i))
    <2>1. ASSUME NEW i \in 1..Len(Items(r)) PROVE HasKey(keys', Key(r, i))
      BY <1>1, <1>3, <1>4 DEF ResultsName, Names, HasKey
    <2> QED
      BY <1>1, <2>1, ItemsType DEF TypeInv
  <1>9. \A q \in Requests \ {r} : FactsOf(q)' = FactsOf(q)
    <2>1. \A f \in OwnFacts(r) : f.id[1] = r
      BY NewRows DEF OwnFacts
    <2>2. facts' = facts \cup OwnFacts(r)
      BY <1>2 DEF ApplyBatch
    <2> QED
      BY <2>1, <2>2 DEF FactsOf
  <1>10. ASSUME NEW q \in Requests
         PROVE  \/ FactsOf(q)' = {}
                \/ \A i \in DOMAIN Items(q)' : HasKey(keys', Key(q, i)')
    <2>1. CASE q = r
      BY <1>3, <1>8, <2>1
    <2>2. CASE q # r
      <3>1. FactsOf(q) = {} \/ \A i \in DOMAIN Items(q) : HasKey(keys, Key(q, i))
        BY DEF AnswerInv, BatchAtomic
      <3>2. \A k : HasKey(keys, k) => HasKey(keys', k)
        BY <1>3 DEF HasKey
      <3> QED
        BY <1>3, <1>9, <2>2, <3>1, <3>2
    <2> QED
      BY <2>1, <2>2
  <1>11. ASSUME NEW q \in Requests, reply'[q] \notin {"none", "ok", "internal"},
                ~sub'[q].adjust
         PROVE  FactsOf(q)' = {}
    <2>1. q # r
      BY <1>2, <1>4, <1>11
    <2> QED
      BY <1>2, <1>9, <1>11, <2>1 DEF AnswerInv, BatchAtomic, Frame
  <1> QED
    BY <1>7, <1>10, <1>11 DEF BatchAtomic, HasKey

LEMMA FetchAnswers ==
    ASSUME AnswerInv, NEW r \in Requests, FetchOk(r)
    PROVE  (\A q \in Requests : Answers(q)') /\ BatchAtomic'
  <1>1. /\ UsageInv /\ TypeInv /\ ResultCount(r) /\ ResultsName(r) /\ pc[r] = "fetch"
    BY DEF AnswerInv, UsageInv, FetchOk
  <1>2. /\ Frame(r) /\ Released(r) /\ Answered(r, "ok", results[r])
        /\ keys' = keys /\ facts' = facts
    BY <1>1, FetchEffect
  <1>3. /\ pc'[r] = "done" /\ reply'[r] = "ok" /\ results'[r] = results[r]
        /\ view'[r] = {} /\ claimed'[r] = {} /\ claimed[r] = {} /\ sub' = sub
    BY <1>1, <1>2 DEF Answered, Released, Frame, UsageInv, Progress, InTx
  <1>4. /\ Items(r)' = Items(r) /\ \A i : Key(r, i)' = Key(r, i)
        /\ OwnKeys(r) = {} /\ OwnKeys(r)' = {}
    BY <1>3, SameBatch DEF OwnKeys
  <1>5. ResultsName(r)'
    <2>1. \A i, k : Names(r, i, k)' <=> Names(r, i, k)
      BY <1>3, <1>4 DEF Names
    <2> QED
      BY <1>1, <1>2, <1>3, <1>4, <2>1 DEF ResultsName
  <1>6. ResultCount(r)' /\ ViewPast(r)' /\ Replied(r)'
    BY <1>1, <1>3, <1>4 DEF ResultCount, ViewPast, Replied
  <1> QED
    BY <1>2, <1>3, <1>5, <1>6, FrameAnswers, QuietAtomic DEF Answers

LEMMA AnswerInvInit == UsageInit => AnswerInv
  <1> SUFFICES ASSUME UsageInit PROVE AnswerInv
    OBVIOUS
  <1>1. /\ facts = {} /\ Len(<<>>) = 0
        /\ \A r \in Requests : /\ pc[r] = "idle" /\ results[r] = <<>> /\ view[r] = {}
                               /\ reply[r] = "none"
    BY DEF UsageInit
  <1>2. UsageInv
    BY UsageInvInit
  <1>3. \A r \in Requests : ResultCount(r) /\ ResultsName(r) /\ ViewPast(r) /\ Replied(r)
    BY <1>1 DEF ResultCount, ResultsName, ViewPast, Replied
  <1>4. BatchAtomic
    BY <1>1 DEF BatchAtomic, FactsOf
  <1> QED
    BY <1>2, <1>3, <1>4 DEF AnswerInv

LEMMA AnswersUntouched ==
    ASSUME AnswerInv, UNCHANGED usageVars
    PROVE  (\A q \in Requests : Answers(q)') /\ BatchAtomic'
  <1>1. UNCHANGED <<keys, facts, sub, pc, idx, claimed, view, results, reply>>
    BY DEF usageVars, tables, locals
  <1>2. \A q \in Requests : /\ Items(q)' = Items(q) /\ OwnKeys(q)' = OwnKeys(q)
                            /\ FactsOf(q)' = FactsOf(q)
                            /\ \A i : Key(q, i)' = Key(q, i)
    BY <1>1, SameBatch DEF OwnKeys, FactsOf
  <1>3. \A q \in Requests : ResultCount(q)' /\ ViewPast(q)' /\ Replied(q)'
    BY <1>1, <1>2 DEF AnswerInv, ResultCount, ViewPast, Replied
  <1>4. ASSUME NEW q \in Requests PROVE ResultsName(q)'
    <2>1. \A i, k : Names(q, i, k)' <=> Names(q, i, k)
      BY <1>1, <1>2 DEF Names
    <2> QED
      BY <1>1, <1>2, <2>1 DEF AnswerInv, ResultsName
  <1>5. BatchAtomic'
    BY <1>1, <1>2 DEF AnswerInv, BatchAtomic, HasKey
  <1> QED
    BY <1>3, <1>4, <1>5 DEF Answers

LEMMA AnswerInvStep == AnswerInv /\ [UsageNext]_vars => AnswerInv'
  <1> SUFFICES ASSUME AnswerInv, [UsageNext]_vars PROVE AnswerInv'
    OBVIOUS
  <1>1. UsageInv' /\ TypeInv
    BY UsageInvStep DEF AnswerInv, UsageInv
  <1>2. CASE UNCHANGED usageVars
    BY <1>1, <1>2, AnswersUntouched DEF AnswerInv, Answers
  <1>3. ASSUME NEW r \in Requests,
               \/ RefuseBatch(r) \/ StartBatch(r) \/ RequestStep(r)
               \/ CommitUnacknowledged(r) \/ Abort(r)
        PROVE  (\A q \in Requests : Answers(q)') /\ BatchAtomic'
    BY <1>1, <1>3, RequestCases, FailAnswers, PlainAnswers, ClaimAnswers,
       DuplicateAnswers, CommitAnswers, FetchAnswers
  <1> QED
    BY <1>1, <1>2, <1>3 DEF UsageNext, vars, AnswerInv, Answers

LEMMA AnswerInvariant == UsageSpec => []AnswerInv
  BY AnswerInvInit, AnswerInvStep, PTL DEF UsageSpec

\* Outside its transaction a request's results name committed facts.
LEMMA ResultsRecorded ==
    ASSUME AnswerInv, NEW r \in Requests, ~InTx(r), NEW i \in 1..Len(results[r])
    PROVE  \E f \in facts :
             /\ f.id = results[r][i].fact
             /\ Collate[f.event] = Key(r, i)
             /\ f.scope = Items(r)[i].scope /\ f.code = Items(r)[i].code
             /\ results[r][i].dup <=> f.id # <<r, i>>
  <1>1. OwnKeys(r) = {}
    BY DEF AnswerInv, UsageInv, Progress, OwnKeys
  <1>2. PICK k \in keys : Names(r, i, k)
    BY <1>1 DEF AnswerInv, ResultsName
  <1>3. PICK f \in facts : /\ f.id = k.fact /\ Collate[f.event] = k.event
                           /\ f.scope = k.scope /\ f.code = k.code
    BY DEF AnswerInv, UsageInv, OneFactPerEvent
  <1> QED
    BY <1>2, <1>3 DEF Names

\* A caller told "ok" has a committed fact behind every input of its batch, and
\* the duplicate flag is right, whatever ran concurrently, on either driver.
THEOREM AnswersRecorded == UsageSpec => []AcknowledgedIsRecorded
  <1>1. ASSUME AnswerInv PROVE AcknowledgedIsRecorded
    <2> SUFFICES ASSUME NEW r \in Requests, reply[r] = "ok"
                 PROVE  /\ Len(results[r]) = Len(Items(r))
                        /\ \A i \in DOMAIN results[r] : \E f \in facts :
                             /\ f.id = results[r][i].fact
                             /\ Collate[f.event] = Key(r, i)
                             /\ f.scope = Items(r)[i].scope
                             /\ f.code = Items(r)[i].code
                             /\ results[r][i].dup <=> f.id # <<r, i>>
      BY DEF AcknowledgedIsRecorded
    <2>1. pc[r] = "done" /\ Len(results[r]) = Len(Items(r))
      BY <1>1 DEF AnswerInv, ResultCount, Replied
    <2>2. ~InTx(r) /\ DOMAIN results[r] = 1..Len(results[r])
      BY <1>1, <2>1, ResultsSeq DEF InTx, AnswerInv, UsageInv
    <2> QED
      BY <1>1, <2>1, <2>2, ResultsRecorded
  <1> QED
    BY <1>1, AnswerInvariant, PTL

\* All of a batch or nothing of it, and nothing after a definite refusal.
THEOREM BatchesAtomic == UsageSpec => []BatchAtomic
  <1>1. AnswerInv => BatchAtomic
    BY DEF AnswerInv
  <1> QED
    BY <1>1, AnswerInvariant, PTL

\* AdjustUsage finds the fact it has just recorded or duplicated.
THEOREM AdjustmentsReadable == UsageSpec => []AdjustmentReadable
  <1>1. ASSUME AnswerInv PROVE AdjustmentReadable
    <2> SUFFICES ASSUME NEW r \in Requests, pc[r] = "fetch"
                 PROVE  \E f \in facts :
                          f.id = results[r][1].fact /\ f.scope = Items(r)[1].scope
      BY DEF AdjustmentReadable
    <2>1. /\ ~InTx(r) /\ Len(results[r]) = Len(Items(r)) /\ Len(Items(r)) >= 1
          /\ Len(results[r]) \in Nat
      BY <1>1, ResultsSeq DEF InTx, AnswerInv, UsageInv, TypeInv, PositionOK, ResultCount
    <2>2. 1 \in 1..Len(results[r])
      BY <2>1
    <2> QED
      BY <1>1, <2>1, <2>2, ResultsRecorded
  <1> QED
    BY <1>1, AnswerInvariant, PTL

-----------------------------------------------------------------------------
(***************************************************************************)
(* UsageIngestion implements UsageLedger: an error is a refusal, either    *)
(* commit posts the whole batch, the read of AdjustUsage confirms it, and  *)
(* every other step is invisible.                                          *)
(***************************************************************************)

\* What AnswerInv leaves open: a result never names an input of its own batch
\* that comes after it.
Backward(r) ==
    \A i \in 1..Len(results[r]) :
        results[r][i].fact[1] = r => results[r][i].fact[2] <= i

LedgerInv == AnswerInv /\ \A r \in Requests : Backward(r)

-----------------------------------------------------------------------------
LEMMA BackwardFrame ==
    ASSUME \A q \in Requests : Backward(q), NEW r \in Requests, Frame(r), Backward(r)'
    PROVE  \A q \in Requests : Backward(q)'
  BY DEF Backward, Frame

LEMMA BackwardKept ==
    ASSUME NEW r \in Requests, Backward(r), results'[r] = results[r] \/ results'[r] = <<>>
    PROVE  Backward(r)'
  <1>1. Len(<<>>) = 0 /\ 1..0 = {}
    OBVIOUS
  <1> QED
    BY <1>1 DEF Backward

LEMMA BackwardAppend ==
    ASSUME TypeInv, NEW r \in Requests, Backward(r), NEW x \in Result,
           results'[r] = Append(results[r], x), Len(results[r]) + 1 = idx[r],
           x.fact[1] = r => x.fact[2] <= idx[r]
    PROVE  Backward(r)'
  <1>1. results[r] \in Seq(Result) /\ Len(results[r]) \in Nat
    BY ResultsSeq
  <1>2. /\ Len(results'[r]) = idx[r] /\ results'[r][idx[r]] = x
        /\ \A i \in 1..Len(results[r]) : results'[r][i] = results[r][i]
    BY <1>1
  <1>3. \A i \in 1..Len(results'[r]) : i \in 1..Len(results[r]) \/ i = idx[r]
    BY <1>1, <1>2
  <1> QED
    BY <1>2, <1>3 DEF Backward

\* While r is in its transaction, no committed fact is its own.
LEMMA OthersFacts ==
    ASSUME UsageInv, NEW r \in Requests, InTx(r), NEW f \in facts
    PROVE  f.id[1] # r
  BY DEF UsageInv, Settled, InTx

LEMMA BackwardDuplicate ==
    ASSUME LedgerInv, NEW r \in Requests, ClaimDuplicate(r)
    PROVE  \A q \in Requests : Backward(q)'
  <1>1. /\ UsageInv /\ TypeInv /\ ResultCount(r) /\ ViewPast(r) /\ Backward(r)
    BY DEF LedgerInv, AnswerInv, UsageInv
  <1>2. /\ Frame(r) /\ pc[r] = "select" /\ idx[r] \in 1..Len(Items(r)) /\ InTx(r)
    BY <1>1, DuplicateEffect DEF InTx
  <1>3. PICK row \in ExistingKeys(r) :
          /\ [fact |-> row.fact, dup |-> TRUE] \in Result
          /\ results'[r] = Append(results[r], [fact |-> row.fact, dup |-> TRUE])
    BY <1>1, DuplicateEffect
  <1>4. row \in keys \cup OwnKeys(r)
    BY <1>1 DEF ExistingKeys, Snapshot, ViewPast
  <1>5. ASSUME row.fact[1] = r PROVE row.fact[2] <= idx[r]
    <2>1. CASE row \in keys
      <3>1. PICK f \in facts : f.id = row.fact
        BY <1>1, <2>1 DEF UsageInv, OneFactPerEvent
      <3> QED
        BY <1>1, <1>2, <1>5, <3>1, OthersFacts
    <2>2. ASSUME NEW i \in claimed[r], row = NewKey(r, i) PROVE row.fact[2] <= idx[r]
      <3>1. i < idx[r] /\ i \in Nat /\ idx[r] \in Nat
        BY <1>1, <1>2 DEF UsageInv, Progress, TypeInv, UsageTypeOK
      <3> QED
        BY <1>5, <2>2, <3>1, NewRows
    <2> QED
      BY <1>4, <2>1, <2>2 DEF OwnKeys
  <1>6. Len(results[r]) + 1 = idx[r]
    BY <1>1, <1>2 DEF ResultCount
  <1>7. Backward(r)'
    <2> DEFINE x == [fact |-> row.fact, dup |-> TRUE]
    <2>1. x \in Result /\ results'[r] = Append(results[r], x) /\ x.fact = row.fact
      BY <1>3
    <2> HIDE DEF x
    <2> QED
      BY <1>1, <1>5, <1>6, <2>1, BackwardAppend
  <1> QED
    BY <1>2, <1>7, BackwardFrame DEF LedgerInv

LEMMA BackwardClaim ==
    ASSUME LedgerInv, NEW r \in Requests, ClaimInsert(r)
    PROVE  \A q \in Requests : Backward(q)'
  <1>1. /\ UsageInv /\ TypeInv /\ ResultCount(r) /\ Backward(r) /\ idx[r] \in Nat
    BY DEF LedgerInv, AnswerInv, UsageInv, TypeInv, UsageTypeOK
  <1>2. Frame(r) /\ pc[r] = "claim" /\ Len(results[r]) + 1 = idx[r]
    BY <1>1, ClaimEffect DEF ResultCount
  <1>3. CASE UNCHANGED results
    BY <1>1, <1>2, <1>3, BackwardKept, BackwardFrame DEF LedgerInv
  <1>4. CASE /\ [fact |-> <<r, idx[r]>>, dup |-> FALSE] \in Result
             /\ results'[r] =
                  Append(results[r], [fact |-> <<r, idx[r]>>, dup |-> FALSE])
    <2> DEFINE x == [fact |-> <<r, idx[r]>>, dup |-> FALSE]
    <2>1. /\ x \in Result /\ results'[r] = Append(results[r], x)
          /\ x.fact[1] = r => x.fact[2] <= idx[r]
      BY <1>1, <1>4
    <2> HIDE DEF x
    <2>2. Backward(r)'
      BY <1>1, <1>2, <2>1, BackwardAppend
    <2> QED
      BY <1>2, <2>2, BackwardFrame DEF LedgerInv
  <1> QED
    BY <1>1, <1>3, <1>4, ClaimEffect

LEMMA LedgerInvStep == LedgerInv /\ [UsageNext]_vars => LedgerInv'
  <1> SUFFICES ASSUME LedgerInv, [UsageNext]_vars PROVE LedgerInv'
    OBVIOUS
  <1>1. AnswerInv /\ AnswerInv' /\ TypeInv /\ \A q \in Requests : Backward(q)
    BY AnswerInvStep DEF LedgerInv, AnswerInv, UsageInv
  <1>2. CASE UNCHANGED usageVars
    BY <1>1, <1>2 DEF LedgerInv, Backward, usageVars
  <1>3. ASSUME NEW r \in Requests,
               \/ RefuseBatch(r) \/ StartBatch(r) \/ RequestStep(r)
               \/ CommitUnacknowledged(r) \/ Abort(r)
        PROVE  \A q \in Requests : Backward(q)'
    <2>1. ASSUME NEW a \in ErrorReplies, Fail(r, a)
          PROVE  Frame(r) /\ results'[r] = <<>>
      BY <1>1, <2>1, FailEffect DEF ErrorReplies, Answered
    <2>2. ASSUME StartBatch(r) \/ AcceptItem(r) \/ InsertUsage(r) \/ AddEvents(r)
          PROVE  Frame(r) /\ results'[r] = results[r]
      BY <1>1, <2>2, StartEffect, AcceptEffect, InsertEffect, EventsEffect
    <2>3. ASSUME Commit(r) \/ CommitUnacknowledged(r)
          PROVE  Frame(r) /\ (results'[r] = results[r] \/ results'[r] = <<>>)
      BY <1>1, <2>3, CommitEffect
    <2>4. ASSUME FetchOk(r) PROVE Frame(r) /\ results'[r] = results[r]
      BY <1>1, <2>4, FetchEffect DEF Answered
    <2>5. ASSUME Frame(r), results'[r] = results[r] \/ results'[r] = <<>>
          PROVE  \A q \in Requests : Backward(q)'
      BY <1>1, <2>5, BackwardKept, BackwardFrame
    <2> QED
      BY <1>1, <1>3, <2>1, <2>2, <2>3, <2>4, <2>5, RequestCases, BackwardClaim,
         BackwardDuplicate
  <1> QED
    BY <1>1, <1>2, <1>3 DEF UsageNext, vars, LedgerInv

LEMMA LedgerInvInit == UsageInit => LedgerInv
  <1> SUFFICES ASSUME UsageInit PROVE LedgerInv
    OBVIOUS
  <1>1. Len(<<>>) = 0 /\ \A r \in Requests : results[r] = <<>>
    BY DEF UsageInit
  <1> QED
    BY <1>1, AnswerInvInit DEF LedgerInv, Backward

LEMMA LedgerInvariant == UsageSpec => []LedgerInv
  BY LedgerInvInit, LedgerInvStep, PTL DEF UsageSpec

-----------------------------------------------------------------------------
\* What each result says when its batch commits.  An event that is recorded
\* already is a duplicate of the recorded fact, ...
LEMMA RecordedResult ==
    ASSUME LedgerInv, NEW r \in Requests, pc[r] = "commit", NEW i \in 1..Len(Items(r)),
           NEW f \in facts, Collate[f.event] = Key(r, i)
    PROVE  /\ results[r][i] = [fact |-> f.id, dup |-> TRUE]
           /\ f.scope = Items(r)[i].scope /\ f.code = Items(r)[i].code
  <1>1. /\ UsageInv /\ TypeInv /\ ResultCount(r) /\ ResultsName(r) /\ InTx(r)
        /\ OneFactPerEvent /\ Fresh
    BY DEF LedgerInv, AnswerInv, UsageInv, InTx
  <1>2. /\ Len(results[r]) = Len(Items(r)) /\ results[r][i] \in Result
    BY <1>1, ResultsSeq DEF ResultCount
  <1>3. PICK k \in keys \cup OwnKeys(r) : Names(r, i, k)
    BY <1>1, <1>2 DEF ResultsName
  <1>4. k.event = Key(r, i) /\ k.fact = results[r][i].fact
    BY <1>3 DEF Names
  <1>5. k \in keys
    <2>1. PICK l \in keys : l.event = Collate[f.event]
      BY <1>1 DEF OneFactPerEvent
    <2>2. ASSUME NEW j \in claimed[r], k = NewKey(r, j) PROVE FALSE
      <3>1. Key(r, j) = l.event
        BY <1>4, <2>1, <2>2, NewRows
      <3> QED
        BY <1>1, <2>1, <3>1 DEF Fresh
    <2> QED
      BY <2>2 DEF OwnKeys
  <1>6. PICK g \in facts : /\ g.id = k.fact /\ Collate[g.event] = k.event
                           /\ g.scope = k.scope /\ g.code = k.code
    BY <1>1, <1>5 DEF OneFactPerEvent
  <1>7. g = f
    BY <1>1, <1>4, <1>6 DEF OneFactPerEvent
  <1>8. f.id # <<r, i>>
    BY <1>1, OthersFacts
  <1>9. results[r][i].fact = f.id /\ results[r][i].dup
    BY <1>3, <1>6, <1>7, <1>8 DEF Names
  <1>10. results[r][i].dup \in BOOLEAN /\
           results[r][i] = [fact |-> results[r][i].fact, dup |-> results[r][i].dup]
    BY <1>2 DEF Result
  <1>11. results[r][i].dup = TRUE
    BY <1>9, <1>10, Zenon
  <1> QED
    BY <1>3, <1>6, <1>7, <1>9, <1>10, <1>11 DEF Names

\* ... an input that holds its key comes before the others with that key, and
\* nothing is recorded for it yet, ...
LEMMA ClaimedLeads ==
    ASSUME LedgerInv, NEW r \in Requests, pc[r] = "commit", NEW j \in claimed[r]
    PROVE  /\ j \in 1..Len(Items(r))
           /\ \A f \in facts : Collate[f.event] # Key(r, j)
           /\ \A i \in 1..(j - 1) : Key(r, i) # Key(r, j)
  <1>1. /\ UsageInv /\ TypeInv /\ ResultCount(r) /\ ResultsName(r) /\ Backward(r)
        /\ OneFactPerEvent /\ Fresh /\ Exclusive /\ PositionOK(r)
    BY DEF LedgerInv, AnswerInv, UsageInv, TypeInv
  <1>2. j \in 1..Len(Items(r)) /\ Len(Items(r)) \in Nat /\ Len(results[r]) = Len(Items(r))
    BY <1>1, ItemsType DEF PositionOK, ResultCount, TypeInv
  <1>3. \A f \in facts : Collate[f.event] # Key(r, j)
    BY <1>1 DEF OneFactPerEvent, Fresh
  <1>4. ASSUME NEW i \in 1..(j - 1), Key(r, i) = Key(r, j) PROVE FALSE
    <2>1. i \in 1..Len(results[r]) /\ i \in Nat /\ i < j /\ j \in Nat
      BY <1>2
    <2>2. PICK k \in keys \cup OwnKeys(r) : Names(r, i, k)
      BY <1>1, <2>1 DEF ResultsName
    <2>3. k \notin keys
      BY <1>1, <1>4, <2>2 DEF Fresh, Names
    <2>4. PICK l \in claimed[r] : k = NewKey(r, l)
      BY <2>2, <2>3 DEF OwnKeys
    <2>5. Key(r, l) = Key(r, j) /\ k.fact = <<r, l>>
      BY <1>4, <2>2, <2>4, NewRows DEF Names
    <2>6. l = j
      BY <1>1, <2>5 DEF Exclusive
    <2>7. results[r][i].fact = <<r, j>>
      BY <2>2, <2>5, <2>6 DEF Names
    <2> QED
      BY <1>1, <2>1, <2>7 DEF Backward
  <1> QED
    BY <1>2, <1>3, <1>4

\* ... and any other input is a duplicate of the one that holds its key.
LEMMA NewResult ==
    ASSUME LedgerInv, NEW r \in Requests, pc[r] = "commit", NEW i \in 1..Len(Items(r)),
           \A f \in facts : Collate[f.event] # Key(r, i)
    PROVE  \E j \in claimed[r] :
             /\ j \in 1..i /\ Key(r, j) = Key(r, i)
             /\ results[r][i] = [fact |-> <<r, j>>, dup |-> j # i]
             /\ Items(r)[j].scope = Items(r)[i].scope /\ Items(r)[j].code = Items(r)[i].code
  <1>1. /\ UsageInv /\ TypeInv /\ ResultCount(r) /\ ResultsName(r) /\ Backward(r)
        /\ OneFactPerEvent
    BY DEF LedgerInv, AnswerInv, UsageInv
  <1>2. /\ Len(results[r]) = Len(Items(r)) /\ results[r][i] \in Result
        /\ Len(Items(r)) \in Nat
    BY <1>1, ResultsSeq, ItemsType DEF ResultCount, TypeInv
  <1>3. PICK k \in keys \cup OwnKeys(r) : Names(r, i, k)
    BY <1>1, <1>2 DEF ResultsName
  <1>4. k \notin keys
    BY <1>1, <1>3 DEF OneFactPerEvent, Names
  <1>5. PICK j \in claimed[r] : k = NewKey(r, j)
    BY <1>3, <1>4 DEF OwnKeys
  <1>6. /\ Key(r, j) = Key(r, i) /\ results[r][i].fact = <<r, j>>
        /\ Items(r)[j].scope = Items(r)[i].scope /\ Items(r)[j].code = Items(r)[i].code
        /\ results[r][i].dup <=> <<r, j>> # <<r, i>>
    BY <1>3, <1>5, NewRows DEF Names
  <1>7. j \in 1..i
    <2>1. j \in 1..Len(Items(r))
      BY ClaimedLeads
    <2> QED
      BY <1>1, <1>2, <1>6, <2>1 DEF Backward
  <1>8. results[r][i].dup = (j # i)
    <2>1. results[r][i].dup \in BOOLEAN
      BY <1>2 DEF Result
    <2>2. <<r, j>> # <<r, i>> <=> j # i
      OBVIOUS
    <2> QED
      BY <1>6, <2>1, <2>2, Zenon
  <1>9. results[r][i] = [fact |-> results[r][i].fact, dup |-> results[r][i].dup]
    BY <1>2 DEF Result
  <1> QED
    BY <1>6, <1>7, <1>8, <1>9

-----------------------------------------------------------------------------
(***************************************************************************)
(* The ledger's notions at the instant of the commit.                      *)
(***************************************************************************)
LEMMA LedgerBatch ==
    ASSUME NEW r \in Requests
    PROVE  /\ Ledger!Batch(r) = Items(r)
           /\ \A i : Ledger!FactFor(r, i) = NewFact(r, i)
           /\ \A i : Ledger!Existing(Items(r)[i]) =
                {f \in facts : Collate[f.event] = Key(r, i)}
           /\ \A i, j : Ledger!SameEvent(Items(r)[i], Items(r)[j]) <=> Key(r, i) = Key(r, j)
  BY DEF Ledger!Batch, Ledger!FactFor, Ledger!Existing, Ledger!SameEvent, Items, NewFact, Key

\* The first input of an event, if there is one, is its leader.
LEMMA LeaderIs ==
    ASSUME NEW r \in Requests, NEW i \in Nat, NEW j \in 1..i, Key(r, j) = Key(r, i),
           \A k \in 1..(j - 1) : Key(r, k) # Key(r, i)
    PROVE  Ledger!Leader(r, i) = j
  <1> DEFINE First(x) == /\ Key(r, x) = Key(r, i)
                         /\ \A k \in 1..(x - 1) : Key(r, k) # Key(r, i)
  <1>1. Ledger!Leader(r, i) = CHOOSE x \in 1..i : First(x)
    BY LedgerBatch DEF Ledger!Leader
  <1>2. First(j)
    OBVIOUS
  <1>3. ASSUME NEW x \in 1..i, First(x) PROVE x = j
    <2>1. ~(x < j) /\ ~(j < x)
      BY <1>2, <1>3
    <2> QED
      BY <2>1
  <1> HIDE DEF First
  <1> QED
    BY <1>1, <1>2, <1>3

\* The batch's new events are those whose keys the transaction holds.
LEMMA NewIsInserted ==
    ASSUME LedgerInv, NEW r \in Requests, pc[r] = "commit"
    PROVE  Ledger!New(r) = inserted[r] /\ inserted[r] = claimed[r]
  <1>1. /\ inserted[r] = claimed[r] /\ DOMAIN Items(r) = 1..Len(Items(r))
        /\ Len(Items(r)) \in Nat
    BY ItemsType DEF LedgerInv, AnswerInv, UsageInv, Progress, TypeInv
  <1> DEFINE Unknown(i) == \A f \in facts : Collate[f.event] # Key(r, i)
  <1>2. Ledger!New(r) = {i \in 1..Len(Items(r)) : Unknown(i) /\ Ledger!Leader(r, i) = i}
    <2>1. Ledger!Batch(r) = Items(r)
      BY LedgerBatch
    <2>2. \A i : Ledger!Existing(Items(r)[i]) = {} <=> Unknown(i)
      BY LedgerBatch
    <2> QED
      BY <1>1, <2>1, <2>2 DEF Ledger!New
  <1>3. ASSUME NEW j \in claimed[r]
        PROVE  j \in 1..Len(Items(r)) /\ Unknown(j) /\ Ledger!Leader(r, j) = j
    <2>1. /\ j \in 1..Len(Items(r)) /\ Unknown(j)
          /\ \A i \in 1..(j - 1) : Key(r, i) # Key(r, j)
      BY ClaimedLeads
    <2> QED
      BY <2>1, LeaderIs
  <1>4. ASSUME NEW i \in 1..Len(Items(r)), Unknown(i), Ledger!Leader(r, i) = i
        PROVE  i \in claimed[r]
    <2>1. PICK j \in claimed[r] : j \in 1..i /\ Key(r, j) = Key(r, i)
      BY <1>4, NewResult
    <2>2. \A k \in 1..(j - 1) : Key(r, k) # Key(r, i)
      BY <2>1, ClaimedLeads
    <2>3. Ledger!Leader(r, i) = j
      BY <2>1, <2>2, LeaderIs
    <2> QED
      BY <1>4, <2>1, <2>3
  <1> QED
    BY <1>1, <1>2, <1>3, <1>4

\* What the transaction has logged is what the ledger announces.
LEMMA LoggedIsAnnounced ==
    ASSUME LedgerInv, NEW r \in Requests, pc[r] = "commit"
    PROVE  Ledger!Announcements(r) = logged[r]
  <1>1. logged[r] = BatchEvents(r)
    BY DEF LedgerInv, AnswerInv, UsageInv, Progress
  <1> QED
    BY <1>1, NewIsInserted, LedgerBatch DEF Ledger!Announcements, BatchEvents, EventFor

\* Two inputs of one event agree with the row that their results name.
LEMMA BatchConsistent ==
    ASSUME LedgerInv, NEW r \in Requests, pc[r] = "commit"
    PROVE  Ledger!Consistent(r)
  <1>1. /\ DOMAIN Items(r) = 1..Len(Items(r)) /\ Exclusive
    BY ItemsType DEF LedgerInv, AnswerInv, UsageInv, TypeInv
  <1>2. ASSUME NEW i \in 1..Len(Items(r)), NEW f \in facts, Collate[f.event] = Key(r, i)
        PROVE  Ledger!SameUse(f, Items(r)[i])
    BY <1>2, RecordedResult DEF Ledger!SameUse
  <1>3. ASSUME NEW i \in 1..Len(Items(r)), NEW j \in 1..Len(Items(r)), Key(r, i) = Key(r, j)
        PROVE  Ledger!SameUse(Items(r)[i], Items(r)[j])
    <2>1. CASE \E f \in facts : Collate[f.event] = Key(r, i)
      <3>1. PICK f \in facts : Collate[f.event] = Key(r, i)
        BY <2>1
      <3>2. Collate[f.event] = Key(r, j)
        BY <1>3, <3>1
      <3>3. f.scope = Items(r)[i].scope /\ f.code = Items(r)[i].code
        BY <3>1, RecordedResult
      <3>4. f.scope = Items(r)[j].scope /\ f.code = Items(r)[j].code
        BY <3>2, RecordedResult
      <3> QED
        BY <3>3, <3>4 DEF Ledger!SameUse
    <2>2. CASE \A f \in facts : Collate[f.event] # Key(r, i)
      <3>1. PICK k \in claimed[r] :
              /\ Key(r, k) = Key(r, i) /\ Items(r)[k].scope = Items(r)[i].scope
              /\ Items(r)[k].code = Items(r)[i].code
        BY <2>2, NewResult
      <3>2. PICK l \in claimed[r] :
              /\ Key(r, l) = Key(r, j) /\ Items(r)[l].scope = Items(r)[j].scope
              /\ Items(r)[l].code = Items(r)[j].code
        <4>1. \A f \in facts : Collate[f.event] # Key(r, j)
          BY <1>3, <2>2
        <4> QED
          BY <4>1, NewResult
      <3>3. k = l
        BY <1>1, <1>3, <3>1, <3>2 DEF Exclusive
      <3> QED
        BY <3>1, <3>2, <3>3 DEF Ledger!SameUse
    <2> QED
      BY <2>1, <2>2
  <1> QED
    BY <1>1, <1>2, <1>3, LedgerBatch DEF Ledger!Consistent

\* A recorded fact is the only one of its event.
LEMMA TheExisting ==
    ASSUME LedgerInv, NEW r \in Requests, NEW i \in Nat, NEW f \in facts,
           Collate[f.event] = Key(r, i)
    PROVE  /\ Ledger!Existing(Items(r)[i]) # {}
           /\ (CHOOSE g \in Ledger!Existing(Items(r)[i]) : TRUE) = f
  <1>1. OneFactPerEvent
    BY DEF LedgerInv, AnswerInv, UsageInv
  <1>2. Ledger!Existing(Items(r)[i]) = {f}
    BY <1>1, LedgerBatch DEF OneFactPerEvent
  <1> QED
    BY <1>2

LEMMA ResultsFunction ==
    ASSUME LedgerInv, NEW r \in Requests, Len(results[r]) = Len(Items(r))
    PROVE  results[r] = [i \in DOMAIN Ledger!Batch(r) |-> results[r][i]]
  <1>1. results[r] \in Seq(Result) /\ DOMAIN results[r] = DOMAIN Items(r)
    BY ResultsSeq, ItemsType DEF LedgerInv, AnswerInv, UsageInv, TypeInv
  <1> QED
    BY <1>1, LedgerBatch

\* The results collected one by one are the outcome of posting the batch at the
\* instant of the commit.
LEMMA ResultsAreOutcome ==
    ASSUME LedgerInv, NEW r \in Requests, pc[r] = "commit"
    PROVE  results[r] = Ledger!Outcome(r)
  <1>1. /\ Len(results[r]) = Len(Items(r)) /\ DOMAIN Ledger!Batch(r) = 1..Len(Items(r))
        /\ Len(Items(r)) \in Nat /\ Ledger!Batch(r) = Items(r)
    BY ItemsType, LedgerBatch DEF LedgerInv, AnswerInv, UsageInv, TypeInv, ResultCount
  <1> DEFINE E(i) == Ledger!Existing(Items(r)[i])
             L(i) == Ledger!Leader(r, i)
             O(i) == IF E(i) # {} THEN [fact |-> (CHOOSE f \in E(i) : TRUE).id, dup |-> TRUE]
                                  ELSE [fact |-> <<r, L(i)>>, dup |-> L(i) # i]
  <1>2. ASSUME NEW i \in 1..Len(Items(r)) PROVE results[r][i] = O(i)
    <2>1. CASE \E f \in facts : Collate[f.event] = Key(r, i)
      <3>1. PICK f \in facts : Collate[f.event] = Key(r, i)
        BY <2>1
      <3>2. results[r][i] = [fact |-> f.id, dup |-> TRUE]
        BY <3>1, RecordedResult
      <3>3. E(i) # {} /\ (CHOOSE g \in E(i) : TRUE) = f
        <4>1. i \in Nat
          BY <1>1
        <4> QED
          BY <3>1, <4>1, TheExisting
      <3> QED
        BY <3>2, <3>3
    <2>2. CASE \A f \in facts : Collate[f.event] # Key(r, i)
      <3>1. PICK j \in claimed[r] :
              /\ j \in 1..i /\ Key(r, j) = Key(r, i)
              /\ results[r][i] = [fact |-> <<r, j>>, dup |-> j # i]
        BY <2>2, NewResult
      <3>2. \A k \in 1..(j - 1) : Key(r, k) # Key(r, i)
        BY <3>1, ClaimedLeads
      <3>3. L(i) = j
        BY <3>1, <3>2, LeaderIs
      <3>4. E(i) = {}
        BY <2>2, LedgerBatch
      <3> QED
        BY <3>1, <3>3, <3>4
    <2> QED
      BY <2>1, <2>2
  <1>3. Ledger!Outcome(r) = [i \in DOMAIN Ledger!Batch(r) |-> O(i)]
    BY <1>1 DEF Ledger!Outcome
  <1> HIDE DEF O
  <1> QED
    BY <1>1, <1>2, <1>3, ResultsFunction

-----------------------------------------------------------------------------
(***************************************************************************)
(* The steps.                                                              *)
(***************************************************************************)
answers == [r \in Requests |-> LedgerAnswer(r)]

\* Only the answer of the request that moves can change.
LEMMA AnswerMoves ==
    ASSUME NEW r \in Requests, Frame(r)
    PROVE  answers' = [answers EXCEPT ![r] = LedgerAnswer(r)']
  <1>1. \A q \in Requests \ {r} : LedgerAnswer(q)' = LedgerAnswer(q)
    BY DEF Frame, LedgerAnswer
  <1> QED
    BY <1>1 DEF answers

LEMMA AnswerOpen ==
    ASSUME NEW r \in Requests, reply[r] = "none"
    PROVE  answers[r] = Ledger!Open
  BY DEF answers, LedgerAnswer, Ledger!Open

LEMMA AnswerKept ==
    ASSUME NEW r \in Requests, Frame(r), LedgerAnswer(r)' = LedgerAnswer(r)
    PROVE  answers' = answers
  BY AnswerMoves DEF answers

\* Every error is a refusal.
LEMMA FailRefuses ==
    ASSUME LedgerInv, NEW r \in Requests, pc[r] # "done", NEW a \in ErrorReplies, Fail(r, a)
    PROVE  Ledger!Refuse(r)
  <1>1. a \in Replies /\ a # "none" /\ a # "ok" /\ TypeInv /\ reply[r] = "none"
    BY DEF ErrorReplies, LedgerInv, AnswerInv, UsageInv, Replied
  <1>2. /\ Frame(r) /\ Answered(r, a, <<>>) /\ UNCHANGED <<facts, outbox>>
    BY <1>1, FailEffect
  <1>3. LedgerAnswer(r)' = Ledger!Failed
    BY <1>1, <1>2 DEF Answered, LedgerAnswer, Ledger!Failed
  <1>4. answers[r] = Ledger!Open /\ answers' = [answers EXCEPT ![r] = Ledger!Failed]
    BY <1>1, <1>2, <1>3, AnswerOpen, AnswerMoves
  <1>5. sub' = sub
    BY <1>2 DEF Frame
  <1> QED
    BY <1>2, <1>4, <1>5 DEF Ledger!Refuse, answers

\* Either commit posts the batch, once and as a whole.
LEMMA CommitPosts ==
    ASSUME LedgerInv, NEW r \in Requests, Commit(r) \/ CommitUnacknowledged(r)
    PROVE  Ledger!Post(r)
  <1>1. UsageInv /\ TypeInv /\ Replied(r)
    BY DEF LedgerInv, AnswerInv, UsageInv
  <1>2. /\ Frame(r) /\ sub' = sub /\ ApplyBatch(r) /\ pc[r] = "commit"
        /\ \/ pc'[r] = "fetch" /\ reply'[r] = reply[r]
           \/ pc'[r] = "done" /\ reply'[r] = "ok" /\ results'[r] = results[r]
           \/ pc'[r] = "done" /\ reply'[r] = "internal" /\ results'[r] = <<>>
    BY <1>1, CommitEffect DEF Frame
  <1>3. reply[r] = "none" /\ InTx(r)
    BY <1>1, <1>2 DEF Replied, InTx
  <1>4. \A f \in facts : f.id[1] # r
    BY <1>1, <1>3, OthersFacts
  <1>5. facts' = facts \cup {Ledger!FactFor(r, i) : i \in Ledger!New(r)}
    BY <1>2, NewIsInserted, LedgerBatch DEF ApplyBatch, OwnFacts
  <1>6. outbox' = outbox \cup Ledger!Announcements(r)
    BY <1>2, LoggedIsAnnounced DEF ApplyBatch
  <1>7. LedgerAnswer(r)' \in {Ledger!Open, Ledger!Failed, Ledger!Ok(Ledger!Outcome(r))}
    BY <1>2, <1>3, ResultsAreOutcome
       DEF LedgerAnswer, Ledger!Open, Ledger!Failed, Ledger!Ok
  <1>8. answers[r] = Ledger!Open /\ answers' = [answers EXCEPT ![r] = LedgerAnswer(r)']
    BY <1>2, <1>3, AnswerOpen, AnswerMoves
  <1>9. Ledger!Consistent(r)
    BY <1>2, BatchConsistent
  <1> QED
    BY <1>2, <1>4, <1>5, <1>6, <1>7, <1>8, <1>9 DEF Ledger!Post, answers

\* AdjustUsage confirms the fact that stands for its input.
LEMMA FetchConfirms ==
    ASSUME LedgerInv, NEW r \in Requests, FetchOk(r)
    PROVE  Ledger!Confirm(r)
  <1>1. /\ AnswerInv /\ TypeInv /\ Replied(r) /\ ResultCount(r) /\ pc[r] = "fetch" /\ ~InTx(r)
    BY DEF LedgerInv, AnswerInv, UsageInv, FetchOk, InTx
  <1>2. /\ Frame(r) /\ sub' = sub /\ Answered(r, "ok", results[r])
        /\ UNCHANGED <<facts, outbox>>
    BY <1>1, FetchEffect DEF Frame
  <1>3. /\ Len(results[r]) = Len(Items(r)) /\ Ledger!Batch(r) = Items(r)
        /\ DOMAIN Items(r) = 1..Len(results[r]) /\ reply[r] = "none"
        /\ results[r] \in Seq(Result) /\ Len(results[r]) \in Nat
    BY <1>1, ItemsType, ResultsSeq, LedgerBatch DEF ResultCount, Replied, TypeInv
  <1> DEFINE E(i) == Ledger!Existing(Items(r)[i])
             I(i) == (CHOOSE f \in E(i) : TRUE).id
  <1>4. ASSUME NEW i \in 1..Len(results[r])
        PROVE  E(i) # {} /\ results[r][i] = [fact |-> I(i), dup |-> I(i) # <<r, i>>]
    <2>1. PICK f \in facts :
            /\ f.id = results[r][i].fact /\ Collate[f.event] = Key(r, i)
            /\ results[r][i].dup <=> f.id # <<r, i>>
      BY <1>1, ResultsRecorded
    <2>2. E(i) # {} /\ I(i) = f.id
      <3>1. i \in Nat
        BY <1>3
      <3> QED
        BY <2>1, <3>1, TheExisting
    <2>3. results[r][i] = [fact |-> results[r][i].fact, dup |-> results[r][i].dup]
          /\ results[r][i].dup \in BOOLEAN
      <3>1. results[r][i] \in Result
        BY <1>3
      <3> QED
        BY <3>1 DEF Result
    <2>4. results[r][i].dup = (f.id # <<r, i>>)
      BY <2>1, <2>3, Zenon
    <2> QED
      BY <2>1, <2>2, <2>3, <2>4
  <1>5. results[r] = Ledger!Standing(r)
    <2>1. Ledger!Standing(r) =
            [i \in DOMAIN Ledger!Batch(r) |-> [fact |-> I(i), dup |-> I(i) # <<r, i>>]]
      BY <1>3 DEF Ledger!Standing
    <2> HIDE DEF I
    <2> QED
      BY <1>3, <1>4, <2>1, ResultsFunction
  <1>6. LedgerAnswer(r)' = Ledger!Ok(Ledger!Standing(r))
    BY <1>2, <1>5 DEF Answered, LedgerAnswer, Ledger!Ok
  <1>7. /\ answers[r] = Ledger!Open
        /\ answers' = [answers EXCEPT ![r] = Ledger!Ok(Ledger!Standing(r))]
    BY <1>2, <1>3, <1>6, AnswerOpen, AnswerMoves
  <1>8. \A i \in DOMAIN Ledger!Batch(r) : Ledger!Existing(Ledger!Batch(r)[i]) # {}
    BY <1>3, <1>4
  <1> QED
    BY <1>2, <1>7, <1>8 DEF Ledger!Confirm, answers

\* Everything else is invisible: it commits nothing and answers nobody.
LEMMA QuietStutters ==
    ASSUME LedgerInv, NEW r \in Requests,
           \/ StartBatch(r) \/ AcceptItem(r) \/ ClaimInsert(r) \/ ClaimDuplicate(r)
           \/ InsertUsage(r) \/ AddEvents(r)
    PROVE  UNCHANGED Ledger!ledgerVars
  <1>1. TypeInv /\ Replied(r)
    BY DEF LedgerInv, AnswerInv, UsageInv
  <1>2. Frame(r) /\ sub' = sub /\ UNCHANGED <<facts, outbox, reply>>
    BY <1>1, StartEffect, AcceptEffect, ClaimEffect, DuplicateEffect, InsertEffect,
       EventsEffect DEF Frame
  <1>3. pc[r] # "done"
    BY DEF StartBatch, AcceptItem, ClaimInsert, ClaimDuplicate, InsertUsage, AddEvents
  <1>4. LedgerAnswer(r)' = LedgerAnswer(r)
    BY <1>1, <1>2, <1>3 DEF Replied, LedgerAnswer
  <1>5. answers' = answers
    BY <1>2, <1>4, AnswerKept
  <1> QED
    BY <1>2, <1>5 DEF Ledger!ledgerVars, answers

LEMMA StepRefines == LedgerInv /\ [UsageNext]_vars => [Ledger!LedgerNext]_(Ledger!ledgerVars)
  <1> SUFFICES ASSUME LedgerInv, [UsageNext]_vars
               PROVE  Ledger!LedgerNext \/ UNCHANGED Ledger!ledgerVars
    OBVIOUS
  <1>1. TypeInv
    BY DEF LedgerInv, AnswerInv, UsageInv
  <1>2. CASE UNCHANGED usageVars
    BY <1>2 DEF usageVars, tables, Ledger!ledgerVars, LedgerAnswer
  <1>3. ASSUME NEW r \in Requests,
               \/ RefuseBatch(r) \/ StartBatch(r) \/ RequestStep(r)
               \/ CommitUnacknowledged(r) \/ Abort(r)
        PROVE  Ledger!LedgerNext \/ UNCHANGED Ledger!ledgerVars
    <2>1. \/ Ledger!Post(r) \/ Ledger!Refuse(r) \/ Ledger!Confirm(r)
          \/ UNCHANGED Ledger!ledgerVars
      BY <1>1, <1>3, RequestCases, FailRefuses, CommitPosts, FetchConfirms, QuietStutters
    <2> QED
      BY <2>1 DEF Ledger!LedgerNext
  <1> QED
    BY <1>2, <1>3 DEF UsageNext, vars

LEMMA InitRefines == UsageInit => Ledger!LedgerInit
  BY DEF UsageInit, LedgerAnswer, Ledger!LedgerInit, Ledger!Open

\* Usage ingestion implements the ledger: to its clients, recording a batch step
\* by step, with reads before the transaction, waiting claims, rollbacks and
\* lost answers, is posting it atomically, for any number of requests, batches
\* of any size and either driver.
THEOREM IngestionImplementsLedger == UsageSpec => ImplementsLedger
  BY LedgerInvariant, StepRefines, InitRefines, PTL
     DEF UsageSpec, ImplementsLedger, Ledger!LedgerSpec

-----------------------------------------------------------------------------
(***************************************************************************)
(* The meters that a request has read.  They are read outside any          *)
(* transaction, one input after another, while calls of the catalog        *)
(* change them.                                                            *)
(***************************************************************************)

\* A version that the catalog has announced, that was active, and that is the
\* meter's present one or an earlier one.
WasActive(m) ==
    /\ m.status = "active"
    /\ \E e \in meterEvents : e.meter = m
    /\ \E n \in meters : n.id = m.id /\ (n = m \/ n.version > m.version)

\* A request has read the meter of every input that has passed its checks.
MetersRead(r) ==
    /\ \A m \in seen[r] : WasActive(m)
    /\ \A i \in 1..Len(Items(r)) :
         InTx(r) \/ (pc[r] = "check" /\ i < idx[r]) =>
             \E m \in seen[r] : m.code = Items(r)[i].code

MeterInv == UsageInv /\ CatalogInv /\ \A r \in Requests : MetersRead(r)

\* Requests leave the catalog alone.
LEMMA CatalogApart ==
    ASSUME NEW r \in Requests,
           \/ RefuseBatch(r) \/ StartBatch(r) \/ RequestStep(r)
           \/ CommitUnacknowledged(r) \/ Abort(r)
    PROVE  UNCHANGED catalogVars
  <1>1. ASSUME NEW a, Fail(r, a) PROVE UNCHANGED catalogVars
    BY <1>1 DEF Fail
  <1>2. CASE RefuseBatch(r) \/ RefuseItem(r) \/ ClaimRefused(r) \/ Abort(r) \/ DeadlockVictim(r)
    BY <1>1, <1>2 DEF RefuseBatch, RefuseItem, ClaimRefused, Abort, DeadlockVictim
  <1>3. CASE FetchAdjusted(r)
    BY <1>1, <1>3 DEF FetchAdjusted
  <1>4. CASE \/ StartBatch(r) \/ AcceptItem(r) \/ ClaimInsert(r) \/ ClaimDuplicate(r)
             \/ InsertUsage(r) \/ AddEvents(r) \/ Commit(r) \/ CommitUnacknowledged(r)
    BY <1>4 DEF StartBatch, AcceptItem, ClaimInsert, ClaimDuplicate, InsertUsage, AddEvents,
       Commit, CommitUnacknowledged
  <1> QED
    BY <1>2, <1>3, <1>4 DEF RequestStep

\* What was active stays so in the catalog's history.
LEMMA WasActiveKept ==
    ASSUME CatalogInv, CatalogTypeOK', [OneVersion]_catalogVars, NEW m \in Meter, WasActive(m)
    PROVE  WasActive(m)'
  <1>1. PICK n \in meters : n.id = m.id /\ (n = m \/ n.version > m.version)
    BY DEF WasActive
  <1>2. meterEvents \subseteq meterEvents' /\
          \E p \in meters' : p.id = n.id /\ (p = n \/ p.version = n.version + 1)
    BY DEF OneVersion, catalogVars
  <1>3. PICK p \in meters' : p.id = n.id /\ (p = n \/ p.version = n.version + 1)
    BY <1>2
  <1>4. m.version \in Nat /\ n.version \in Nat
    BY DEF CatalogInv, CatalogTypeOK, Meter
  <1>5. p.id = m.id /\ (p = m \/ p.version > m.version)
    BY <1>1, <1>3, <1>4
  <1> QED
    BY <1>2, <1>3, <1>5 DEF WasActive

LEMMA MetersReadFrame ==
    ASSUME MeterInv, NEW r \in Requests, Frame(r), UNCHANGED catalogVars, MetersRead(r)'
    PROVE  \A q \in Requests : MetersRead(q)'
  <1> SUFFICES ASSUME NEW q \in Requests, q # r PROVE MetersRead(q)'
    OBVIOUS
  <1>1. MetersRead(q) /\ pc'[q] = pc[q] /\ idx'[q] = idx[q] /\ seen'[q] = seen[q]
        /\ Items(q)' = Items(q) /\ UNCHANGED <<meters, meterEvents>>
    BY DEF MeterInv, Frame, Items, catalogVars
  <1> QED
    BY <1>1 DEF MetersRead, WasActive, InTx

LEMMA AcceptReads ==
    ASSUME MeterInv, NEW r \in Requests, AcceptItem(r)
    PROVE  MetersRead(r)'
  <1>1. TypeInv /\ UsageTypeOK /\ CatalogTypeOK /\ HistoryMatchesRows /\ MetersRead(r)
        /\ PositionOK(r)
    BY DEF MeterInv, UsageInv, TypeInv, CatalogInv
  <1>2. /\ Frame(r)
        /\ \/ pc'[r] = "check" /\ idx'[r] = idx[r] + 1
           \/ pc'[r] = "claim" /\ idx'[r] = 1 /\ idx[r] = Len(Items(r))
    BY <1>1, AcceptEffect
  <1>3. /\ pc[r] = "check" /\ MeterUsable(r) /\ UNCHANGED <<meters, meterEvents>>
        /\ seen'[r] = seen[r] \cup LookUp(r) /\ Items(r)' = Items(r)
    BY <1>1 DEF AcceptItem, UsageTypeOK, Items, catalogVars
  <1>4. /\ idx[r] \in 1..Len(Items(r)) /\ Len(Items(r)) \in Nat
        /\ Current(r) = Items(r)[idx[r]]
    BY <1>1, <1>3, ItemsType DEF PositionOK, Current
  <1>5. \A m \in LookUp(r) : m.code = Current(r).code /\ WasActive(m)
    <2>1. ASSUME NEW m \in LookUp(r) PROVE m.code = Current(r).code /\ WasActive(m)
      <3>1. m.status = "active" /\ m.code = Current(r).code /\ (m \in seen[r] \/ m \in meters)
        BY <1>3 DEF MeterUsable, LookUp
      <3> QED
        BY <1>1, <3>1 DEF MetersRead, WasActive, HistoryMatchesRows
    <2> QED
      BY <2>1
  <1>6. \A m \in seen'[r] : WasActive(m)'
    BY <1>1, <1>3, <1>5 DEF MetersRead, WasActive
  <1>7. PICK l \in LookUp(r) : l.code = Current(r).code
    BY <1>3, <1>5 DEF MeterUsable
  <1>8. ASSUME NEW i \in 1..Len(Items(r)), InTx(r)' \/ (pc'[r] = "check" /\ i < idx'[r])
        PROVE  \E m \in seen'[r] : m.code = Items(r)[i].code
    <2>1. i < idx[r] \/ i = idx[r]
      BY <1>2, <1>4, <1>8 DEF InTx
    <2> QED
      BY <1>1, <1>3, <1>4, <1>7, <2>1 DEF MetersRead
  <1> QED
    BY <1>3, <1>6, <1>8 DEF MetersRead

\* Every step of a request.
LEMMA RequestReads ==
    ASSUME MeterInv, NEW r \in Requests,
           \/ RefuseBatch(r) \/ StartBatch(r) \/ RequestStep(r)
           \/ CommitUnacknowledged(r) \/ Abort(r)
    PROVE  \A q \in Requests : MetersRead(q)'
  <1>1. TypeInv /\ MetersRead(r) /\ PositionOK(r) /\ UNCHANGED catalogVars
    BY CatalogApart DEF MeterInv, UsageInv, TypeInv
  <1>2. ASSUME Frame(r), Released(r), pc'[r] \in {"fetch", "done"}
        PROVE  \A q \in Requests : MetersRead(q)'
    <2>1. MetersRead(r)'
      BY <1>2 DEF MetersRead, Released, InTx
    <2> QED
      BY <1>1, <1>2, <2>1, MetersReadFrame
  <1>3. ASSUME NEW a \in ErrorReplies, Fail(r, a) PROVE \A q \in Requests : MetersRead(q)'
    BY <1>1, <1>2, <1>3, FailEffect DEF ErrorReplies, Answered
  <1>4. CASE Commit(r) \/ CommitUnacknowledged(r)
    BY <1>1, <1>2, <1>4, CommitEffect
  <1>5. CASE FetchOk(r)
    BY <1>1, <1>2, <1>5, FetchEffect DEF Answered
  <1>6. CASE StartBatch(r)
    <2>1. Frame(r) /\ pc[r] = "idle" /\ pc'[r] = "check" /\ UNCHANGED idx
      BY <1>1, <1>6, StartEffect
    <2>2. UNCHANGED <<seen, meters, meterEvents, sub>> /\ idx[r] = 1
      BY <1>1, <1>6, <2>1 DEF StartBatch, locals, catalogVars, PositionOK
    <2>3. MetersRead(r)'
      <3>1. \A i \in 1..Len(Items(r)) : ~(i < 1)
        OBVIOUS
      <3> QED
        BY <1>1, <2>1, <2>2, <3>1 DEF MetersRead, WasActive, InTx, Items
    <2> QED
      BY <1>1, <2>1, <2>3, MetersReadFrame
  <1>7. CASE AcceptItem(r)
    BY <1>1, <1>7, AcceptEffect, AcceptReads, MetersReadFrame
  <1>8. CASE ClaimInsert(r) \/ ClaimDuplicate(r) \/ InsertUsage(r) \/ AddEvents(r)
    <2>1. Frame(r)
      BY <1>1, <1>8, ClaimEffect, DuplicateEffect, InsertEffect, EventsEffect
    <2>2. UNCHANGED <<seen, sub, meters, meterEvents>> /\ InTx(r)
      BY <1>1, <1>8 DEF ClaimInsert, ClaimDuplicate, InsertUsage, AddEvents, InTx, catalogVars
    <2>3. MetersRead(r)'
      BY <1>1, <2>2 DEF MetersRead, WasActive, Items
    <2> QED
      BY <1>1, <2>1, <2>3, MetersReadFrame
  <1> QED
    BY <1>1, <1>3, <1>4, <1>5, <1>6, <1>7, <1>8, RequestCases

LEMMA MeterInvStep == MeterInv /\ [UsageNext]_vars => MeterInv'
  <1> SUFFICES ASSUME MeterInv, [UsageNext]_vars PROVE MeterInv'
    OBVIOUS
  <1>1. UsageInv' /\ UsageInv
    BY UsageInvStep DEF MeterInv
  <1>2. [CatalogNext]_catalogVars
    BY CatalogApart DEF UsageNext, vars
  <1>3. CatalogInv' /\ [OneVersion]_catalogVars
    BY <1>2, InvStep, StepOneVersion DEF MeterInv
  <1>4. ASSUME UNCHANGED usageVars PROVE \A q \in Requests : MetersRead(q)'
    <2> SUFFICES ASSUME NEW q \in Requests PROVE MetersRead(q)'
      OBVIOUS
    <2>1. /\ MetersRead(q) /\ seen[q] \subseteq Meter /\ UNCHANGED <<seen, pc, idx, sub>>
          /\ CatalogInv /\ CatalogTypeOK'
      BY <1>1, <1>3, <1>4
         DEF MeterInv, UsageInv, TypeInv, UsageTypeOK, CatalogInv, usageVars, locals
    <2>2. \A m \in seen[q] : WasActive(m)'
      BY <1>3, <2>1, WasActiveKept DEF MetersRead
    <2> QED
      BY <2>1, <2>2 DEF MetersRead, InTx, Items
  <1>5. \A q \in Requests : MetersRead(q)'
    BY <1>4, RequestReads DEF UsageNext, vars
  <1> QED
    BY <1>1, <1>3, <1>5 DEF MeterInv

LEMMA MeterInvInit == UsageInit => MeterInv
  <1> SUFFICES ASSUME UsageInit PROVE MeterInv
    OBVIOUS
  <1>1. UsageInv /\ CatalogInv
    BY UsageInvInit, InvInit DEF UsageInit
  <1>2. \A r \in Requests : pc[r] = "idle" /\ seen[r] = {}
    BY DEF UsageInit
  <1> QED
    BY <1>1, <1>2 DEF MeterInv, MetersRead, InTx

\* What MeterActiveWhenRead says of a step: the meter of a new fact was active in
\* a committed version, and is now at that or a later one.
RecordedOnActive ==
    \A f \in facts' \ facts : \E m \in seen[f.id[1]] :
        /\ m.code = f.code /\ m.status = "active"
        /\ \E e \in meterEvents : e.meter = m
        /\ \E n \in meters : n.id = m.id /\ (n = m \/ n.version > m.version)

\* New facts come from a commit, and have passed the checking loop.
LEMMA CommitOnActive == MeterInv /\ [UsageNext]_vars => [RecordedOnActive]_vars
  <1> SUFFICES ASSUME MeterInv, [UsageNext]_vars PROVE RecordedOnActive
    OBVIOUS
  <1>1. TypeInv
    BY DEF MeterInv, UsageInv
  <1>2. ASSUME facts' = facts PROVE RecordedOnActive
    BY <1>2 DEF RecordedOnActive
  <1>3. ASSUME NEW r \in Requests, Commit(r) \/ CommitUnacknowledged(r)
        PROVE  RecordedOnActive
    <2>1. /\ pc[r] = "commit" /\ facts' = facts \cup OwnFacts(r) /\ InTx(r)
          /\ inserted[r] \subseteq 1..Len(Items(r)) /\ MetersRead(r)
      BY <1>1, <1>3, CommitEffect
         DEF ApplyBatch, InTx, MeterInv, TypeInv, PositionOK
    <2>2. ASSUME NEW f \in facts' \ facts
          PROVE  \E m \in seen[f.id[1]] : m.code = f.code /\ WasActive(m)
      <3>1. PICK i \in inserted[r] : f = NewFact(r, i)
        BY <2>1 DEF OwnFacts
      <3>2. f.id[1] = r /\ f.code = Items(r)[i].code
        BY <3>1, NewRows
      <3> QED
        BY <2>1, <3>1, <3>2 DEF MetersRead
    <2> QED
      BY <2>2 DEF RecordedOnActive, WasActive
  <1>4. ASSUME NEW r \in Requests,
               \/ RefuseBatch(r) \/ StartBatch(r) \/ RequestStep(r)
               \/ CommitUnacknowledged(r) \/ Abort(r)
        PROVE  RecordedOnActive
    <2>1. ErrorReplies \subseteq Replies
      BY DEF ErrorReplies
    <2>2. Commit(r) \/ CommitUnacknowledged(r) \/ facts' = facts
      BY <1>1, <1>4, <2>1, RequestCases, FailEffect, StartEffect, AcceptEffect, ClaimEffect,
         DuplicateEffect, InsertEffect, EventsEffect, FetchEffect
    <2> QED
      BY <1>2, <1>3, <2>2
  <1>5. CASE UNCHANGED usageVars
    BY <1>2, <1>5 DEF usageVars, tables
  <1> QED
    BY <1>4, <1>5 DEF UsageNext, vars

\* A fact is recorded only on a version of its meter that existed and was active
\* when the request read it, although the catalog may change the meter between
\* the read and the commit, for any number of calls and requests.
THEOREM FactsOnActiveMeters == UsageSpec => MeterActiveWhenRead
  BY MeterInvInit, MeterInvStep, CommitOnActive, PTL
     DEF UsageSpec, MeterActiveWhenRead, RecordedOnActive

-----------------------------------------------------------------------------
(***************************************************************************)
(* What readers of usage_facts rely on: the environment that UsageQueries  *)
(* assumes in its CommitFacts.                                             *)
(***************************************************************************)

\* A fact is the one built for the input its id names.
Identified == \A f \in facts : \E r \in Requests, i \in Nat : f = NewFact(r, i)

FactIdsUnique == \A f, g \in facts : f.id = g.id => f = g

\* A step leaves the committed facts alone, adds finitely many, and no two facts
\* share an id.
GrowsByBatch == facts \subseteq facts' /\ IsFiniteSet(facts' \ facts) /\ FactIdsUnique'

LEMMA IdentifiedOnce == Identified => FactIdsUnique
  <1> SUFFICES ASSUME Identified, NEW f \in facts, NEW g \in facts, f.id = g.id
               PROVE  f = g
    BY DEF FactIdsUnique
  <1>1. PICK q \in Requests, i \in Nat : f = NewFact(q, i)
    BY DEF Identified
  <1>2. PICK r \in Requests, j \in Nat : g = NewFact(r, j)
    BY DEF Identified
  <1>3. f.id = <<q, i>> /\ g.id = <<r, j>>
    BY <1>1, <1>2 DEF NewFact
  <1>4. <<q, i>> = <<r, j>>
    BY <1>3, Zenon
  <1>5. q = r /\ i = j
    BY <1>4
  <1> QED
    BY <1>1, <1>2, <1>5

LEMMA StepGrows ==
    TypeInv /\ Identified /\ [UsageNext]_vars => Identified' /\ [GrowsByBatch]_vars
  <1> SUFFICES ASSUME TypeInv, Identified, [UsageNext]_vars
               PROVE  Identified' /\ GrowsByBatch
    OBVIOUS
  <1>1. ASSUME facts' = facts, sub' = sub PROVE Identified' /\ GrowsByBatch
    <2>1. Identified'
      BY <1>1 DEF Identified, NewFact, Items
    <2>2. FactIdsUnique'
      BY <2>1, IdentifiedOnce, PTL
    <2>3. facts' \ facts = {}
      BY <1>1
    <2>4. IsFiniteSet(facts' \ facts)
      BY <2>3, FS_EmptySet, Zenon
    <2> QED
      BY <1>1, <2>1, <2>2, <2>4 DEF GrowsByBatch
  <1>2. ASSUME NEW r \in Requests, Commit(r) \/ CommitUnacknowledged(r)
        PROVE  Identified' /\ GrowsByBatch
    <2>1. /\ facts' = facts \cup OwnFacts(r) /\ sub' = sub
          /\ inserted[r] \subseteq 1..Len(Items(r)) /\ Len(Items(r)) \in Nat
      BY <1>2, CommitEffect, ItemsType DEF ApplyBatch, Frame, TypeInv, PositionOK
    <2>2. Identified'
      <3>1. ASSUME NEW f \in facts PROVE (\E q \in Requests, i \in Nat : f = NewFact(q, i))'
        BY <2>1, <3>1 DEF Identified, NewFact, Items
      <3>2. ASSUME NEW f \in OwnFacts(r)
            PROVE  (\E q \in Requests, i \in Nat : f = NewFact(q, i))'
        BY <2>1, <3>2 DEF OwnFacts, NewFact, Items
      <3> QED
        BY <2>1, <3>1, <3>2 DEF Identified
    <2>3. FactIdsUnique'
      BY <2>2, IdentifiedOnce, PTL
    <2>4. IsFiniteSet(inserted[r])
      <3> DEFINE n == Len(Items(r))
      <3>1. n \in Int /\ inserted[r] \in SUBSET (1..n)
        BY <2>1
      <3> HIDE DEF n
      <3>2. IsFiniteSet(1..n)
        BY <3>1, FS_Interval
      <3> QED
        BY <3>1, <3>2, FS_Subset
    <2>5. IsFiniteSet(OwnFacts(r))
      <3> DEFINE fact == [i \in inserted[r] |-> NewFact(r, i)]
      <3>1. fact \in Surjection(inserted[r], OwnFacts(r))
        BY DEF Surjection, OwnFacts
      <3> QED
        BY <2>4, <3>1, FS_Surjection
    <2>6. IsFiniteSet(facts' \ facts)
      <3>1. facts' \ facts \subseteq OwnFacts(r)
        BY <2>1
      <3> QED
        BY <2>5, <3>1, FS_Subset
    <2> QED
      BY <2>1, <2>2, <2>3, <2>6 DEF GrowsByBatch
  <1>3. ASSUME NEW r \in Requests,
               \/ RefuseBatch(r) \/ StartBatch(r) \/ RequestStep(r)
               \/ CommitUnacknowledged(r) \/ Abort(r)
        PROVE  Identified' /\ GrowsByBatch
    <2>1. ErrorReplies \subseteq Replies
      BY DEF ErrorReplies
    <2>2. Commit(r) \/ CommitUnacknowledged(r) \/ (facts' = facts /\ sub' = sub)
      BY <1>3, <2>1, RequestCases, FailEffect, StartEffect, AcceptEffect, ClaimEffect,
         DuplicateEffect, InsertEffect, EventsEffect, FetchEffect DEF Frame
    <2> QED
      BY <1>1, <1>2, <2>2
  <1>4. CASE UNCHANGED usageVars
    BY <1>1, <1>4 DEF usageVars, tables
  <1> QED
    BY <1>3, <1>4 DEF UsageNext, vars

\* usage_facts only grows, by finite batches of facts with ids of their own, for any
\* requests, failures and catalog changes: adjustments and retries never rewrite or
\* remove what a reader has seen.  This is what UsageQueries takes for granted of
\* the transactions that commit while a client walks the pages of a query.
THEOREM FactsOnlyAdded == UsageSpec => [][GrowsByBatch]_vars
  <1>1. UsageInit => TypeInv /\ Identified
    BY UsageTypeInit DEF UsageInit, Identified
  <1> QED
    BY <1>1, UsageTypeStep, StepGrows, PTL DEF UsageSpec
=============================================================================
