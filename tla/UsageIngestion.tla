--------------------------- MODULE UsageIngestion ---------------------------
(***************************************************************************)
(* Recording usage: RecordUsage of internal/metering/service.go with the   *)
(* repository statements and the transaction it runs, and the gRPC         *)
(* AdjustUsage that reads the recorded fact back.  It runs against the     *)
(* meter catalog of MeterCatalog, which other requests change meanwhile.   *)
(*                                                                         *)
(* A request is one execution of RecordUsage.  It checks every input of    *)
(* its batch outside any transaction, then claims, inserts and announces   *)
(* them in one transaction.  The tables hold committed rows; claimed,      *)
(* inserted and logged are what an open transaction has written.  The id   *)
(* of the fact built for input i of request r (a fresh uuid in the code)   *)
(* is <<r, i>>.                                                            *)
(***************************************************************************)
EXTENDS MeterCatalog, Sequences

CONSTANTS
    Requests,       \* executions of RecordUsage
    EventIds,       \* event_id values, trimmed
    Tenants, Apps,
    Granted,        \* the scopes the application-access service grants
    Submissions,    \* the batches clients send, with their principal
    MaxRecordBatch, \* maxRecordBatch
    Driver,         \* "postgres" (and Kingbase) or "mysql"
    Collate         \* the key an event_id has under the column's collation

Scope == [tenant : Tenants, app : Apps]

\* What is wrong with one input on its own, if anything: a required field or
\* the adjustment reason is missing, which is checked first, or dimensions or
\* occurred_at are unacceptable, which is checked last.
Item == [event : EventIds, scope : Scope, code : Codes,
         defect : {"none", "fields", "dimensions"}]

\* "nobody" is a request without a principal and "service" a service account
\* or the system; a tenant is a user of that tenant.
Submission == [who : {"nobody", "service"} \cup Tenants, adjust : BOOLEAN,
               items : Seq(Item)]

ASSUME UsageAssumption ==
    /\ Granted \subseteq Scope
    /\ Submissions \subseteq Submission
    /\ \A s \in Submissions : s.adjust => Len(s.items) = 1
    /\ MaxRecordBatch \in Nat
    /\ Driver \in {"postgres", "mysql"}
    /\ Collate \in [EventIds -> EventIds]
    /\ Driver = "postgres" => \A e \in EventIds : Collate[e] = e

FactId == Requests \X Nat
KeyRow == [event : EventIds, fact : FactId, scope : Scope, code : Codes]
FactRow == [id : FactId, event : EventIds, scope : Scope, code : Codes]
UsageEvent == [scope : Scope, facts : SUBSET FactId]
Result == [fact : FactId, dup : BOOLEAN]

Pcs == {"idle", "check", "claim", "select", "insert", "events", "commit",
        "fetch", "done"}
Replies == {"none", "ok", "unauthorized", "invalid", "forbidden", "unavailable",
            "notfound", "conflict", "internal"}

VARIABLES
    keys,     \* committed rows of usage_ingestion_keys
    facts,    \* committed rows of usage_facts
    outbox,   \* committed outbox rows with subject usage.recorded
    sub,      \* what each request submits, fixed from the start
    pc,       \* where each request is
    idx,      \* the input its current loop is at
    verified, \* verifiedScopes
    seen,     \* the meters it has read, by code
    claimed,  \* inputs whose key its transaction has inserted
    inserted, \* inputs whose fact its transaction has inserted
    logged,   \* outbox rows its transaction has inserted
    view,     \* MySQL: the read view of its transaction, once opened
    results,  \* one result per input already claimed
    reply     \* what the caller was told

tables == <<keys, facts, outbox>>
locals == <<idx, verified, seen, claimed, inserted, logged, view>>
usageVars == <<tables, sub, pc, locals, results, reply>>
vars == <<catalogVars, usageVars>>

-----------------------------------------------------------------------------
Items(r) == sub[r].items
Current(r) == Items(r)[idx[r]]
Key(r, i) == Collate[Items(r)[i].event]

NewKey(r, i) ==
    [event |-> Key(r, i), fact |-> <<r, i>>, scope |-> Items(r)[i].scope,
     code |-> Items(r)[i].code]
NewFact(r, i) ==
    [id |-> <<r, i>>, event |-> Items(r)[i].event, scope |-> Items(r)[i].scope,
     code |-> Items(r)[i].code]

OwnKeys(r) == {NewKey(r, i) : i \in claimed[r]}
OwnFacts(r) == {NewFact(r, i) : i \in inserted[r]}

HasKey(rows, k) == \E row \in rows : row.event = k

\* A key another open transaction has inserted: an insert of it waits.
HeldBy(q, k) == HasKey(OwnKeys(q), k)

NeverBlocked(r) == FALSE

Blocked(r) ==
    \E q \in Requests \ {r} : HeldBy(q, Key(r, idx[r]))

\* authorizeTenant
MayAct(who, scope) == who = "service" \/ who = scope.tenant

\* verifyApplication asks the external access service once per scope of a
\* batch.  Its answer follows the grants, unless it cannot be reached.
SameTenant(r, scope) == \E s \in verified[r] : s.tenant = scope.tenant

Verified(r, scope) == scope \in verified[r]

VerifyFailures(scope) ==
    {"unavailable"} \cup (IF scope \in Granted THEN {} ELSE {"forbidden"})

\* GetMeter by code, through the batch's own cache.
LookUp(r) ==
    LET cached == {m \in seen[r] : m.code = Current(r).code}
    IN  IF cached # {} THEN cached
                       ELSE {m \in meters : m.code = Current(r).code}

-----------------------------------------------------------------------------
\* The end of a request: its locals are gone, and an open transaction, if
\* any, is committed or rolled back by the action itself.
LeakTransaction(r) ==
    /\ idx' = [idx EXCEPT ![r] = 1]
    /\ UNCHANGED <<verified, seen, claimed, inserted, logged, view>>

Release(r) ==
    /\ idx' = [idx EXCEPT ![r] = 1]
    /\ verified' = [verified EXCEPT ![r] = {}]
    /\ seen' = [seen EXCEPT ![r] = {}]
    /\ claimed' = [claimed EXCEPT ![r] = {}]
    /\ inserted' = [inserted EXCEPT ![r] = {}]
    /\ logged' = [logged EXCEPT ![r] = {}]
    /\ view' = [view EXCEPT ![r] = {}]

Answer(r, answer, res) ==
    /\ pc' = [pc EXCEPT ![r] = "done"]
    /\ reply' = [reply EXCEPT ![r] = answer]
    /\ results' = [results EXCEPT ![r] = res]

\* Every path that returns an error; handlers drop the results.
Fail(r, answer) ==
    /\ Answer(r, answer, <<>>)
    /\ Release(r)
    /\ UNCHANGED <<catalogVars, tables, sub>>

UsageInit ==
    /\ CatalogInit
    /\ keys = {} /\ facts = {} /\ outbox = {}
    /\ sub \in [Requests -> Submissions]
    /\ pc = [r \in Requests |-> "idle"]
    /\ idx = [r \in Requests |-> 1]
    /\ verified = [r \in Requests |-> {}]
    /\ seen = [r \in Requests |-> {}]
    /\ claimed = [r \in Requests |-> {}]
    /\ inserted = [r \in Requests |-> {}]
    /\ logged = [r \in Requests |-> {}]
    /\ view = [r \in Requests |-> {}]
    /\ results = [r \in Requests |-> <<>>]
    /\ reply = [r \in Requests |-> "none"]

\* The batch is refused as a whole before its first input is looked at.
RefuseBatch(r) ==
    /\ pc[r] = "idle"
    /\ \/ sub[r].who = "nobody" /\ Fail(r, "unauthorized")
       \/ /\ sub[r].who # "nobody"
          /\ Len(Items(r)) = 0 \/ Len(Items(r)) > MaxRecordBatch
          /\ Fail(r, "invalid")

StartBatch(r) ==
    /\ pc[r] = "idle"
    /\ sub[r].who # "nobody"
    /\ Len(Items(r)) \in 1..MaxRecordBatch
    /\ pc' = [pc EXCEPT ![r] = "check"]
    /\ UNCHANGED <<catalogVars, tables, sub, locals, results, reply>>

\* The scope is verified, now or by an earlier input of the batch.
Passes(r) ==
    Verified(r, Current(r).scope) \/ Current(r).scope \in Granted

TrustMeter(r) == LookUp(r) # {}

\* The meter is there and is active, as far as this request knows.
MeterUsable(r) ==
    LookUp(r) # {} /\ \A m \in LookUp(r) : m.status = "active"

\* One round of the checking loop that ends in an error: a malformed input,
\* another tenant's scope, an application that is not granted or cannot be
\* verified, a meter that does not exist or is not active.
RefuseItem(r) ==
    /\ pc[r] = "check"
    /\ LET item == Current(r)
           allowed == item.defect # "fields" /\ MayAct(sub[r].who, item.scope)
       IN  \/ item.defect = "fields" /\ Fail(r, "invalid")
           \/ item.defect # "fields" /\ ~allowed /\ Fail(r, "forbidden")
           \/ /\ allowed /\ ~Verified(r, item.scope)
              /\ \E answer \in VerifyFailures(item.scope) : Fail(r, answer)
           \/ allowed /\ Passes(r) /\ LookUp(r) = {} /\ Fail(r, "notfound")
           \/ /\ allowed /\ Passes(r) /\ LookUp(r) # {} /\ ~MeterUsable(r)
              /\ Fail(r, "conflict")
           \/ /\ allowed /\ Passes(r) /\ MeterUsable(r)
              /\ item.defect = "dimensions" /\ Fail(r, "invalid")

\* One round of the checking loop that succeeds; after the last one the
\* transaction begins.
AcceptItem(r) ==
    /\ pc[r] = "check"
    /\ Current(r).defect = "none"
    /\ MayAct(sub[r].who, Current(r).scope)
    /\ Passes(r) /\ MeterUsable(r)
    /\ verified' = [verified EXCEPT ![r] = @ \cup {Current(r).scope}]
    /\ seen' = [seen EXCEPT ![r] = @ \cup LookUp(r)]
    /\ IF idx[r] < Len(Items(r))
       THEN idx' = [idx EXCEPT ![r] = @ + 1] /\ UNCHANGED pc
       ELSE idx' = [idx EXCEPT ![r] = 1] /\ pc' = [pc EXCEPT ![r] = "claim"]
    /\ UNCHANGED <<catalogVars, tables, sub, claimed, inserted, logged, view,
                   results, reply>>
-----------------------------------------------------------------------------
\* To the next round of the claiming loop, or out of it.
NextItem(r) ==
    IF idx[r] < Len(Items(r))
    THEN idx' = [idx EXCEPT ![r] = @ + 1] /\ pc' = [pc EXCEPT ![r] = "claim"]
    ELSE UNCHANGED idx /\ pc' = [pc EXCEPT ![r] = "events"]

AddResult(r, fact, dup) ==
    results' = [results EXCEPT ![r] = Append(@, [fact |-> fact, dup |-> dup])]

\* The INSERT of ClaimUsage: it waits while another transaction holds the
\* key; a key that is committed, or already ours, leaves zero rows affected.
ClaimInsert(r) ==
    /\ pc[r] = "claim"
    /\ ~Blocked(r)
    /\ IF HasKey(keys \cup OwnKeys(r), Key(r, idx[r]))
       THEN /\ pc' = [pc EXCEPT ![r] = "select"]
            /\ UNCHANGED <<claimed, results>>
       ELSE /\ pc' = [pc EXCEPT ![r] = "insert"]
            /\ claimed' = [claimed EXCEPT ![r] = @ \cup {idx[r]}]
            /\ AddResult(r, <<r, idx[r]>>, FALSE)
    /\ UNCHANGED <<catalogVars, tables, sub, idx, verified, seen, inserted,
                   logged, view, reply>>

\* The committed keys a SELECT of this transaction sees.  Within asks for the
\* driver's default isolation: READ COMMITTED on PostgreSQL, REPEATABLE READ
\* on MySQL, where the first SELECT fixes what all later ones see.
Snapshot(r) == IF view[r] = {} THEN keys ELSE UNION view[r]

OpenView(r) ==
    view' = IF Driver = "mysql" THEN [view EXCEPT ![r] = {Snapshot(r)}] ELSE view

ExistingKeys(r) ==
    {row \in Snapshot(r) \cup OwnKeys(r) : row.event = Key(r, idx[r])}

AnyScope(r, row) == TRUE

\* The existing key belongs to this input's tenant, application and meter.
SameScope(r, row) ==
    row.scope = Current(r).scope /\ row.code = Current(r).code

OwnFactId(r, row) == <<r, idx[r]>>

ReportedFact(r, row) == row.fact

\* The SELECT of ClaimUsage: the input is a duplicate of the key it finds.
ClaimDuplicate(r) ==
    /\ pc[r] = "select"
    /\ \E row \in ExistingKeys(r) :
         /\ SameScope(r, row)
         /\ AddResult(r, ReportedFact(r, row), TRUE)
    /\ OpenView(r)
    /\ NextItem(r)
    /\ UNCHANGED <<catalogVars, tables, sub, verified, seen, claimed, inserted,
                   logged, reply>>

CommitDespiteConflict(r) ==
    /\ pc[r] = "select"
    /\ \E row \in ExistingKeys(r) : ~SameScope(r, row)
    /\ keys' = keys \cup OwnKeys(r)
    /\ facts' = facts \cup OwnFacts(r)
    /\ Answer(r, "conflict", <<>>)
    /\ Release(r)
    /\ UNCHANGED <<catalogVars, outbox, sub>>

\* The SELECT finds the event_id used elsewhere, or does not see the row that
\* the INSERT collided with: the whole batch is rolled back.
ClaimRefused(r) ==
    /\ pc[r] = "select"
    /\ \/ /\ \E row \in ExistingKeys(r) : ~SameScope(r, row)
          /\ Fail(r, "conflict")
       \/ ExistingKeys(r) = {} /\ Fail(r, "internal")

InsertUsage(r) ==
    /\ pc[r] = "insert"
    /\ inserted' = [inserted EXCEPT ![r] = @ \cup {idx[r]}]
    /\ NextItem(r)
    /\ UNCHANGED <<catalogVars, tables, sub, verified, seen, claimed, logged,
                   view, results, reply>>

\* The outbox row for a scope of a batch: one event that carries all of the
\* facts the batch has newly inserted for that scope.
EventFor(r, scope) ==
    [scope |-> scope,
     facts |-> {<<r, i>> : i \in {j \in inserted[r] : Items(r)[j].scope = scope}}]

OneEventForAll(r) ==
    {[scope |-> Items(r)[i].scope, facts |-> {<<r, j>> : j \in inserted[r]}] :
        i \in inserted[r]}

BatchEvents(r) == {EventFor(r, Items(r)[i].scope) : i \in inserted[r]}

AddEvents(r) ==
    /\ pc[r] = "events"
    /\ logged' = [logged EXCEPT ![r] = BatchEvents(r)]
    /\ pc' = [pc EXCEPT ![r] = "commit"]
    /\ UNCHANGED <<catalogVars, tables, sub, idx, verified, seen, claimed,
                   inserted, view, results, reply>>

ApplyBatch(r) ==
    /\ keys' = keys \cup OwnKeys(r)
    /\ facts' = facts \cup OwnFacts(r)
    /\ outbox' = outbox \cup logged[r]

\* Commit; the gRPC AdjustUsage goes on to read its fact back.
Commit(r) ==
    /\ pc[r] = "commit"
    /\ ApplyBatch(r)
    /\ Release(r)
    /\ IF sub[r].adjust
       THEN pc' = [pc EXCEPT ![r] = "fetch"] /\ UNCHANGED <<results, reply>>
       ELSE Answer(r, "ok", results[r])
    /\ UNCHANGED <<catalogVars, sub>>

\* The commit took effect but its answer was lost: Within returns an error.
CommitUnacknowledged(r) ==
    /\ Faults
    /\ pc[r] = "commit"
    /\ ApplyBatch(r)
    /\ Release(r)
    /\ Answer(r, "internal", <<>>)
    /\ UNCHANGED <<catalogVars, sub>>

\* GetUsage at the end of AdjustUsage: the grant is verified again, and the
\* fact is looked up by scope and id.
FetchAdjusted(r) ==
    /\ pc[r] = "fetch"
    /\ \/ \E answer \in VerifyFailures(Items(r)[1].scope) : Fail(r, answer)
       \/ IF \E f \in facts : f.id = results[r][1].fact /\ f.scope = Items(r)[1].scope
          THEN /\ Answer(r, "ok", results[r])
               /\ Release(r)
               /\ UNCHANGED <<catalogVars, tables, sub>>
          ELSE Fail(r, "notfound")

\* A statement, the commit or the process fails, or the request's deadline
\* passes: the database discards the open transaction.
Abort(r) ==
    /\ Faults
    /\ pc[r] \notin {"idle", "done"}
    /\ Fail(r, "internal")

\* Two batches that claim the same keys in opposite orders wait for each
\* other; the database breaks the cycle by failing one statement of it.
Waits(q, p) ==
    /\ pc[q] = "claim" /\ q # p
    /\ HeldBy(p, Key(q, idx[q]))

DeadlockVictim(r) ==
    /\ \E cycle \in SUBSET Requests :
         /\ r \in cycle
         /\ \A q \in cycle : \E p \in cycle : Waits(q, p)
         /\ \A q \in cycle : \E p \in cycle : Waits(p, q)
    /\ Fail(r, "internal")

RequestStep(r) ==
    \/ RefuseItem(r) \/ AcceptItem(r)
    \/ ClaimInsert(r) \/ ClaimDuplicate(r) \/ ClaimRefused(r)
    \/ InsertUsage(r) \/ AddEvents(r) \/ Commit(r) \/ FetchAdjusted(r)
    \/ DeadlockVictim(r)

UsageNext ==
    \/ CatalogNext /\ UNCHANGED usageVars
    \/ \E r \in Requests :
         \/ RefuseBatch(r) \/ StartBatch(r)
         \/ RequestStep(r)
         \/ CommitUnacknowledged(r) \/ Abort(r)

UsageSpec == UsageInit /\ [][UsageNext]_vars
\* Request goroutines keep running, free keys are handed to who waits for
\* them, and the database finds its deadlocks; clients need not send anything
\* and nothing has to fail.
FairUsageSpec ==
    /\ UsageSpec
    /\ \A r \in Requests : WF_vars(RequestStep(r))

-----------------------------------------------------------------------------
\* Type invariant.
UsageTypeOK ==
    /\ keys \subseteq KeyRow
    /\ facts \subseteq FactRow
    /\ outbox \subseteq UsageEvent
    /\ sub \in [Requests -> Submissions]
    /\ pc \in [Requests -> Pcs]
    /\ idx \in [Requests -> Nat]
    /\ verified \in [Requests -> SUBSET Scope]
    /\ seen \in [Requests -> SUBSET Meter]
    /\ claimed \in [Requests -> SUBSET Nat]
    /\ inserted \in [Requests -> SUBSET Nat]
    /\ logged \in [Requests -> SUBSET UsageEvent]
    /\ view \in [Requests -> SUBSET (SUBSET KeyRow)]
    /\ results \in [Requests -> Seq(Result)]
    /\ reply \in [Requests -> Replies]

\* Idempotent ingestion: however many requests carry an event, and however
\* they interleave, fail or are retried, one fact is recorded for it, and it
\* is the fact its key row names, with the same tenant, application and meter
\* (service.go:175-191, repository.go:95-129).
OneFactPerEvent ==
    /\ \A f, g \in facts : Collate[f.event] = Collate[g.event] => f = g
    /\ \A k \in keys : \E f \in facts :
         /\ f.id = k.fact /\ Collate[f.event] = k.event
         /\ f.scope = k.scope /\ f.code = k.code
    /\ \A f \in facts : \E k \in keys : k.fact = f.id /\ k.event = Collate[f.event]

\* The outbox agrees with the facts: each recorded fact is announced in exactly
\* one usage.recorded event, whose scope is the fact's own, and an event names
\* no fact that was rolled back (service.go:193-198).
FactsAnnouncedOnce ==
    /\ \A f \in facts : \E e \in outbox : f.id \in e.facts
    /\ \A e \in outbox :
         /\ e.facts # {}
         /\ \A id \in e.facts : \E f \in facts : f.id = id /\ f.scope = e.scope
    /\ \A d, e \in outbox : d.facts \cap e.facts # {} => d = e

\* A request answered "ok" has a committed fact for each of its inputs: its own
\* new one, or, when the result says duplicate, another one recorded earlier
\* for the same event, tenant, application and meter.
AcknowledgedIsRecorded ==
    \A r \in Requests : reply[r] = "ok" =>
        /\ Len(results[r]) = Len(Items(r))
        /\ \A i \in DOMAIN results[r] : \E f \in facts :
             /\ f.id = results[r][i].fact
             /\ Collate[f.event] = Key(r, i)
             /\ f.scope = Items(r)[i].scope /\ f.code = Items(r)[i].code
             /\ results[r][i].dup <=> f.id # <<r, i>>

FactsOf(r) == {f \in facts : f.id[1] = r}

\* A batch is recorded as a whole or not at all, whatever input of it failed
\* and whoever claimed its other events; and a definite refusal means nothing
\* was recorded (AdjustUsage apart, which may fail after its commit).
BatchAtomic ==
    \A r \in Requests :
        /\ \/ FactsOf(r) = {}
           \/ \A i \in DOMAIN Items(r) : HasKey(keys, Key(r, i))
        /\ reply[r] \notin {"none", "ok", "internal"} /\ ~sub[r].adjust =>
               FactsOf(r) = {}

\* No fact is recorded outside the scopes its caller may act in: the scope is
\* granted to the application and the caller belongs to its tenant.
FactsAuthorized ==
    \A f \in facts :
        f.scope \in Granted /\ MayAct(sub[f.id[1]].who, f.scope)

\* AdjustUsage always finds what it has just recorded, its own fact or the one
\* it duplicates (metering_server.go:83-94).
AdjustmentReadable ==
    \A r \in Requests : pc[r] = "fetch" =>
        \E f \in facts : f.id = results[r][1].fact /\ f.scope = Items(r)[1].scope

\* A fact is recorded only on a version of its meter that really existed and
\* was active; if that meter is no longer so, it was changed after the request
\* read it, which the code tolerates (service.go:148-158).
MeterActiveWhenRead ==
    [][\A f \in facts' \ facts : \E m \in seen[f.id[1]] :
          /\ m.code = f.code /\ m.status = "active"
          /\ \E e \in meterEvents : e.meter = m
          /\ \E n \in meters : n.id = m.id /\ (n = m \/ n.version > m.version)]_vars

\* Every accepted request is answered, although batches wait for one another's
\* event ids inside their transactions.
RequestsAnswered == \A r \in Requests : pc[r] # "idle" ~> pc[r] = "done"

-----------------------------------------------------------------------------
\* The answer a caller has, as the ledger sees it.
LedgerAnswer(r) ==
    [state |-> CASE reply[r] = "none" -> "open"
                 [] reply[r] = "ok" -> "ok"
                 [] OTHER -> "failed",
     results |-> IF reply[r] = "ok" THEN results[r] ELSE <<>>]

Ledger == INSTANCE UsageLedger WITH
    ledger <- facts,
    announced <- outbox,
    submitted <- sub,
    answer <- [r \in Requests |-> LedgerAnswer(r)]

\* Recording a batch step by step, with reads before the transaction, waiting
\* claims and rollbacks, looks to every client like posting it atomically to a
\* ledger: the duplicates found one by one are those of the commit's instant.
ImplementsLedger == Ledger!LedgerSpec

-----------------------------------------------------------------------------
\* README.md:35, "event_id makes usage ingestion idempotent": when nothing
\* fails and no transactions deadlock, no request ends in an internal error.
ResendNeverFails == \A r \in Requests : reply[r] # "internal"

\* README.md:35 again: usage acknowledged as recorded is recorded under the
\* event_id that was sent.
AcknowledgedUnderOwnEventId ==
    \A r \in Requests : reply[r] = "ok" =>
        \A i \in DOMAIN results[r] : \E f \in facts :
            f.id = results[r][i].fact /\ f.event = Items(r)[i].event
=============================================================================
