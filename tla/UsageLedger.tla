----------------------------- MODULE UsageLedger -----------------------------
(***************************************************************************)
(* What usage ingestion promises, without transactions, keys or locks: a   *)
(* ledger to which a batch is posted in one atomic step, once, with all of *)
(* its new events or none, and an answer that says which fact stands for   *)
(* each input.  UsageIngestion is shown to implement it.                   *)
(***************************************************************************)
EXTENDS Naturals, Sequences

CONSTANTS Requests, Submissions, Collate

VARIABLES
    ledger,    \* the recorded facts
    announced, \* the usage.recorded events
    submitted, \* the batch of each request
    answer     \* "open", "failed", or "ok" with the results of the batch

ledgerVars == <<ledger, announced, submitted, answer>>

Batch(r) == submitted[r].items
SameEvent(x, y) == Collate[x.event] = Collate[y.event]
SameUse(x, y) == x.scope = y.scope /\ x.code = y.code

\* The recorded facts of an input's event, and the first input of the batch
\* with that event.
Existing(item) == {f \in ledger : SameEvent(f, item)}
Leader(r, i) ==
    CHOOSE j \in 1..i :
        /\ SameEvent(Batch(r)[j], Batch(r)[i])
        /\ \A k \in 1..(j - 1) : ~SameEvent(Batch(r)[k], Batch(r)[i])

\* An event belongs to one tenant, application and meter.
Consistent(r) ==
    \A i \in DOMAIN Batch(r) :
        /\ \A f \in Existing(Batch(r)[i]) : SameUse(f, Batch(r)[i])
        /\ \A j \in DOMAIN Batch(r) :
             SameEvent(Batch(r)[i], Batch(r)[j]) => SameUse(Batch(r)[i], Batch(r)[j])

New(r) == {i \in DOMAIN Batch(r) : Existing(Batch(r)[i]) = {} /\ Leader(r, i) = i}

FactFor(r, i) ==
    [id |-> <<r, i>>, event |-> Batch(r)[i].event, scope |-> Batch(r)[i].scope,
     code |-> Batch(r)[i].code]

Announcements(r) ==
    {[scope |-> Batch(r)[i].scope,
      facts |-> {<<r, j>> : j \in {k \in New(r) : Batch(r)[k].scope = Batch(r)[i].scope}}] :
        i \in New(r)}

Outcome(r) ==
    [i \in DOMAIN Batch(r) |->
        IF Existing(Batch(r)[i]) # {}
        THEN [fact |-> (CHOOSE f \in Existing(Batch(r)[i]) : TRUE).id, dup |-> TRUE]
        ELSE [fact |-> <<r, Leader(r, i)>>, dup |-> Leader(r, i) # i]]

Open == [state |-> "open", results |-> <<>>]
Failed == [state |-> "failed", results |-> <<>>]
Ok(results) == [state |-> "ok", results |-> results]

LedgerInit ==
    /\ ledger = {} /\ announced = {}
    /\ submitted \in [Requests -> Submissions]
    /\ answer = [r \in Requests |-> Open]

\* The batch takes effect, once; its requester learns the outcome, or is told
\* of a failure, or is answered later.
Post(r) ==
    /\ answer[r] = Open
    /\ \A f \in ledger : f.id[1] # r
    /\ Consistent(r)
    /\ ledger' = ledger \cup {FactFor(r, i) : i \in New(r)}
    /\ announced' = announced \cup Announcements(r)
    /\ \E a \in {Open, Failed, Ok(Outcome(r))} : answer' = [answer EXCEPT ![r] = a]
    /\ UNCHANGED submitted

Refuse(r) ==
    /\ answer[r] = Open
    /\ answer' = [answer EXCEPT ![r] = Failed]
    /\ UNCHANGED <<ledger, announced, submitted>>

\* An answer that comes after the posting names the facts of the ledger.
Standing(r) ==
    [i \in DOMAIN Batch(r) |->
        LET id == (CHOOSE f \in Existing(Batch(r)[i]) : TRUE).id
        IN  [fact |-> id, dup |-> id # <<r, i>>]]

Confirm(r) ==
    /\ answer[r] = Open
    /\ \A i \in DOMAIN Batch(r) : Existing(Batch(r)[i]) # {}
    /\ answer' = [answer EXCEPT ![r] = Ok(Standing(r))]
    /\ UNCHANGED <<ledger, announced, submitted>>

LedgerNext == \E r \in Requests : Post(r) \/ Refuse(r) \/ Confirm(r)

LedgerSpec == LedgerInit /\ [][LedgerNext]_ledgerVars
==============================================================================
