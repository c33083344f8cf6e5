------------------------- MODULE HTTPRequestsProofs -------------------------
(***************************************************************************)
(* Proofs about HTTPRequests, for any number of requests, keys and routes  *)
(* and any values of the timeouts and TTLs.                                *)
(***************************************************************************)
EXTENDS HTTPRequests, TLAPS

\* Parts of the inductive invariant.  A request on its way has been admitted,
\* and one that stores its response has written it.
StagesInv ==
    /\ \A p \in Posts : Running(p) => Admissible(p)
    /\ \A p \in Posts : stage[p] \in {"begin", "persist"} => Keyed(p)
    /\ \A p \in Posts : stage[p] = "persist" => written[p] \in {"ok", "error"}
    /\ \A p \in Posts : written[p] = "ok" => p \in effects

\* A record says who took it, for what, and a completed one is true.
RecordsInv ==
    \A k \in Keys : records[k] # Absent =>
        /\ Keyed(records[k].owner)
        /\ post[records[k].owner].key = k
        /\ records[k].print = FingerprintOf(records[k].owner)
        /\ records[k].state = "completed" => records[k].owner \in effects

AnswersInv ==
    \A p \in Posts :
        /\ answer[p].kind = "ok" => answer[p].from \in effects
        /\ answer[p].from # NoPost =>
             /\ Admissible(p)
             /\ answer[p].from # p =>
                  /\ Keyed(p) /\ Keyed(answer[p].from)
                  /\ post[p].key = post[answer[p].from].key
                  /\ FingerprintOf(p) = FingerprintOf(answer[p].from)

HTTPInv == HTTPTypeOK /\ StagesInv /\ RecordsInv /\ AnswersInv

\* A record lives as long as the processing TTL, or until its owner is done.
Young(p) == Executing(p) /\ age[p] < ProcessingTTL

Held(p) ==
    /\ Young(p) => OwnsRecord(p) /\ ttl[post[p].key] + age[p] >= ProcessingTTL
    /\ stage[p] = "begin" => left[p] <= DeadlineOf(p)
    /\ Executing(p) /\ stage[p] = "handle" => age[p] + left[p] <= DeadlineOf(p)
    /\ stage[p] = "persist" => age[p] + left[p] <= DeadlineOf(p) + PersistTimeout

HeldInv == \A p \in Posts : Held(p)

PostActions(p) ==
    \/ Refuse(p) \/ Admit(p) \/ PostStep(p) \/ Effect(p) \/ Panic(p) \/ Crash(p)

-----------------------------------------------------------------------------
\* What the requests carry never changes, and it decides these four.
LEMMA InputOperators ==
    ASSUME NEW p \in Posts, post' = post
    PROVE  /\ Authenticated(p)' = Authenticated(p)
           /\ Authorized(p)' = Authorized(p)
           /\ Keyed(p)' = Keyed(p)
           /\ Admissible(p)' = Admissible(p)
           /\ FingerprintOf(p)' = FingerprintOf(p)
           /\ DeadlineOf(p)' = DeadlineOf(p)
PROOF BY DEF Authenticated, Authorized, SubjectOf, Keyed, Admissible, FingerprintOf,
  IsCall, DeadlineOf

\* A keyed request names a key and has a fingerprint.
LEMMA InputTyped ==
    ASSUME HTTPTypeOK, NEW p \in Posts
    PROVE  /\ post[p] \in PostInput
           /\ Keyed(p) => post[p].key \in Keys
           /\ Admissible(p) => FingerprintOf(p) \in Fingerprint
           /\ DeadlineOf(p) \in Nat
<1>1. post[p] \in PostInput
  BY HTTPAssumption DEF HTTPTypeOK
<1> QED
  BY <1>1, HTTPAssumption DEF PostInput, Credentials, Keyed, Admissible, Authenticated,
     SubjectOf, FingerprintOf, Fingerprint, Subjects, IsCall, DeadlineOf

\* A record is not the absent one.
LEMMA RecordPresent ==
    ASSUME NEW r \in Record
    PROVE  r # Absent
PROOF BY DEF Record, Absent

\* Initially the invariant holds.
LEMMA HTTPInitially == HTTPInit => HTTPInv /\ HeldInv
PROOF BY HTTPAssumption DEF HTTPInit, HTTPInv, HTTPTypeOK, StagesInv, RecordsInv,
  AnswersInv, HeldInv, Held, Young, Running, Executing, Replies, Refusals
-----------------------------------------------------------------------------
\* What a returning request needs so that its answer is right.
AnswerFits(p, kind, from) ==
    /\ kind \in Replies /\ from \in Posts \cup {NoPost}
    /\ kind = "ok" => from \in effects
    /\ from # NoPost =>
         /\ Admissible(p)
         /\ from # p => /\ Keyed(p) /\ Keyed(from)
                        /\ post[p].key = post[from].key
                        /\ FingerprintOf(p) = FingerprintOf(from)

\* A request that returns keeps the parts about requests and answers.
LEMMA ReturnKeeps ==
    ASSUME HTTPInv, NEW p \in Posts, NEW kind, NEW from,
           AnswerFits(p, kind, from), Return(p, kind, from),
           post' = post, effects \subseteq effects', written' = written
    PROVE  /\ StagesInv' /\ AnswersInv'
           /\ stage' \in [Posts -> {"idle", "begin", "handle", "persist", "done"}]
           /\ answer' \in [Posts -> [kind : Replies, from : Posts \cup {NoPost}]]
<1> USE DEF HTTPInv
<1>1. /\ stage' \in [Posts -> {"idle", "begin", "handle", "persist", "done"}]
      /\ answer' \in [Posts -> [kind : Replies, from : Posts \cup {NoPost}]]
  BY DEF HTTPTypeOK, Return, Reply, AnswerFits
<1>2. StagesInv'
  <2>1. \A q \in Posts : Running(q)' => Running(q)
    BY DEF Running, Return, HTTPTypeOK
  <2>2. \A q \in Posts : stage'[q] # "done" => stage'[q] = stage[q]
    BY DEF Return, HTTPTypeOK
  <2> QED
    BY <2>1, <2>2, InputOperators DEF StagesInv
<1>3. AnswersInv'
  <2> SUFFICES ASSUME NEW q \in Posts
               PROVE  /\ answer'[q].kind = "ok" => answer'[q].from \in effects'
                      /\ answer'[q].from # NoPost =>
                           /\ Admissible(q)'
                           /\ answer'[q].from # q =>
                                /\ Keyed(q)' /\ Keyed(answer[q].from)'
                                /\ post'[q].key = post'[answer'[q].from].key
                                /\ FingerprintOf(q)' = FingerprintOf(answer[q].from)'
    BY DEF AnswersInv
  <2> DEFINE f == answer'[q].from
  <2>0. f \in Posts \cup {NoPost}
    BY <1>1
  <2>1. CASE q = p
    <3>1. \/ answer'[q].kind = kind /\ f = from
          \/ answer'[q] = answer[q]
      BY <2>1 DEF Return, Reply, HTTPTypeOK
    <3> QED
      BY <3>1, <2>0, <2>1, InputOperators DEF AnswerFits, AnswersInv
  <2>2. CASE q # p
    <3>1. answer'[q] = answer[q]
      BY <2>2 DEF Return, Reply, HTTPTypeOK
    <3> QED
      BY <3>1, <2>0, InputOperators DEF AnswersInv
  <2> QED
    BY <2>1, <2>2
<1> QED
  BY <1>1, <1>2, <1>3

\* Steps that leave the records alone.
LEMMA RecordsUntouched ==
    ASSUME HTTPInv, post' = post, effects \subseteq effects',
           UNCHANGED <<records, ttl>>
    PROVE  /\ RecordsInv'
           /\ records' \in [Keys -> Record \cup {Absent}] /\ ttl' \in [Keys -> Nat]
<1>1. \A k \in Keys : records[k] # Absent => records[k].owner \in Posts
  BY DEF HTTPInv, HTTPTypeOK, Record
<1> QED
  BY <1>1, InputOperators DEF HTTPInv, HTTPTypeOK, RecordsInv

\* A request writes a record of its own under its key.
LEMMA WriteKeeps ==
    ASSUME HTTPInv, NEW p \in Posts, stage[p] \in {"begin", "persist"},
           NEW rec \in Record, rec.owner = p, rec.print = FingerprintOf(p),
           rec.state = "completed" => p \in effects,
           NEW t \in Nat,
           records' = [records EXCEPT ![post[p].key] = rec],
           ttl' = [ttl EXCEPT ![post[p].key] = t],
           UNCHANGED <<post, effects>>
    PROVE  /\ RecordsInv'
           /\ records' \in [Keys -> Record \cup {Absent}] /\ ttl' \in [Keys -> Nat]
<1>1. Keyed(p) /\ post[p].key \in Keys
  BY InputTyped DEF HTTPInv, StagesInv
<1>2. records' \in [Keys -> Record \cup {Absent}] /\ ttl' \in [Keys -> Nat]
  BY <1>1 DEF HTTPInv, HTTPTypeOK
<1>3. RecordsInv'
  <2> SUFFICES ASSUME NEW k \in Keys, records'[k] # Absent
               PROVE  /\ Keyed(records[k].owner)'
                      /\ post'[records'[k].owner].key = k
                      /\ records'[k].print = FingerprintOf(records[k].owner)'
                      /\ records'[k].state = "completed" => records'[k].owner \in effects'
    BY DEF RecordsInv
  <2>1. CASE k = post[p].key
    <3>1. records'[k] = rec
      BY <1>1, <2>1 DEF HTTPInv, HTTPTypeOK
    <3> QED
      BY <3>1, <2>1, <1>1, InputOperators
  <2>2. CASE k # post[p].key
    <3>1. records'[k] = records[k]
      BY <1>1, <2>2 DEF HTTPInv, HTTPTypeOK
    <3>2. records[k].owner \in Posts
      BY <3>1 DEF HTTPInv, HTTPTypeOK, Record
    <3> QED
      BY <3>1, <3>2, InputOperators DEF HTTPInv, RecordsInv
  <2> QED
    BY <2>1, <2>2
<1> QED
  BY <1>2, <1>3

\* Begin takes a key for a request that has been admitted.
LEMMA TakeKeeps ==
    ASSUME HTTPInv, NEW p \in Posts, stage[p] = "begin", Take(p),
           UNCHANGED <<post, effects>>
    PROVE  /\ RecordsInv'
           /\ records' \in [Keys -> Record \cup {Absent}] /\ ttl' \in [Keys -> Nat]
<1> DEFINE rec == [state |-> "processing", owner |-> p, print |-> FingerprintOf(p)]
<1>1. rec \in Record
  BY InputTyped DEF HTTPInv, StagesInv, Running, Record
<1>2. /\ records' = [records EXCEPT ![post[p].key] = rec]
      /\ ttl' = [ttl EXCEPT ![post[p].key] = ProcessingTTL]
  BY DEF Take
<1> QED
  BY <1>1, <1>2, WriteKeeps, HTTPAssumption

\* The owner of a record stores the response it has written.
LEMMA StoreKeeps ==
    ASSUME HTTPInv, NEW p \in Posts, stage[p] = "persist", Store(p),
           UNCHANGED <<post, effects>>
    PROVE  /\ RecordsInv'
           /\ records' \in [Keys -> Record \cup {Absent}] /\ ttl' \in [Keys -> Nat]
<1> DEFINE rec == [state |-> IF written[p] = "ok" THEN "completed" ELSE "failed",
                   owner |-> p, print |-> FingerprintOf(p)]
           t == IF written[p] = "ok" THEN ResultTTL ELSE FailureTTL
<1>1. rec \in Record /\ t \in Nat
  BY InputTyped, HTTPAssumption DEF HTTPInv, StagesInv, Running, Record
<1>2. rec.state = "completed" => p \in effects
  BY DEF HTTPInv, StagesInv
<1>3. /\ records' = [records EXCEPT ![post[p].key] = rec]
      /\ ttl' = [ttl EXCEPT ![post[p].key] = t]
  BY DEF Store
<1>4. rec.owner = p /\ rec.print = FingerprintOf(p)
  OBVIOUS
<1> HIDE DEF rec, t
<1> QED
  BY <1>1, <1>2, <1>3, <1>4, WriteKeeps

-----------------------------------------------------------------------------
\* A step that returns without touching records, the common case.
LEMMA QuietReturn ==
    ASSUME HTTPInv, NEW p \in Posts, NEW kind, NEW from,
           AnswerFits(p, kind, from), Return(p, kind, from),
           UNCHANGED <<post, left, age, effects, written, records, ttl>>
    PROVE  HTTPInv'
<1>1. /\ StagesInv' /\ AnswersInv'
      /\ stage' \in [Posts -> {"idle", "begin", "handle", "persist", "done"}]
      /\ answer' \in [Posts -> [kind : Replies, from : Posts \cup {NoPost}]]
  BY ReturnKeeps
<1>2. RecordsInv'
  BY RecordsUntouched
<1> QED
  BY <1>1, <1>2 DEF HTTPInv, HTTPTypeOK

\* Answers that no handler produced always fit.
LEMMA PlainAnswer ==
    ASSUME NEW p \in Posts, NEW kind \in Replies \ {"ok"}
    PROVE  AnswerFits(p, kind, NoPost)
PROOF BY DEF AnswerFits

\* Each action keeps the invariant: the early refusals (RateLimit, JWT, ...),
LEMMA RefuseKeeps == ASSUME HTTPInv, NEW p \in Posts, Refuse(p) PROVE HTTPInv'
<1>1. PICK kind \in RefusalsOf(p) : Return(p, kind, NoPost)
  BY DEF Refuse
<1>2. kind \in Replies \ {"ok"}
  BY <1>1 DEF RefusalsOf, PostRefusals, CallRefusals, Replies, Refusals
<1>3. AnswerFits(p, kind, NoPost)
  BY <1>2, PlainAnswer
<1> QED
  BY <1>1, <1>3, QuietReturn DEF Refuse

\* admission to the chain,
LEMMA AdmitKeeps == ASSUME HTTPInv, NEW p \in Posts, Admit(p) PROVE HTTPInv'
<1>1. RecordsInv'
  BY RecordsUntouched DEF Admit
<1>2. HTTPTypeOK'
  BY InputTyped DEF Admit, HTTPInv, HTTPTypeOK
<1>3. StagesInv'
  BY InputOperators DEF Admit, HTTPInv, HTTPTypeOK, StagesInv, Running
<1>4. AnswersInv'
  BY InputOperators DEF Admit, HTTPInv, HTTPTypeOK, AnswersInv
<1> QED
  BY <1>1, <1>2, <1>3, <1>4 DEF HTTPInv

\* the decision of Manager.Begin,
LEMMA BeginKeeps == ASSUME HTTPInv, NEW p \in Posts, Begin(p) PROVE HTTPInv'
<1>0. Keyed(p) /\ Admissible(p) /\ post[p].key \in Keys
  BY InputTyped DEF Begin, BeginAcquired, BeginConflict, BeginProcessing, BeginReplay,
     BeginUnavailable, HTTPInv, StagesInv, Running
<1>1. CASE BeginAcquired(p)
  <2>1. /\ RecordsInv'
        /\ records' \in [Keys -> Record \cup {Absent}] /\ ttl' \in [Keys -> Nat]
    BY <1>1, TakeKeeps DEF BeginAcquired
  <2>2. HTTPTypeOK'
    BY <1>1, <2>1 DEF BeginAcquired, HTTPInv, HTTPTypeOK
  <2>3. StagesInv'
    BY <1>1, InputOperators DEF BeginAcquired, HTTPInv, HTTPTypeOK, StagesInv, Running
  <2>4. AnswersInv'
    BY <1>1, InputOperators DEF BeginAcquired, HTTPInv, HTTPTypeOK, AnswersInv
  <2> QED
    BY <2>1, <2>2, <2>3, <2>4 DEF HTTPInv
<1>2. CASE BeginConflict(p)
  <2>1. AnswerFits(p, "conflict", NoPost)
    BY PlainAnswer DEF Replies
  <2> QED
    BY <1>2, <2>1, QuietReturn DEF BeginConflict
<1>3. CASE BeginProcessing(p)
  <2>1. AnswerFits(p, "in progress", NoPost)
    BY PlainAnswer DEF Replies
  <2> QED
    BY <1>3, <2>1, QuietReturn DEF BeginProcessing
<1>4. CASE BeginReplay(p)
  <2> DEFINE rec == records[post[p].key]
  <2>1. PICK kind \in {"ok", "error"} :
          /\ Found(p, IF kind = "ok" THEN "completed" ELSE "failed")
          /\ Return(p, kind, rec.owner)
    BY <1>4 DEF BeginReplay
  <2>2. rec # Absent /\ rec.owner \in Posts /\ rec.print = FingerprintOf(p)
    BY <1>0, <2>1 DEF Found, HTTPInv, HTTPTypeOK, Record
  <2>3. /\ Keyed(rec.owner) /\ post[rec.owner].key = post[p].key
        /\ rec.print = FingerprintOf(rec.owner)
        /\ kind = "ok" => rec.owner \in effects
    BY <1>0, <2>1, <2>2 DEF Found, HTTPInv, RecordsInv
  <2>4. AnswerFits(p, kind, rec.owner)
    BY <1>0, <2>2, <2>3 DEF AnswerFits, Replies
  <2> QED
    BY <1>4, <2>1, <2>4, QuietReturn DEF BeginReplay
<1>5. CASE BeginUnavailable(p)
  <2>1. AnswerFits(p, "unavailable", NoPost)
    BY PlainAnswer DEF Replies, Refusals
  <2>2. /\ RecordsInv'
        /\ records' \in [Keys -> Record \cup {Absent}] /\ ttl' \in [Keys -> Nat]
    BY <1>5, TakeKeeps, RecordsUntouched DEF BeginUnavailable
  <2>3. /\ StagesInv' /\ AnswersInv'
        /\ stage' \in [Posts -> {"idle", "begin", "handle", "persist", "done"}]
        /\ answer' \in [Posts -> [kind : Replies, from : Posts \cup {NoPost}]]
    BY <1>5, <2>1, ReturnKeeps DEF BeginUnavailable
  <2> QED
    BY <1>5, <2>2, <2>3 DEF BeginUnavailable, HTTPInv, HTTPTypeOK
<1> QED
  BY <1>1, <1>2, <1>3, <1>4, <1>5 DEF Begin

\* the effect of the handler,
LEMMA EffectKeeps == ASSUME HTTPInv, NEW p \in Posts, Effect(p) PROVE HTTPInv'
<1>1. RecordsInv'
  BY RecordsUntouched DEF Effect
<1>2. HTTPTypeOK' /\ StagesInv'
  BY InputOperators DEF Effect, HTTPInv, HTTPTypeOK, StagesInv, Running
<1>3. AnswersInv'
  BY InputOperators DEF Effect, HTTPInv, HTTPTypeOK, AnswersInv
<1> QED
  BY <1>1, <1>2, <1>3 DEF HTTPInv

\* the response of the handler,
LEMMA RespondKeeps == ASSUME HTTPInv, NEW p \in Posts, Respond(p) PROVE HTTPInv'
<1>1. PICK kind \in {"ok", "error"} :
        /\ Written(p, kind)
        /\ written' = [written EXCEPT ![p] = kind]
        /\ IF Keyed(p) THEN /\ stage' = [stage EXCEPT ![p] = "persist"]
                            /\ left' = [left EXCEPT ![p] = PersistTimeout]
                            /\ \/ UNCHANGED answer
                               \/ ~IsCall(p) /\ Reply(p, kind, p)
                       ELSE Return(p, kind, p) /\ UNCHANGED left
  BY DEF Respond
<1>2. stage[p] = "handle" /\ UNCHANGED <<post, age, effects, records, ttl>>
  BY DEF Respond
<1>3. kind = "ok" => p \in effects
  BY <1>1 DEF Written
<1>4. RecordsInv'
  BY <1>2, RecordsUntouched
<1>5. Admissible(p)
  BY <1>2 DEF HTTPInv, StagesInv, Running
<1>a. answer' = answer \/ Reply(p, kind, p)
  BY <1>1 DEF Return
<1>6. HTTPTypeOK'
  <2>1. [kind |-> kind, from |-> p] \in [kind : Replies, from : Posts \cup {NoPost}]
    BY DEF Replies
  <2>2. answer' \in [Posts -> [kind : Replies, from : Posts \cup {NoPost}]]
    BY <1>a, <2>1 DEF Reply, HTTPInv, HTTPTypeOK
  <2>3. /\ stage' \in [Posts -> {"idle", "begin", "handle", "persist", "done"}]
        /\ left' \in [Posts -> Nat]
    BY <1>1, HTTPAssumption DEF Return, HTTPInv, HTTPTypeOK
  <2> QED
    BY <1>1, <1>2, <2>2, <2>3 DEF HTTPInv, HTTPTypeOK
<1>7. StagesInv'
  BY <1>1, <1>2, <1>3, <1>5, InputOperators
     DEF HTTPInv, HTTPTypeOK, StagesInv, Running, Return
<1>8. AnswersInv'
  <2>1. CASE answer' = answer
    BY <1>2, <2>1, InputOperators DEF HTTPInv, HTTPTypeOK, AnswersInv
  <2>2. CASE Reply(p, kind, p)
    BY <1>2, <1>3, <1>5, <2>2, InputOperators DEF HTTPInv, HTTPTypeOK, AnswersInv, Reply
  <2> QED
    BY <1>a, <2>1, <2>2
<1> QED
  BY <1>4, <1>6, <1>7, <1>8 DEF HTTPInv

\* storing it, or failing to,
LEMMA PersistKeeps ==
    ASSUME HTTPInv, NEW p \in Posts, Persist(p) \/ PersistFails(p) PROVE HTTPInv'
<1>1. /\ stage[p] = "persist" /\ Return(p, written[p], p)
      /\ UNCHANGED <<post, left, age, effects, written>>
  BY DEF Persist, PersistFails
<1>2. AnswerFits(p, written[p], p)
  BY <1>1 DEF AnswerFits, HTTPInv, StagesInv, Running, Replies
<1>3. /\ StagesInv' /\ AnswersInv'
      /\ stage' \in [Posts -> {"idle", "begin", "handle", "persist", "done"}]
      /\ answer' \in [Posts -> [kind : Replies, from : Posts \cup {NoPost}]]
  BY <1>1, <1>2, ReturnKeeps
<1>4. /\ RecordsInv'
      /\ records' \in [Keys -> Record \cup {Absent}] /\ ttl' \in [Keys -> Nat]
  BY <1>1, StoreKeeps, RecordsUntouched DEF Persist, PersistFails
<1> QED
  BY <1>1, <1>3, <1>4 DEF HTTPInv, HTTPTypeOK

\* a panic or the loss of the replica,
LEMMA LossKeeps ==
    ASSUME HTTPInv, NEW p \in Posts, Panic(p) \/ Crash(p) PROVE HTTPInv'
<1>1. AnswerFits(p, "panic", NoPost) /\ AnswerFits(p, "lost", NoPost)
  BY PlainAnswer DEF Replies
<1> QED
  BY <1>1, QuietReturn DEF Panic, Crash

\* and the passing of time.
LEMMA TickKeeps == ASSUME HTTPInv, Tick PROVE HTTPInv'
<1>1. HTTPTypeOK'
  BY DEF Tick, HTTPInv, HTTPTypeOK, Running, Executing
<1>2. RecordsInv'
  <2> SUFFICES ASSUME NEW k \in Keys, records'[k] # Absent
               PROVE  /\ Keyed(records[k].owner)'
                      /\ post'[records'[k].owner].key = k
                      /\ records'[k].print = FingerprintOf(records[k].owner)'
                      /\ records'[k].state = "completed" => records'[k].owner \in effects'
    BY DEF RecordsInv
  <2>1. records'[k] = records[k]
    BY DEF Tick
  <2>2. records[k].owner \in Posts
    BY <2>1 DEF HTTPInv, HTTPTypeOK, Record
  <2> QED
    BY <2>1, <2>2, InputOperators DEF Tick, HTTPInv, RecordsInv
<1>3. StagesInv'
  BY InputOperators DEF Tick, HTTPInv, StagesInv, Running
<1>4. AnswersInv'
  BY InputOperators DEF Tick, HTTPInv, HTTPTypeOK, AnswersInv
<1> QED
  BY <1>1, <1>2, <1>3, <1>4 DEF HTTPInv

\* The invariant is inductive.
LEMMA HTTPStep == HTTPInv /\ [HTTPNext]_httpVars => HTTPInv'
<1> SUFFICES ASSUME HTTPInv, [HTTPNext]_httpVars PROVE HTTPInv'
  OBVIOUS
<1>1. CASE Tick
  BY <1>1, TickKeeps
<1>2. ASSUME NEW p \in Posts, PostActions(p) PROVE HTTPInv'
  BY <1>2, RefuseKeeps, AdmitKeeps, BeginKeeps, EffectKeeps, RespondKeeps,
     PersistKeeps, LossKeeps DEF PostActions, PostStep
<1>3. CASE UNCHANGED httpVars
  <2>1. RecordsInv'
    BY <1>3, RecordsUntouched DEF httpVars
  <2>2. StagesInv' /\ HTTPTypeOK'
    BY <1>3, InputOperators DEF httpVars, HTTPInv, HTTPTypeOK, StagesInv, Running
  <2>3. AnswersInv'
    BY <1>3, InputOperators DEF httpVars, HTTPInv, HTTPTypeOK, AnswersInv
  <2> QED
    BY <2>1, <2>2, <2>3 DEF HTTPInv
<1> QED
  BY <1>1, <1>2, <1>3 DEF HTTPNext, PostActions

-----------------------------------------------------------------------------
\* The type invariant holds.
THEOREM HTTPTyped == HTTPSpec => []HTTPTypeOK
<1>1. HTTPInv => HTTPTypeOK
  BY DEF HTTPInv
<1> QED
  BY <1>1, HTTPInitially, HTTPStep, PTL DEF HTTPSpec

\* A stored or fresh response reaches only its own request or a repetition of
\* it by the same authorized subject, however requests interleave, fail and
\* expire.
THEOREM ResponsesStay == HTTPSpec => []ResponsesStayWithRequest
<1>1. HTTPInv => ResponsesStayWithRequest
  <2> SUFFICES ASSUME HTTPInv, NEW p \in Posts, answer[p].from # NoPost
               PROVE  /\ Authenticated(p) /\ Authorized(p)
                      /\ answer[p].from # p =>
                           /\ Keyed(p) /\ Keyed(answer[p].from)
                           /\ post[p].key = post[answer[p].from].key
                           /\ SubjectOf(p) = SubjectOf(answer[p].from)
                           /\ post[p].route = post[answer[p].from].route
                           /\ post[p].body = post[answer[p].from].body
    BY DEF ResponsesStayWithRequest
  <2> QED
    BY DEF HTTPInv, AnswersInv, Admissible, FingerprintOf
<1> QED
  BY <1>1, HTTPInitially, HTTPStep, PTL DEF HTTPSpec

\* An answer of success, fresh or replayed, names an execution that took effect.
THEOREM SuccessIsEffect == HTTPSpec => []SuccessMeansEffect
<1>1. HTTPInv => SuccessMeansEffect
  BY DEF HTTPInv, AnswersInv, RecordsInv, SuccessMeansEffect, Absent
<1> QED
  BY <1>1, HTTPInitially, HTTPStep, PTL DEF HTTPSpec
-----------------------------------------------------------------------------
\* The records a step of a request changes: none, its own, or a free one.
LEMMA RecordsTouched ==
    ASSUME HTTPInv, NEW p \in Posts, PostActions(p)
    PROVE  \/ UNCHANGED <<records, ttl>>
           \/ stage[p] = "begin" /\ Take(p)
           \/ stage[p] = "persist" /\ OwnsRecord(p) /\ Store(p)
PROOF BY DEF PostActions, Refuse, Admit, PostStep, Begin, BeginAcquired, BeginConflict,
  BeginProcessing, BeginReplay, BeginUnavailable, Respond, Persist, PersistFails,
  Effect, Panic, Crash

\* A stored result is written once, by the request that took the key.
LEMMA OwnersKept ==
    ASSUME HTTPInv, [HTTPNext]_httpVars, NEW k \in Keys
    PROVE  OwnerKept(k)
<1>1. CASE UNCHANGED records
  BY <1>1 DEF OwnerKept
<1>2. CASE Tick
  BY <1>2 DEF Tick, OwnerKept
<1>3. ASSUME NEW p \in Posts, PostActions(p) PROVE OwnerKept(k)
  <2>1. CASE UNCHANGED <<records, ttl>>
    BY <2>1, <1>1
  <2>2. CASE stage[p] = "begin" /\ Take(p)
    BY <2>2 DEF Take, OwnerKept, HTTPInv, HTTPTypeOK
  <2>3. CASE stage[p] = "persist" /\ OwnsRecord(p) /\ Store(p)
    <3>1. Keyed(p) /\ post[p].key \in Keys
      BY <2>3, InputTyped DEF HTTPInv, StagesInv
    <3>2. CASE k = post[p].key
      <4>1. records[k].print = FingerprintOf(p) /\ records[k].owner = p
            /\ records[k].state = "processing"
        BY <2>3, <3>1, <3>2 DEF OwnsRecord, HTTPInv, RecordsInv
      <4>2. records'[k] = [state |-> IF written[p] = "ok" THEN "completed" ELSE "failed",
                           owner |-> p, print |-> FingerprintOf(p)]
        BY <2>3, <3>1, <3>2 DEF Store, HTTPInv, HTTPTypeOK
      <4> QED
        BY <4>1, <4>2 DEF OwnerKept
    <3>3. CASE k # post[p].key
      BY <2>3, <3>1, <3>3 DEF Store, OwnerKept, HTTPInv, HTTPTypeOK
    <3> QED
      BY <3>2, <3>3
  <2> QED
    BY <1>3, <2>1, <2>2, <2>3, RecordsTouched
<1> QED
  BY <1>1, <1>2, <1>3 DEF HTTPNext, PostActions, httpVars

\* Live records keep their owner and get one result: the late answer of a
\* request that has lost its record replaces nothing.
THEOREM OwnersStay == HTTPSpec => RecordsKeepOwner
<1>1. HTTPInv /\ [HTTPNext]_httpVars => [\A k \in Keys : OwnerKept(k)]_httpVars
  BY OwnersKept
<1> QED
  BY <1>1, HTTPInitially, HTTPStep, PTL DEF HTTPSpec, RecordsKeepOwner

-----------------------------------------------------------------------------
\* A step of one request does not take the record from another.
LEMMA OthersHeld ==
    ASSUME HTTPInv, NEW p \in Posts, PostActions(p), NEW q \in Posts, q # p, Held(q)
    PROVE  Held(q)'
<1>1. /\ stage'[q] = stage[q] /\ left'[q] = left[q] /\ age'[q] = age[q]
      /\ post' = post
  BY DEF PostActions, Refuse, Admit, PostStep, Begin, BeginAcquired, BeginConflict,
     BeginProcessing, BeginReplay, BeginUnavailable, Respond, Persist, PersistFails,
     Effect, Panic, Crash, Return, HTTPInv, HTTPTypeOK
<1>2. Keyed(q)' = Keyed(q) /\ DeadlineOf(q)' = DeadlineOf(q)
  BY <1>1, InputOperators
<1>3. ASSUME Young(q)
      PROVE  records'[post[q].key] = records[post[q].key]
             /\ ttl'[post[q].key] = ttl[post[q].key]
  <2>1. OwnsRecord(q) /\ post[q].key \in Keys
    BY <1>3, InputTyped DEF Held, Young, Executing, HTTPInv
  <2>2. CASE UNCHANGED <<records, ttl>>
    BY <2>2
  <2>3. CASE stage[p] = "begin" /\ Take(p)
    BY <2>1, <2>3 DEF Take, OwnsRecord, HTTPInv, HTTPTypeOK
  <2>4. CASE stage[p] = "persist" /\ OwnsRecord(p) /\ Store(p)
    BY <2>1, <2>4 DEF Store, OwnsRecord, HTTPInv, HTTPTypeOK
  <2> QED
    BY <2>2, <2>3, <2>4, RecordsTouched
<1> QED
  BY <1>1, <1>2, <1>3 DEF Held, Young, Executing, OwnsRecord

\* A request keeps its own record until it is done.
LEMMA SelfHeld ==
    ASSUME HTTPInv, NEW p \in Posts, PostActions(p), Held(p)
    PROVE  Held(p)'
<1> USE DEF HTTPInv, HTTPTypeOK
<1>0. ASSUME stage'[p] = "done" PROVE Held(p)'
  BY <1>0 DEF Held, Young, Executing
<1>d. DeadlineOf(p) \in Nat
  BY InputTyped
<1>1. CASE Admit(p)
  <2>1. /\ stage'[p] \in {"begin", "handle"} /\ left'[p] = DeadlineOf(p)
        /\ stage'[p] = "handle" => ~Keyed(p)
        /\ post' = post
    BY <1>1 DEF Admit
  <2> QED
    BY <2>1, <1>d, InputOperators DEF Held, Young, Executing
<1>2. CASE BeginAcquired(p)
  <2>1. Keyed(p) /\ post[p].key \in Keys
    BY <1>2, InputTyped DEF BeginAcquired, StagesInv
  <2>2. /\ stage'[p] = "handle" /\ left' = left /\ post' = post /\ age'[p] = 0
        /\ records'[post[p].key] =
             [state |-> "processing", owner |-> p, print |-> FingerprintOf(p)]
        /\ ttl'[post[p].key] = ProcessingTTL
    BY <1>2, <2>1 DEF BeginAcquired, Take
  <2>3. left[p] <= DeadlineOf(p) /\ left[p] \in Nat
    BY <1>2 DEF BeginAcquired, Held
  <2>4. OwnsRecord(p)'
    BY <2>2 DEF OwnsRecord, Absent
  <2> QED
    BY <2>2, <2>3, <2>4, <1>d, InputOperators, HTTPAssumption DEF Held, Young, Executing
<1>3. CASE Effect(p)
  BY <1>3, InputOperators DEF Effect, Held, Young, Executing, OwnsRecord
<1>4. CASE Respond(p)
  <2>1. CASE ~Keyed(p)
    BY <1>4, <2>1, <1>0 DEF Respond, Return
  <2>2. CASE Keyed(p)
    <3>1. /\ stage[p] = "handle" /\ stage'[p] = "persist" /\ left'[p] = PersistTimeout
          /\ UNCHANGED <<post, age, records, ttl>>
      BY <1>4, <2>2 DEF Respond
    <3>2. age[p] <= DeadlineOf(p)
      BY <2>2, <3>1, <1>d DEF Held, Executing
    <3>3. age'[p] + left'[p] <= DeadlineOf(p)' + PersistTimeout
      BY <3>1, <3>2, <1>d, InputOperators, HTTPAssumption
    <3>4. Young(p)' => Young(p)
      BY <2>2, <3>1 DEF Young, Executing
    <3> QED
      BY <2>2, <3>1, <3>3, <3>4, InputOperators DEF Held, Executing, OwnsRecord
  <2> QED
    BY <2>1, <2>2
<1>5. CASE Refuse(p) \/ Panic(p) \/ Crash(p) \/ Persist(p) \/ PersistFails(p)
           \/ BeginConflict(p) \/ BeginProcessing(p) \/ BeginReplay(p)
           \/ BeginUnavailable(p)
  BY <1>5, <1>0 DEF Refuse, Panic, Crash, Persist, PersistFails, BeginConflict,
     BeginProcessing, BeginReplay, BeginUnavailable, Return
<1> QED
  BY <1>1, <1>2, <1>3, <1>4, <1>5 DEF PostActions, PostStep, Begin

\* Time takes the TTL down as the execution ages.
LEMMA TickHeld ==
    ASSUME HTTPInv, Tick, NEW p \in Posts, Held(p)
    PROVE  Held(p)'
<1> USE DEF HTTPInv, HTTPTypeOK
<1>1. /\ post' = post /\ stage' = stage /\ Keyed(p)' = Keyed(p)
      /\ DeadlineOf(p)' = DeadlineOf(p) /\ DeadlineOf(p) \in Nat
  BY InputOperators, InputTyped DEF Tick
<1>2. /\ Running(p) => left[p] > 0 /\ left'[p] = left[p] - 1
      /\ Executing(p) => age'[p] = age[p] + 1
  BY DEF Tick
<1>3. ASSUME Young(p)'
      PROVE  OwnsRecord(p)' /\ ttl'[post[p].key] + age'[p] >= ProcessingTTL
  <2>1. Young(p) /\ age'[p] = age[p] + 1 /\ age'[p] < ProcessingTTL
    BY <1>1, <1>2, <1>3, HTTPAssumption DEF Young, Executing
  <2>2. /\ OwnsRecord(p) /\ post[p].key \in Keys
        /\ ttl[post[p].key] + age[p] >= ProcessingTTL
    BY <2>1, InputTyped DEF Held, Young, Executing
  <2>3. ttl[post[p].key] > 1
    BY <2>1, <2>2, HTTPAssumption
  <2>4. /\ records'[post[p].key] = records[post[p].key]
        /\ ttl'[post[p].key] = ttl[post[p].key] - 1
    BY <2>2, <2>3 DEF Tick
  <2> QED
    BY <1>1, <2>1, <2>2, <2>4, HTTPAssumption DEF OwnsRecord
<1>4. stage[p] = "begin" => left'[p] <= DeadlineOf(p)
  BY <1>1, <1>2 DEF Held, Running
<1>5. Executing(p) /\ stage[p] = "handle" => age'[p] + left'[p] <= DeadlineOf(p)
  BY <1>1, <1>2 DEF Held, Running, Executing
<1>6. stage[p] = "persist" => age'[p] + left'[p] <= DeadlineOf(p) + PersistTimeout
  BY <1>1, <1>2, HTTPAssumption DEF Held, Running, Executing, StagesInv
<1> QED
  BY <1>1, <1>3, <1>4, <1>5, <1>6 DEF Held, Executing

\* HeldInv is inductive relative to HTTPInv.
LEMMA HeldStep == HTTPInv /\ HeldInv /\ [HTTPNext]_httpVars => HeldInv'
<1> SUFFICES ASSUME HTTPInv, HeldInv, [HTTPNext]_httpVars, NEW q \in Posts
             PROVE  Held(q)'
  BY DEF HeldInv
<1>0. Held(q)
  BY DEF HeldInv
<1>1. CASE Tick
  BY <1>0, <1>1, TickHeld
<1>2. ASSUME NEW p \in Posts, PostActions(p) PROVE Held(q)'
  BY <1>0, <1>2, SelfHeld, OthersHeld
<1>3. CASE UNCHANGED httpVars
  BY <1>0, <1>3, InputOperators DEF httpVars, Held, Young, Executing, OwnsRecord
<1> QED
  BY <1>1, <1>2, <1>3 DEF HTTPNext, PostActions

\* An execution under a key holds it for the processing TTL: until then no other
\* execution under the key overlaps it, on either transport.
THEOREM KeyHeld == HTTPSpec => []KeyHeldWhileExecuting
<1>1. HTTPInv /\ HeldInv => KeyHeldWhileExecuting
  BY DEF HeldInv, Held, Young, KeyHeldWhileExecuting
<1> QED
  BY <1>1, HTTPInitially, HTTPStep, HeldStep, PTL DEF HTTPSpec

\* What the configuration has to satisfy so that this is the whole execution:
\* the deadline and the time to store the response fit into the processing TTL.
\* The default values do (10s, 2s and 30s) for HTTP.
KeyHeldToTheEnd ==
    \A p \in Posts : Executing(p) /\ DeadlineOf(p) + PersistTimeout < ProcessingTTL =>
        OwnsRecord(p)

\* A request whose deadline fits holds its key from beginning to end.
THEOREM KeyHeldThroughout == HTTPSpec => []KeyHeldToTheEnd
<1>1. HTTPInv /\ HeldInv => KeyHeldToTheEnd
  <2> SUFFICES ASSUME HTTPInv, HeldInv, NEW p \in Posts, Executing(p),
                      DeadlineOf(p) + PersistTimeout < ProcessingTTL
               PROVE  OwnsRecord(p)
    BY DEF KeyHeldToTheEnd
  <2>1. Held(p) /\ DeadlineOf(p) \in Nat /\ age[p] \in Nat /\ left[p] \in Nat
    BY InputTyped DEF HeldInv, HTTPInv, HTTPTypeOK
  <2>2. age[p] < ProcessingTTL
    BY <2>1, HTTPAssumption DEF Held, Executing
  <2> QED
    BY <2>1, <2>2 DEF Held, Young
<1> QED
  BY <1>1, HTTPInitially, HTTPStep, HeldStep, PTL DEF HTTPSpec
=============================================================================
