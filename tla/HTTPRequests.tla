---------------------------- MODULE HTTPRequests ----------------------------
(***************************************************************************)
(* Requests on their way to their handler and back: POST requests through  *)
(* the middlewares of internal/transport/http, and gRPC calls through the  *)
(* interceptors of internal/transport/grpc.  What is refused on the way    *)
(* in, and how a repeated request is answered from the record kept in      *)
(* Redis instead of being run again, which IdempotencyExecution does for   *)
(* HTTP and a library interceptor on the same Manager for gRPC.            *)
(*                                                                         *)
(* Time is counted in ticks.  A request has `left` ticks until the         *)
(* deadline of the context it runs in, and a record of Redis has `ttl`     *)
(* ticks until it is dropped.  Every blocking call of a handler takes the  *)
(* request's context, so a request that has no tick left returns before    *)
(* the next one.                                                           *)
(*                                                                         *)
(* The handler is what it means to the caller: an effect that becomes      *)
(* durable at one point (`effects`) and an answer after it.  A request's   *)
(* own name stands for the owner token it draws and for the response its   *)
(* handler writes.                                                         *)
(***************************************************************************)
EXTENDS Naturals

CONSTANTS
    Posts,            \* requests, sent to any replica
    NoPost,           \* no request
    Keys,             \* Idempotency-Key values that idempotency.Valid accepts
    NoKey, BadKey,    \* no such header, and a value it does not accept
    Users,            \* subjects of JWTs
    Bodies,
    Routes,           \* HTTP paths and gRPC methods
    GRPCMethods,      \* the gRPC methods among them
    PSKRoutes,        \* auth.psk.http_paths and grpc_methods
    SkipRoutes,       \* auth.skip_http_paths and skip_grpc_methods
    ProtectedRoutes,  \* routes with an authorization requirement
    IdempotentRoutes, \* idempotency.http_paths and grpc_methods
    Permissions,      \* <<subject, route>> pairs the authorizer permits
    Inputs,           \* what clients may send
    RequestTimeout, PersistTimeout, ProcessingTTL, ResultTTL, FailureTTL,
    RateFailOpen,     \* rate_limit.fail_open
    Failures          \* whether calls to Redis, handlers and replicas fail

Subjects == Users \cup {"psk", "<nil>"}
Credentials == Users \cup {"psk", "none"}
\* `wait` is the deadline a gRPC client gives its call.
PostInput == [key : Keys \cup {NoKey, BadKey}, cred : Credentials,
              route : Routes, body : Bodies, wait : Nat \ {0}]

ASSUME HTTPAssumption ==
    /\ NoPost \notin Posts
    /\ NoKey \notin Keys /\ BadKey \notin Keys /\ NoKey # BadKey
    /\ Inputs \subseteq PostInput
    /\ RequestTimeout \in Nat \ {0} /\ PersistTimeout \in Nat \ {0}
    /\ ProcessingTTL \in Nat \ {0} /\ ResultTTL \in Nat \ {0}
    /\ FailureTTL \in Nat \ {0}
    /\ RateFailOpen \in BOOLEAN /\ Failures \in BOOLEAN

Fingerprint == [subject : Subjects, route : Routes, body : Bodies]
Record == [state : {"processing", "completed", "failed"}, owner : Posts,
           print : Fingerprint]
Absent == [state |-> "absent"]

Refusals == {"invalid", "limited", "unauthorized", "forbidden", "unavailable"}
Replies == Refusals \cup
    {"none", "ok", "error", "in progress", "conflict", "panic", "lost"}

VARIABLES
    post,     \* what each request carries, fixed from the start
    stage,    \* how far it is
    left,     \* ticks until the deadline of the context it runs in
    age,      \* ticks since it took its key
    effects,  \* requests whose handler's effect is durable
    written,  \* what the handler wrote into the captured response
    answer,   \* what the client got, and which handler produced it
    records,  \* the idempotency records of Redis
    ttl       \* ticks until each is dropped

httpVars == <<post, stage, left, age, effects, written, answer, records, ttl>>

-----------------------------------------------------------------------------
\* Authentication: PSK routes come before skipped ones, the rest need a JWT.
Authenticated(p) ==
    IF post[p].route \in PSKRoutes THEN post[p].cred = "psk"
    ELSE post[p].route \in SkipRoutes \/ post[p].cred \in Users

SubjectOf(p) ==
    IF post[p].route \in PSKRoutes THEN "psk"
    ELSE IF post[p].route \in SkipRoutes THEN "<nil>" ELSE post[p].cred

Authorized(p) ==
    post[p].route \in ProtectedRoutes =>
        <<SubjectOf(p), post[p].route>> \in Permissions

\* The conditions under which IdempotencyExecution takes part.
Keyed(p) == post[p].key \in Keys /\ post[p].route \in IdempotentRoutes

FingerprintOfBody(p) ==
    [subject |-> "<nil>", route |-> post[p].route, body |-> post[p].body]

FingerprintOf(p) ==
    [subject |-> SubjectOf(p), route |-> post[p].route, body |-> post[p].body]

\* How the middlewares before IdempotencyExecution may end a request, in their
\* order: a bad key, an origin that is not allowed, a content type that is not
\* JSON, the rate limits by address and route, authentication, authorization,
\* the rate limit by subject, and a body that cannot be read.
PostRefusals(p) ==
    IF post[p].key = BadKey THEN {"invalid"}
    ELSE {"forbidden", "invalid", "limited"} \cup
         (IF Authenticated(p) THEN {"unavailable"} ELSE {"unauthorized"}) \cup
         (IF RateFailOpen THEN {} ELSE {"unavailable"})

\* How the interceptors end a call, in their order: a bad key, authentication,
\* and authorization of the methods that ask for it.  Nothing limits its rate.
CallRequirements == ProtectedRoutes \cap GRPCMethods

CallRefusals(p) ==
    IF post[p].key = BadKey THEN {"invalid"}
    ELSE IF ~Authenticated(p) THEN {"unauthorized"}
    ELSE IF post[p].route \notin CallRequirements THEN {}
    ELSE IF Authorized(p) THEN {"unavailable"} ELSE {"forbidden", "unavailable"}

IsCall(p) == post[p].route \in GRPCMethods

RefusalsOf(p) == IF IsCall(p) THEN CallRefusals(p) ELSE PostRefusals(p)

\* Timeout puts a POST under a deadline; no interceptor does that for a call,
\* which runs as long as its client waits.
DeadlineOf(p) == IF IsCall(p) THEN post[p].wait ELSE RequestTimeout

Admissible(p) == post[p].key # BadKey /\ Authenticated(p) /\ Authorized(p)

\* What has reached the client is not taken back.
Reply(p, kind, from) ==
    answer' = [answer EXCEPT ![p] =
                 IF @.kind = "none" THEN [kind |-> kind, from |-> from] ELSE @]

Return(p, kind, from) ==
    /\ stage' = [stage EXCEPT ![p] = "done"]
    /\ Reply(p, kind, from)

-----------------------------------------------------------------------------
HTTPInit ==
    /\ post \in [Posts -> Inputs]
    /\ stage = [p \in Posts |-> "idle"]
    /\ left = [p \in Posts |-> 0]
    /\ age = [p \in Posts |-> 0]
    /\ effects = {}
    /\ written = [p \in Posts |-> "none"]
    /\ answer = [p \in Posts |-> [kind |-> "none", from |-> NoPost]]
    /\ records = [k \in Keys |-> Absent]
    /\ ttl = [k \in Keys |-> 0]

Refuse(p) ==
    /\ stage[p] = "idle"
    /\ \E kind \in RefusalsOf(p) : Return(p, kind, NoPost)
    /\ UNCHANGED <<post, left, age, effects, written, records, ttl>>

\* The request passes all of them.
Admit(p) ==
    /\ stage[p] = "idle"
    /\ Admissible(p)
    /\ stage' = [stage EXCEPT ![p] = IF Keyed(p) THEN "begin" ELSE "handle"]
    /\ left' = [left EXCEPT ![p] = DeadlineOf(p)]
    /\ UNCHANGED <<post, age, effects, written, answer, records, ttl>>

\* Manager.Begin, one atomic step of Redis: take a free key ...
Take(p) ==
    /\ records[post[p].key] = Absent
    /\ records' = [records EXCEPT ![post[p].key] =
                      [state |-> "processing", owner |-> p, print |-> FingerprintOf(p)]]
    /\ ttl' = [ttl EXCEPT ![post[p].key] = ProcessingTTL]

\* ... or look at the record that is there.
Found(p, state) ==
    /\ records[post[p].key] # Absent
    /\ records[post[p].key].print = FingerprintOf(p)
    /\ records[post[p].key].state = state

BeginAcquired(p) ==
    /\ stage[p] = "begin" /\ left[p] > 0
    /\ Take(p)
    /\ stage' = [stage EXCEPT ![p] = "handle"]
    /\ age' = [age EXCEPT ![p] = 0]
    /\ UNCHANGED <<post, left, effects, written, answer>>

BeginConflict(p) ==
    /\ stage[p] = "begin" /\ left[p] > 0
    /\ records[post[p].key] # Absent
    /\ records[post[p].key].print # FingerprintOf(p)
    /\ Return(p, "conflict", NoPost)
    /\ UNCHANGED <<post, left, age, effects, written, records, ttl>>

ProceedWhileProcessing(p) ==
    /\ stage[p] = "begin" /\ left[p] > 0
    /\ Found(p, "processing")
    /\ stage' = [stage EXCEPT ![p] = "handle"]
    /\ age' = [age EXCEPT ![p] = 0]
    /\ UNCHANGED <<post, left, effects, written, answer, records, ttl>>

BeginProcessing(p) ==
    /\ stage[p] = "begin" /\ left[p] > 0
    /\ Found(p, "processing")
    /\ Return(p, "in progress", NoPost)
    /\ UNCHANGED <<post, left, age, effects, written, records, ttl>>

\* The stored response, or the stored failure, is the answer.
BeginReplay(p) ==
    /\ stage[p] = "begin" /\ left[p] > 0
    /\ \/ Found(p, "completed") /\ Return(p, "ok", records[post[p].key].owner)
       \/ Found(p, "failed") /\ Return(p, "error", records[post[p].key].owner)
    /\ UNCHANGED <<post, left, age, effects, written, records, ttl>>

\* Begin returns an error: Redis failed, with or without having taken the key,
\* or the deadline passed.
BeginUnavailable(p) ==
    /\ stage[p] = "begin"
    /\ Failures \/ left[p] = 0
    /\ \/ UNCHANGED <<records, ttl>>
       \/ Failures /\ Take(p)
    /\ Return(p, "unavailable", NoPost)
    /\ UNCHANGED <<post, left, age, effects, written>>

\* The handler's effect becomes durable.
Effect(p) ==
    /\ stage[p] = "handle" /\ left[p] > 0
    /\ p \notin effects
    /\ effects' = effects \cup {p}
    /\ UNCHANGED <<post, stage, left, age, written, answer, records, ttl>>

\* What the handler writes: success after its effect, or a failure, which
\* after an effect is a commit or a later read whose answer was lost.
Written(p, kind) ==
    \/ kind = "ok" /\ p \in effects
    \/ kind = "error" /\ (p \notin effects \/ Failures)

\* A request without a record is done; the others go on to store the response,
\* under a deadline of their own.  responseCapture also passes on what it
\* captures, so the client of a POST may have its answer already or wait for
\* the buffers to be flushed at the end; a call is answered at its end.
Respond(p) ==
    /\ stage[p] = "handle"
    /\ \E kind \in {"ok", "error"} :
         /\ Written(p, kind)
         /\ written' = [written EXCEPT ![p] = kind]
         /\ IF Keyed(p) THEN /\ stage' = [stage EXCEPT ![p] = "persist"]
                             /\ left' = [left EXCEPT ![p] = PersistTimeout]
                             /\ \/ UNCHANGED answer
                                \/ ~IsCall(p) /\ Reply(p, kind, p)
                        ELSE Return(p, kind, p) /\ UNCHANGED left
    /\ UNCHANGED <<post, age, effects, records, ttl>>

\* A panic in a later middleware, in Begin or in the handler unwinds
\* IdempotencyExecution, which stores nothing; Recovery answers.
PanicUnrecovered(p) ==
    /\ Failures
    /\ stage[p] \in {"idle", "begin", "handle"}
    /\ stage' = [stage EXCEPT ![p] = "unwound"]
    /\ UNCHANGED <<post, left, age, effects, written, answer, records, ttl>>

Panic(p) ==
    /\ Failures
    /\ stage[p] \in {"idle", "begin", "handle"}
    /\ Return(p, "panic", NoPost)
    /\ UNCHANGED <<post, left, age, effects, written, records, ttl>>

\* Complete and Fail change the record only if it is still the owner's.
AnyOwner(p) == TRUE

OwnsRecord(p) ==
    /\ records[post[p].key] # Absent
    /\ records[post[p].key].owner = p
    /\ records[post[p].key].state = "processing"

CompleteAlways(p) ==
    /\ records' = [records EXCEPT ![post[p].key] =
                     [state |-> "completed", owner |-> p, print |-> FingerprintOf(p)]]
    /\ ttl' = [ttl EXCEPT ![post[p].key] = ResultTTL]

Store(p) ==
    /\ records' = [records EXCEPT ![post[p].key] =
                     [state |-> IF written[p] = "ok" THEN "completed" ELSE "failed",
                      owner |-> p, print |-> FingerprintOf(p)]]
    /\ ttl' = [ttl EXCEPT ![post[p].key] =
                 IF written[p] = "ok" THEN ResultTTL ELSE FailureTTL]

Persist(p) ==
    /\ stage[p] = "persist" /\ left[p] > 0
    /\ IF OwnsRecord(p) THEN Store(p) ELSE UNCHANGED <<records, ttl>>
    /\ Return(p, written[p], p)
    /\ UNCHANGED <<post, left, age, effects, written>>

\* The record could not be stored; the client has or gets its response all the
\* same.
PersistFails(p) ==
    /\ stage[p] = "persist"
    /\ Failures \/ left[p] = 0
    /\ Return(p, written[p], p)
    /\ UNCHANGED <<post, left, age, effects, written, records, ttl>>

\* Admitted and not yet done.
Running(p) == stage[p] \in {"begin", "handle", "persist"}

\* The replica or the connection is gone: no further answer reaches the client.
Crash(p) ==
    /\ Failures
    /\ Running(p)
    /\ Return(p, "lost", NoPost)
    /\ UNCHANGED <<post, left, age, effects, written, records, ttl>>

\* A handler under a key, until its response is stored.
Executing(p) == Keyed(p) /\ stage[p] \in {"handle", "persist"}

\* One tick passes.
TickDropsResultsOnly ==
    /\ \A p \in Posts : Running(p) => left[p] > 0
    /\ (\E p \in Posts : Running(p)) \/ (\E k \in Keys : records[k] # Absent)
    /\ left' = [p \in Posts |-> IF Running(p) THEN left[p] - 1 ELSE left[p]]
    /\ age' = [p \in Posts |-> IF Executing(p) THEN age[p] + 1 ELSE 0]
    /\ ttl' = [k \in Keys |-> IF ttl[k] > 0 THEN ttl[k] - 1 ELSE 0]
    /\ records' = [k \in Keys |-> IF ttl[k] > 1 \/ records[k].state = "processing"
                                  THEN records[k] ELSE Absent]
    /\ UNCHANGED <<post, stage, effects, written, answer>>

Tick ==
    /\ \A p \in Posts : Running(p) => left[p] > 0
    /\ (\E p \in Posts : Running(p)) \/ (\E k \in Keys : records[k] # Absent)
    /\ left' = [p \in Posts |-> IF Running(p) THEN left[p] - 1 ELSE left[p]]
    /\ age' = [p \in Posts |-> IF Executing(p) THEN age[p] + 1 ELSE 0]
    /\ ttl' = [k \in Keys |-> IF ttl[k] > 0 THEN ttl[k] - 1 ELSE 0]
    /\ records' = [k \in Keys |-> IF ttl[k] > 1 THEN records[k] ELSE Absent]
    /\ UNCHANGED <<post, stage, effects, written, answer>>

Begin(p) ==
    \/ BeginAcquired(p) \/ BeginConflict(p) \/ BeginProcessing(p)
    \/ BeginReplay(p) \/ BeginUnavailable(p)

PostStep(p) == Begin(p) \/ Respond(p) \/ Persist(p) \/ PersistFails(p)

HTTPNext ==
    \/ \E p \in Posts :
         \/ Refuse(p) \/ Admit(p) \/ PostStep(p) \/ Effect(p)
         \/ Panic(p) \/ Crash(p)
    \/ Tick

HTTPSpec == HTTPInit /\ [][HTTPNext]_httpVars

\* Goroutines are scheduled and time passes.
FairHTTPSpec ==
    HTTPSpec /\ WF_httpVars(Tick) /\ \A p \in Posts : WF_httpVars(PostStep(p))
-----------------------------------------------------------------------------
\* Type invariant.
HTTPTypeOK ==
    /\ post \in [Posts -> Inputs]
    /\ stage \in [Posts -> {"idle", "begin", "handle", "persist", "done"}]
    /\ left \in [Posts -> Nat]
    /\ age \in [Posts -> Nat]
    /\ effects \subseteq Posts
    /\ written \in [Posts -> {"none", "ok", "error"}]
    /\ answer \in [Posts -> [kind : Replies, from : Posts \cup {NoPost}]]
    /\ records \in [Keys -> Record \cup {Absent}]
    /\ ttl \in [Keys -> Nat]

\* A response leaves the service only for the request that caused it or for a
\* repetition of that request: the same key, subject, route and body, by a
\* caller that is authenticated and authorized now (middleware.go:93-171,
\* server.go:58-63).
ResponsesStayWithRequest ==
    \A p \in Posts :
        LET q == answer[p].from IN
        q # NoPost =>
            /\ Authenticated(p) /\ Authorized(p)
            /\ q # p => /\ Keyed(p) /\ Keyed(q)
                        /\ post[p].key = post[q].key
                        /\ SubjectOf(p) = SubjectOf(q)
                        /\ post[p].route = post[q].route
                        /\ post[p].body = post[q].body

\* "Success" is never said of something that did not happen: the handler that
\* produced a response of success, replayed or not, stored or not, has made its
\* effect durable (middleware.go:139-155).
SuccessMeansEffect ==
    /\ \A p \in Posts : answer[p].kind = "ok" => answer[p].from \in effects
    /\ \A k \in Keys : records[k].state = "completed" => records[k].owner \in effects

\* Between its acquisition and its expiry a record belongs to one request and
\* its result is written once: the late result of a request whose record has
\* expired replaces nothing (middleware.go:150-155).
OwnerKept(k) ==
    records[k] # Absent /\ records'[k] # Absent =>
        \/ records'[k] = records[k]
        \/ /\ records[k].state = "processing"
           /\ records'[k].owner = records[k].owner
           /\ records'[k].print = records[k].print
           /\ records'[k].state = IF written[records[k].owner] = "ok"
                                  THEN "completed" ELSE "failed"

RecordsKeepOwner == [][\A k \in Keys : OwnerKept(k)]_httpVars

\* The point of the key: an execution that is younger than the processing TTL
\* still holds its key, so no two of them overlap under one key and nothing is
\* executed again while its result is stored.  Whether executions stay that
\* young is a matter of configuration, which Config.Validate does not check
\* (config.go:563), and for gRPC of the client.
KeyHeldWhileExecuting ==
    \A p \in Posts : Executing(p) /\ age[p] < ProcessingTTL => OwnsRecord(p)

\* Every request that is admitted, with a key or without, is answered or its
\* replica is gone: whatever Redis, the handler and the deadline do, it leaves
\* the chain (middleware.go:93-157, 198-215).
PostsAnswered == \A p \in Posts : Running(p) ~> stage[p] = "done"

\* A key is never blocked for good: whatever happened to its owner, the record
\* gives way to a result or expires, and every result expires (middleware.go:109,
\* 130-155).
KeysFreed == \A k \in Keys : records[k] # Absent ~> records[k] = Absent
=============================================================================
