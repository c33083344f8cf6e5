--------------------------- MODULE OutboundCalls ---------------------------
(***************************************************************************)
(* Calls of one upstream through HTTPClient.Do of internal/outbound/http.go *)
(* or through the interceptors of internal/grpcclient/client.go.  Both put *)
(* a circuit breaker, shared by all calls, around a retry loop.            *)
(*                                                                         *)
(* The breaker is the gobreaker library, modelled from its settings: it    *)
(* counts consecutive failures, opens at the threshold, lets one call      *)
(* through when the open timeout has passed, and ignores results of calls  *)
(* that it let through in an earlier state.                                *)
(***************************************************************************)
EXTENDS Naturals, FiniteSets

CONSTANTS
    Calls,
    MaxAttempts,      \* retry.max_attempts
    FailureThresholds \* breaker.failure_threshold of a client of each protocol

ASSUME OutboundAssumption ==
    /\ MaxAttempts \in 1..5
    /\ FailureThresholds \in [{"http", "grpc"} -> Nat \ {0}]

VARIABLES
    protocol, \* "http" or "grpc": the client that the upstream has
    stage,    \* where each call is
    kind,
    ctx,      \* whether its context is live, canceled or past its deadline
    attempt,  \* the attempts it has made
    applied,  \* how often the upstream has carried it out
    bodies,   \* HTTP: attempts whose response body it has to close or hand on
    result,   \* the outcome of its last attempt or of its wait
    epoch,    \* the generation of the breaker that let it through
    breaker

callVars == <<stage, kind, ctx, attempt, applied, bodies, result, epoch>>
outboundVars == <<protocol, callVars, breaker>>

-----------------------------------------------------------------------------
FailureThreshold == FailureThresholds[protocol]

\* A repeatable call has an idempotent HTTP method, a gRPC method that is listed
\* for retries, or an idempotency key in its context; a plain call has none of
\* these.  The path of a malformed HTTP call is not relative.
Kinds == {"repeatable", "plain"} \cup (IF protocol = "http" THEN {"malformed"} ELSE {})

\* retryableMethod, retryGRPCMethod
RetryAll(c) == MaxAttempts

AttemptsFor(c) == IF kind[c] = "repeatable" THEN MaxAttempts ELSE 1

\* What a retry loop goes on after: any error and a busy status over HTTP
\* (429, 502, 503, 504), Unavailable and ResourceExhausted over gRPC.
Retried(outcome) ==
    IF protocol = "http" THEN outcome # "answered" ELSE outcome = "busy"

\* The outcome of an attempt: an answer, a busy upstream, a transport error
\* (Unavailable over gRPC, as a busy upstream), or the end of the context.
Outcomes(c) ==
    {"answered", "busy"} \cup (IF protocol = "http" THEN {"error"} ELSE {})
                         \cup ({ctx[c]} \ {"live"})

HasBody(outcome) == protocol = "http" /\ outcome \in {"answered", "busy"}

CountEverything(c) == IF result[c] = "answered" THEN {"success"} ELSE {"failure"}

\* How the breaker takes a result.  Over HTTP a busy status is turned into an
\* error for it, and only a canceled context is excluded.  Over gRPC every code
\* but three is excluded, OK too, if the library asks about it; what the wait
\* between attempts returns has no code.
Verdicts(c) ==
    IF protocol = "http"
    THEN CASE result[c] = "answered" -> {"success"}
           [] result[c] \in {"canceled", "wait canceled"} -> {"excluded"}
           [] OTHER -> {"failure"}
    ELSE CASE result[c] = "answered" -> {"success", "excluded"}
           [] result[c] \in {"busy", "deadline"} -> {"failure"}
           [] OTHER -> {"excluded"}

-----------------------------------------------------------------------------
OutboundInit ==
    /\ protocol \in {"http", "grpc"}
    /\ stage = [c \in Calls |-> "idle"]
    /\ kind = [c \in Calls |-> "plain"]
    /\ ctx = [c \in Calls |-> "live"]
    /\ attempt = [c \in Calls |-> 0]
    /\ applied = [c \in Calls |-> 0]
    /\ bodies = [c \in Calls |-> {}]
    /\ result = [c \in Calls |-> "none"]
    /\ epoch = [c \in Calls |-> 0]
    /\ breaker = [state |-> "closed", failures |-> 0, probed |-> FALSE, gen |-> 0]

Begin(c) ==
    /\ stage[c] = "idle"
    /\ stage' = [stage EXCEPT ![c] = "gate"]
    /\ \E k \in Kinds : kind' = [kind EXCEPT ![c] = k]
    /\ UNCHANGED <<protocol, ctx, attempt, applied, bodies, result, epoch, breaker>>

\* The caller gives up, or the deadline it or timeoutInterceptor has set passes.
EndContext(c) ==
    /\ stage[c] \notin {"idle", "done"} /\ ctx[c] = "live"
    /\ \E why \in {"canceled", "deadline"} : ctx' = [ctx EXCEPT ![c] = why]
    /\ UNCHANGED <<protocol, stage, kind, attempt, applied, bodies, result, epoch, breaker>>

\* breaker.Execute: one call at a time when half open, none when open.
LetsThrough == breaker.state = "closed" \/ (breaker.state = "half" /\ ~breaker.probed)

Execute(c) ==
    /\ stage[c] = "gate" /\ LetsThrough
    /\ epoch' = [epoch EXCEPT ![c] = breaker.gen]
    /\ breaker' = [breaker EXCEPT !.probed = breaker.state = "half"]
    /\ IF kind[c] = "malformed"
       THEN /\ stage' = [stage EXCEPT ![c] = "settle"]
            /\ result' = [result EXCEPT ![c] = "malformed"]
            /\ UNCHANGED attempt
       ELSE /\ stage' = [stage EXCEPT ![c] = "attempt"]
            /\ attempt' = [attempt EXCEPT ![c] = 1]
            /\ UNCHANGED result
    /\ UNCHANGED <<protocol, kind, ctx, applied, bodies>>

Reject(c) ==
    /\ stage[c] = "gate" /\ ~LetsThrough
    /\ stage' = [stage EXCEPT ![c] = "done"]
    /\ result' = [result EXCEPT ![c] = "rejected"]
    /\ UNCHANGED <<protocol, kind, ctx, attempt, applied, bodies, epoch, breaker>>

\* One attempt, whatever of it gets lost on the way.  The response of an attempt
\* that is followed by another is drained and closed.
AttemptLeaking(c) ==
    /\ stage[c] = "attempt"
    /\ \E outcome \in Outcomes(c) :
         /\ result' = [result EXCEPT ![c] = outcome]
         /\ applied' \in {applied, [applied EXCEPT ![c] = @ + 1]}
         /\ bodies' = [bodies EXCEPT ![c] = @ \cup (IF HasBody(outcome) THEN {attempt[c]} ELSE {})]
         /\ stage' = [stage EXCEPT ![c] =
                IF Retried(outcome) /\ attempt[c] < AttemptsFor(c) THEN "wait" ELSE "settle"]
    /\ UNCHANGED <<protocol, kind, ctx, attempt, epoch, breaker>>

Attempt(c) ==
    /\ stage[c] = "attempt"
    /\ \E outcome \in Outcomes(c) :
         LET again == Retried(outcome) /\ attempt[c] < AttemptsFor(c)
         IN  /\ result' = [result EXCEPT ![c] = outcome]
             /\ applied' \in {applied, [applied EXCEPT ![c] = @ + 1]}
             /\ bodies' = [bodies EXCEPT ![c] =
                    IF HasBody(outcome) /\ ~again THEN @ \cup {attempt[c]} ELSE @]
             /\ stage' = [stage EXCEPT ![c] = IF again THEN "wait" ELSE "settle"]
    /\ UNCHANGED <<protocol, kind, ctx, attempt, epoch, breaker>>

\* waitBackoff, waitRetry: the timer or the end of the context, whichever the
\* select takes when both are ready.
Retry(c) ==
    /\ stage[c] = "wait"
    /\ stage' = [stage EXCEPT ![c] = "attempt"]
    /\ attempt' = [attempt EXCEPT ![c] = @ + 1]
    /\ UNCHANGED <<protocol, kind, ctx, applied, bodies, result, epoch, breaker>>

GiveUp(c) ==
    /\ stage[c] = "wait" /\ ctx[c] # "live"
    /\ stage' = [stage EXCEPT ![c] = "settle"]
    /\ result' = [result EXCEPT ![c] =
           IF ctx[c] = "canceled" THEN "wait canceled" ELSE "wait deadline"]
    /\ UNCHANGED <<protocol, kind, ctx, attempt, applied, bodies, epoch, breaker>>

\* The breaker after a verdict.
Moved(state) ==
    [state |-> state, failures |-> 0, probed |-> FALSE, gen |-> breaker.gen + 1]

Counted(verdict) ==
    CASE verdict = "excluded" ->
           {breaker, [breaker EXCEPT !.probed = FALSE]}
      [] verdict = "success" ->
           {IF breaker.state = "half" THEN Moved("closed") ELSE [breaker EXCEPT !.failures = 0]}
      [] verdict = "failure" ->
           {IF breaker.state = "half" \/ breaker.failures + 1 >= FailureThreshold
            THEN Moved("open") ELSE [breaker EXCEPT !.failures = @ + 1]}

\* The response the caller is given: that of the last attempt.  A busy one goes
\* through the breaker inside a statusError and is taken out of it again.
HandedAnswersOnly(c) == IF HasBody(result[c]) /\ result[c] = "answered" THEN {attempt[c]} ELSE {}

Handed(c) == IF HasBody(result[c]) THEN {attempt[c]} ELSE {}

\* The call returns to its caller, who from here on owns what it is given.
Settle(c) ==
    /\ stage[c] = "settle"
    /\ IF epoch[c] = breaker.gen
       THEN \E verdict \in Verdicts(c) : breaker' \in Counted(verdict)
       ELSE UNCHANGED breaker
    /\ stage' = [stage EXCEPT ![c] = "done"]
    /\ bodies' = [bodies EXCEPT ![c] = @ \ Handed(c)]
    /\ UNCHANGED <<protocol, kind, ctx, attempt, applied, result, epoch>>

\* breaker.open_timeout has passed.
OpenTimeout ==
    /\ breaker.state = "open"
    /\ breaker' = Moved("half")
    /\ UNCHANGED <<protocol, callVars>>

CallStep(c) == Execute(c) \/ Reject(c) \/ Attempt(c) \/ Retry(c) \/ GiveUp(c) \/ Settle(c)

OutboundNext == OpenTimeout \/ \E c \in Calls : Begin(c) \/ EndContext(c) \/ CallStep(c)

OutboundSpec == OutboundInit /\ [][OutboundNext]_outboundVars

-----------------------------------------------------------------------------
\* The upstream carries out a plain call at most once, whatever is lost or timed
\* out and whatever the breaker does (http_test.go:21, "POST is not retried by
\* default"), and a call that the breaker rejects not at all.
PlainAppliedOnce ==
    \A c \in Calls :
        /\ kind[c] # "repeatable" => applied[c] <= 1
        /\ result[c] = "rejected" => applied[c] = 0

\* No response body is left open that nobody owns: a call goes into another
\* attempt or a wait without one, when it ends it holds the one of its last
\* attempt and no other, and its caller is given that one, by way of the breaker
\* too (http.go:77-89, 115-126).
BodiesAccounted ==
    \A c \in Calls :
        /\ stage[c] \in {"attempt", "wait", "done"} => bodies[c] = {}
        /\ stage[c] = "settle" /\ HasBody(result[c]) => bodies[c] = {attempt[c]}

FailedResults == {"busy", "error", "deadline", "wait deadline", "malformed"}

\* The breaker leaves the closed state only when as many calls as its threshold
\* have failed that it let through since it last closed: a call counts once
\* however often it was retried, canceled calls do not count, and neither do
\* calls that end late, after the breaker has opened and closed again
\* (http.go:48-55, client.go:130-155).
OpensOnFailures ==
    [][breaker.state = "closed" /\ breaker'.state # "closed" =>
           Cardinality({c \in Calls : /\ stage'[c] = "done" /\ result'[c] \in FailedResults
                                      /\ epoch'[c] = breaker.gen}) >= FailureThreshold]_outboundVars
=============================================================================
