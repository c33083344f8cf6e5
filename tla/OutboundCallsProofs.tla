------------------------ MODULE OutboundCallsProofs ------------------------
(***************************************************************************)
(* Proofs of the safety properties of OutboundCalls for any set of calls,  *)
(* any number of attempts that the configuration accepts and any threshold *)
(* of the breaker, over HTTP and over gRPC.                                *)
(***************************************************************************)
EXTENDS OutboundCalls, FiniteSetTheorems, TLAPS

Stages == {"idle", "gate", "attempt", "wait", "settle", "done"}

\* What the breaker may be told: the outcome of the last attempt or of the wait.
Settled ==
    {"answered", "busy", "error", "canceled", "deadline",
     "wait canceled", "wait deadline", "malformed"}

\* The state of every call, and of the breaker that they share.
OutboundTypeOK ==
    /\ protocol \in {"http", "grpc"}
    /\ stage \in [Calls -> Stages]
    /\ kind \in [Calls -> {"repeatable", "plain", "malformed"}]
    /\ ctx \in [Calls -> {"live", "canceled", "deadline"}]
    /\ attempt \in [Calls -> Nat]
    /\ applied \in [Calls -> Nat]
    /\ bodies \in [Calls -> SUBSET Nat]
    /\ result \in [Calls -> Settled \cup {"none", "rejected"}]
    /\ epoch \in [Calls -> Nat]
    /\ breaker \in [state : {"closed", "half", "open"}, failures : Nat,
                    probed : BOOLEAN, gen : Nat]

\* A call makes no more attempts than its kind allows, and the upstream carries
\* it out at most once for each attempt that has ended.
Attempts(c) ==
    /\ stage[c] \in {"idle", "gate"} => attempt[c] = 0 /\ applied[c] = 0
    /\ stage[c] = "attempt" => attempt[c] > 0 /\ applied[c] < attempt[c]
    /\ stage[c] = "wait" => attempt[c] < AttemptsFor(c)
    /\ applied[c] <= attempt[c] /\ attempt[c] <= AttemptsFor(c)

\* A call that waits for the breaker's answer has a result to tell it; a
\* rejected one never got to an attempt.
Results(c) ==
    /\ stage[c] = "settle" => result[c] \in Settled
    /\ result[c] = "rejected" => stage[c] = "done" /\ attempt[c] = 0

\* A call has a response to hand on only at its end, that of its last attempt.
Bodies(c) == bodies[c] = IF stage[c] = "settle" THEN Handed(c) ELSE {}

CallOK(c) == Attempts(c) /\ Results(c) /\ Bodies(c)

CallInv == OutboundTypeOK /\ \A c \in Calls : CallOK(c)

\* The failed calls of the breaker's present state.
Failed == {c \in Calls : /\ stage[c] = "done" /\ result[c] \in FailedResults
                         /\ epoch[c] = breaker.gen}

\* Each failure that the breaker has counted in it is a call of its own.
FailuresBacked == IsFiniteSet(Failed) /\ breaker.failures <= Cardinality(Failed)

\* The calls that the breaker let through in its present state.
InFlight == {c \in Calls : stage[c] \in {"attempt", "wait", "settle"} /\ epoch[c] = breaker.gen}

\* While the breaker is half open at most one call is under way that it let
\* through in that state, and while it is open none is.
OneProbe ==
    /\ breaker.state = "half" => \A c, d \in InFlight : c = d
    /\ breaker.state = "open" => InFlight = {}

ProbeInv ==
    /\ OneProbe
    /\ \A c \in Calls : epoch[c] <= breaker.gen
    /\ breaker.state = "half" /\ InFlight # {} => breaker.probed

-----------------------------------------------------------------------------
\* The calls that a settled verdict counts as a failure have a failed result.
LEMMA FailureVerdict ==
    ASSUME NEW c \in Calls, protocol \in {"http", "grpc"}, result[c] \in Settled,
           "failure" \in Verdicts(c)
    PROVE  result[c] \in FailedResults
BY DEF Verdicts, Settled, FailedResults

\* What the breaker becomes keeps its type, and a change of its state begins a
\* new generation.
LEMMA BreakerCounted ==
    ASSUME OutboundTypeOK, NEW verdict \in {"success", "failure", "excluded"},
           NEW b \in Counted(verdict)
    PROVE  /\ b \in [state : {"closed", "half", "open"}, failures : Nat,
                     probed : BOOLEAN, gen : Nat]
           /\ \/ b.gen = breaker.gen /\ b.state = breaker.state
              \/ b.gen = breaker.gen + 1 /\ b.failures = 0
<1> DEFINE B == [state : {"closed", "half", "open"}, failures : Nat, probed : BOOLEAN, gen : Nat]
<1>0. breaker \in B
  BY DEF OutboundTypeOK
<1>1. ASSUME NEW s \in {"closed", "open"}
      PROVE  Moved(s) \in B /\ Moved(s).gen = breaker.gen + 1 /\ Moved(s).failures = 0
  BY <1>0 DEF Moved
<1>2. CASE verdict = "excluded"
  BY <1>0, <1>2 DEF Counted
<1>3. CASE verdict = "success"
  BY <1>0, <1>1, <1>3 DEF Counted
<1>4. CASE verdict = "failure"
  BY <1>0, <1>1, <1>4 DEF Counted
<1> QED BY <1>2, <1>3, <1>4

LEMMA VerdictKinds ==
    ASSUME NEW c \in Calls
    PROVE  Verdicts(c) \subseteq {"success", "failure", "excluded"}
BY DEF Verdicts

\* A result that the breaker may be told is neither of the two others.
LEMMA SettledOnly == "none" \notin Settled /\ "rejected" \notin Settled
BY DEF Settled

\* The outcome of an attempt is a result that the breaker may be told.
LEMMA OutcomeSettled ==
    ASSUME OutboundTypeOK, NEW c \in Calls
    PROVE  Outcomes(c) \subseteq Settled
BY DEF Outcomes, OutboundTypeOK, Settled

\* A call's step: an action of its own, or of its caller.
Acts(c) == Begin(c) \/ EndContext(c) \/ CallStep(c)

\* The steps of a call leave the other calls alone.
LEMMA OthersAlone ==
    ASSUME OutboundTypeOK, NEW c \in Calls, Acts(c), NEW d \in Calls \ {c}
    PROVE  /\ stage'[d] = stage[d] /\ kind'[d] = kind[d] /\ ctx'[d] = ctx[d]
           /\ attempt'[d] = attempt[d] /\ applied'[d] = applied[d]
           /\ bodies'[d] = bodies[d] /\ result'[d] = result[d] /\ epoch'[d] = epoch[d]
<1> USE DEF OutboundTypeOK
<1>1. CASE Begin(c)
  BY <1>1 DEF Begin
<1>2. CASE EndContext(c)
  BY <1>2 DEF EndContext
<1>3. CASE Execute(c)
  BY <1>3 DEF Execute
<1>4. CASE Reject(c)
  BY <1>4 DEF Reject
<1>5. CASE Attempt(c)
  BY <1>5 DEF Attempt
<1>6. CASE Retry(c) \/ GiveUp(c) \/ Settle(c)
  BY <1>6 DEF Retry, GiveUp, Settle
<1> QED BY <1>1, <1>2, <1>3, <1>4, <1>5, <1>6 DEF Acts, CallStep

LEMMA ProtocolFixed ==
    ASSUME [OutboundNext]_outboundVars
    PROVE  protocol' = protocol
BY DEF OutboundNext, OpenTimeout, CallStep, Begin, EndContext, Execute, Reject, Attempt,
       Retry, GiveUp, Settle, outboundVars

\* Type correctness, and what holds of the call that moves.
LEMMA CallMoves ==
    ASSUME CallInv, NEW c \in Calls, Acts(c)
    PROVE  OutboundTypeOK' /\ CallOK(c)'
<1> USE OutboundAssumption DEF CallInv
<1>0. OutboundTypeOK /\ CallOK(c)
  OBVIOUS
<1>1. CASE Begin(c)
  <2>1. OutboundTypeOK'
    BY <1>0, <1>1 DEF Begin, Kinds, OutboundTypeOK, Stages
  <2>2. Attempts(c)'
    BY <1>0, <1>1 DEF Begin, OutboundTypeOK, CallOK, Attempts, AttemptsFor
  <2> QED BY <1>0, <1>1, <2>1, <2>2 DEF Begin, OutboundTypeOK, CallOK, Results, Bodies
<1>2. CASE EndContext(c)
  <2>1. OutboundTypeOK'
    BY <1>0, <1>2 DEF EndContext, OutboundTypeOK
  <2> QED BY <1>0, <1>2, <2>1 DEF EndContext, CallOK, Attempts, Results, Bodies, AttemptsFor, Handed, HasBody
<1>3. CASE Execute(c)
  <2>1. (breaker.state = "half") \in BOOLEAN
    OBVIOUS
  <2>2. breaker' \in [state : {"closed", "half", "open"}, failures : Nat, probed : BOOLEAN, gen : Nat]
    BY <1>3, <2>1 DEF Execute, OutboundTypeOK
  <2>3. /\ UNCHANGED <<protocol, kind, ctx, applied, bodies>>
        /\ epoch' = [epoch EXCEPT ![c] = breaker.gen] /\ stage[c] = "gate"
    BY <1>3 DEF Execute
  <2>4. CASE kind[c] = "malformed"
    <3>1. /\ stage' = [stage EXCEPT ![c] = "settle"] /\ UNCHANGED attempt
          /\ result' = [result EXCEPT ![c] = "malformed"]
      BY <1>3, <2>4 DEF Execute
    <3>2. OutboundTypeOK'
      BY <2>2, <2>3, <3>1 DEF OutboundTypeOK, Stages, Settled
    <3>3. Attempts(c)'
      BY <1>0, <2>3, <3>1 DEF OutboundTypeOK, CallOK, Attempts, AttemptsFor
    <3>4. stage'[c] = "settle" /\ result'[c] = "malformed" /\ bodies'[c] = {}
      BY <1>0, <2>3, <3>1 DEF OutboundTypeOK, CallOK, Bodies
    <3> QED BY <3>2, <3>3, <3>4 DEF CallOK, Results, Bodies, Handed, HasBody, Settled
  <2>5. CASE kind[c] # "malformed"
    <3>1. /\ stage' = [stage EXCEPT ![c] = "attempt"] /\ UNCHANGED result
          /\ attempt' = [attempt EXCEPT ![c] = 1]
      BY <1>3, <2>5 DEF Execute
    <3>2. OutboundTypeOK'
      BY <2>2, <2>3, <3>1 DEF OutboundTypeOK, Stages
    <3>3. Attempts(c)'
      BY <1>0, <2>3, <3>1 DEF OutboundTypeOK, CallOK, Attempts, AttemptsFor
    <3> QED BY <1>0, <2>3, <3>1, <3>2, <3>3 DEF OutboundTypeOK, CallOK, Results, Bodies
  <2> QED BY <2>4, <2>5
<1>4. CASE Reject(c)
  <2>1. OutboundTypeOK'
    BY <1>0, <1>4 DEF Reject, OutboundTypeOK, Stages
  <2>2. Attempts(c)'
    BY <1>0, <1>4 DEF Reject, OutboundTypeOK, CallOK, Attempts, AttemptsFor
  <2> QED BY <1>0, <1>4, <2>1, <2>2 DEF Reject, OutboundTypeOK, CallOK, Attempts, Results, Bodies, HasBody
<1>5. CASE Attempt(c)
  <2> DEFINE again(o) == Retried(o) /\ attempt[c] < AttemptsFor(c)
  <2>1. PICK o \in Outcomes(c) :
          /\ result' = [result EXCEPT ![c] = o]
          /\ applied' \in {applied, [applied EXCEPT ![c] = @ + 1]}
          /\ bodies' = [bodies EXCEPT ![c] =
                 IF HasBody(o) /\ ~again(o) THEN @ \cup {attempt[c]} ELSE @]
          /\ stage' = [stage EXCEPT ![c] = IF again(o) THEN "wait" ELSE "settle"]
    BY <1>5 DEF Attempt
  <2>2. o \in Settled
    BY <1>0, OutcomeSettled
  <2>3. UNCHANGED <<protocol, kind, ctx, attempt, epoch, breaker>> /\ stage[c] = "attempt"
    BY <1>5 DEF Attempt
  <2>4. again(o) => attempt[c] < AttemptsFor(c)
    OBVIOUS
  <2> HIDE DEF again
  <2>5. OutboundTypeOK'
    BY <1>0, <2>1, <2>2, <2>3 DEF OutboundTypeOK, Stages
  <2>6. Attempts(c)'
    BY <1>0, <2>1, <2>3, <2>4 DEF OutboundTypeOK, CallOK, Attempts, AttemptsFor
  <2>7. Results(c)'
    BY <1>0, <2>1, <2>2, <2>3, SettledOnly DEF OutboundTypeOK, CallOK, Results
  <2>8. bodies[c] = {}
    BY <1>0, <2>3 DEF CallOK, Bodies
  <2>9. HasBody(o)' <=> HasBody(o)
    BY <2>3 DEF HasBody
  <2>10. Bodies(c)'
    <3>1. result'[c] = o /\ attempt'[c] = attempt[c]
      BY <2>1, <2>3 DEF OutboundTypeOK
    <3>2. CASE again(o)
      BY <2>1, <2>8, <3>1, <3>2 DEF OutboundTypeOK, Bodies
    <3>3. CASE ~again(o)
      <4>1. stage'[c] = "settle" /\ bodies'[c] = IF HasBody(o) THEN {attempt[c]} ELSE {}
        BY <2>1, <2>8, <3>3 DEF OutboundTypeOK
      <4> QED BY <2>9, <3>1, <4>1, <2>3 DEF Bodies, Handed, HasBody
    <3> QED BY <3>2, <3>3
  <2> QED BY <2>5, <2>6, <2>7, <2>10 DEF CallOK
<1>6. CASE Retry(c)
  <2>1. OutboundTypeOK'
    BY <1>0, <1>6 DEF Retry, OutboundTypeOK, Stages
  <2>2. Attempts(c)'
    BY <1>0, <1>6 DEF Retry, OutboundTypeOK, CallOK, Attempts, AttemptsFor
  <2> QED BY <1>0, <1>6, <2>1, <2>2 DEF Retry, OutboundTypeOK, CallOK, Results, Bodies
<1>7. CASE GiveUp(c)
  <2>1. OutboundTypeOK'
    BY <1>0, <1>7 DEF GiveUp, OutboundTypeOK, Stages, Settled
  <2>2. Attempts(c)'
    BY <1>0, <1>7 DEF GiveUp, OutboundTypeOK, CallOK, Attempts, AttemptsFor
  <2>3. stage'[c] = "settle" /\ result'[c] \in {"wait canceled", "wait deadline"} /\ bodies'[c] = {}
    BY <1>0, <1>7 DEF GiveUp, OutboundTypeOK, CallOK, Bodies
  <2> QED BY <2>1, <2>2, <2>3 DEF CallOK, Results, Bodies, Handed, HasBody, Settled
<1>8. CASE Settle(c)
  <2>1. breaker' \in [state : {"closed", "half", "open"}, failures : Nat, probed : BOOLEAN, gen : Nat]
    BY <1>0, <1>8, BreakerCounted, VerdictKinds DEF Settle, OutboundTypeOK
  <2>2. OutboundTypeOK'
    BY <1>0, <1>8, <2>1 DEF Settle, OutboundTypeOK, Stages
  <2>3. Attempts(c)'
    BY <1>0, <1>8 DEF Settle, OutboundTypeOK, CallOK, Attempts, AttemptsFor
  <2> QED BY <1>0, <1>8, <2>2, <2>3, SettledOnly DEF Settle, OutboundTypeOK, CallOK, Results, Bodies, HasBody
<1> QED BY <1>1, <1>2, <1>3, <1>4, <1>5, <1>6, <1>7, <1>8 DEF Acts, CallStep

\* What holds of a call depends on nothing but its own state.
LEMMA CallKept ==
    ASSUME NEW d \in Calls, CallOK(d), protocol' = protocol,
           stage'[d] = stage[d], kind'[d] = kind[d], attempt'[d] = attempt[d],
           applied'[d] = applied[d], bodies'[d] = bodies[d], result'[d] = result[d]
    PROVE  CallOK(d)'
BY DEF CallOK, Attempts, Results, Bodies, AttemptsFor, Handed, HasBody

LEMMA CallInvStep == CallInv /\ [OutboundNext]_outboundVars => CallInv'
<1> SUFFICES ASSUME CallInv, [OutboundNext]_outboundVars PROVE CallInv'
  OBVIOUS
<1>1. ASSUME NEW c \in Calls, Acts(c) PROVE CallInv'
  <2>1. \A d \in Calls \ {c} : CallOK(d)'
    BY <1>1, OthersAlone, CallKept, ProtocolFixed DEF CallInv
  <2> QED BY <1>1, <2>1, CallMoves DEF CallInv
<1>2. CASE OpenTimeout \/ UNCHANGED outboundVars
  <2>1. OutboundTypeOK'
    <3>1. breaker' \in [state : {"closed", "half", "open"}, failures : Nat, probed : BOOLEAN, gen : Nat]
      <4>1. CASE OpenTimeout
        BY <4>1 DEF CallInv, OpenTimeout, Moved, OutboundTypeOK
      <4>2. CASE UNCHANGED outboundVars
        BY <4>2 DEF CallInv, outboundVars, OutboundTypeOK
      <4> QED BY <1>2, <4>1, <4>2
    <3> QED BY <1>2, <3>1 DEF CallInv, OpenTimeout, outboundVars, callVars, OutboundTypeOK
  <2>2. \A d \in Calls : CallOK(d)'
    BY <1>2, CallKept DEF CallInv, OpenTimeout, outboundVars, callVars
  <2> QED BY <2>1, <2>2 DEF CallInv
<1> QED BY <1>1, <1>2 DEF OutboundNext, Acts

-----------------------------------------------------------------------------
\* A call that neither goes through the gate nor settles.
Midway(c) == Begin(c) \/ EndContext(c) \/ Reject(c) \/ Attempt(c) \/ Retry(c) \/ GiveUp(c)

\* Its step is unknown to the breaker, and it does not return with a failure.
LEMMA MidwayStep ==
    ASSUME OutboundTypeOK, NEW c \in Calls, Midway(c)
    PROVE  /\ UNCHANGED <<breaker, epoch>> /\ Acts(c) /\ stage[c] # "done"
           /\ stage'[c] = "done" => result'[c] = "rejected"
           /\ stage'[c] \in {"attempt", "wait", "settle"} <=> stage[c] \in {"attempt", "wait", "settle"}
<1> USE DEF OutboundTypeOK, Acts, CallStep
<1>1. CASE Begin(c)
  BY <1>1 DEF Begin
<1>2. CASE EndContext(c)
  BY <1>2 DEF EndContext
<1>3. CASE Reject(c)
  BY <1>3 DEF Reject
<1>4. CASE Attempt(c)
  <2>1. stage[c] = "attempt" /\ stage'[c] \in {"wait", "settle"}
    BY <1>4 DEF Attempt
  <2>2. UNCHANGED <<breaker, epoch>>
    BY <1>4 DEF Attempt
  <2> QED BY <1>4, <2>1, <2>2
<1>5. CASE Retry(c)
  BY <1>5 DEF Retry
<1>6. CASE GiveUp(c)
  BY <1>6 DEF GiveUp
<1> QED BY <1>1, <1>2, <1>3, <1>4, <1>5, <1>6 DEF Midway

\* A step that leaves the breaker's count alone, and adds no failure.
LEMMA FailuresKept ==
    ASSUME FailuresBacked, Failed' = Failed, breaker'.failures = breaker.failures
    PROVE  FailuresBacked'
BY DEF FailuresBacked

\* In a new generation nothing has failed yet.
LEMMA FailuresAnew ==
    ASSUME OutboundTypeOK, ProbeInv, epoch' = epoch,
           breaker'.gen = breaker.gen + 1, breaker'.failures = 0
    PROVE  FailuresBacked'
<1>1. Failed' = {}
  BY DEF Failed, ProbeInv, OutboundTypeOK
<1> QED BY <1>1, FS_EmptySet DEF FailuresBacked

\* The step of a call that does not return with a failure makes no call a failed one.
LEMMA FailedBut ==
    ASSUME OutboundTypeOK, NEW c \in Calls, Acts(c), stage[c] # "done",
           stage'[c] = "done" => result'[c] = "rejected", breaker'.gen = breaker.gen
    PROVE  Failed' = Failed
<1>1. \A d \in Calls \ {c} :
         stage'[d] = stage[d] /\ result'[d] = result[d] /\ epoch'[d] = epoch[d]
  BY OthersAlone
<1> QED BY <1>1 DEF Failed, FailedResults

\* What the breaker counts when a call of its generation returns.
LEMMA SettledFailures ==
    ASSUME CallInv, FailuresBacked, NEW c \in Calls, Settle(c), epoch[c] = breaker.gen
    PROVE  LET now == {d \in Calls : /\ stage'[d] = "done" /\ result'[d] \in FailedResults
                                     /\ epoch'[d] = breaker.gen}
           IN  /\ IsFiniteSet(now) /\ Cardinality(now) \in Nat
               /\ breaker.failures <= Cardinality(now)
               /\ "failure" \in Verdicts(c) => breaker.failures + 1 <= Cardinality(now)
<1> DEFINE now == {d \in Calls : /\ stage'[d] = "done" /\ result'[d] \in FailedResults
                                 /\ epoch'[d] = breaker.gen}
           n == Cardinality(Failed)
<1> USE DEF CallInv
<1>1. c \notin Failed /\ result[c] \in Settled
  BY DEF Settle, Failed, CallOK, Results
<1>2. now = IF result[c] \in FailedResults THEN Failed \cup {c} ELSE Failed
  <2>1. \A d \in Calls : d \in now <=>
            d \in Failed \/ (d = c /\ result[c] \in FailedResults)
    BY DEF Settle, Failed, OutboundTypeOK
  <2> QED BY <2>1 DEF Failed
<1>3. n \in Nat /\ IsFiniteSet(Failed) /\ breaker.failures <= n /\ breaker.failures \in Nat
  BY FS_CardinalityType DEF FailuresBacked, OutboundTypeOK
<1>4. IsFiniteSet(now) /\ Cardinality(now) =
          IF result[c] \in FailedResults THEN n + 1 ELSE n
  <2>1. IsFiniteSet(Failed \cup {c}) /\ Cardinality(Failed \cup {c}) = n + 1
    BY <1>1, <1>3, FS_AddElement
  <2> HIDE DEF now
  <2> QED BY <1>2, <1>3, <2>1
<1>5. "failure" \in Verdicts(c) => result[c] \in FailedResults
  BY <1>1, FailureVerdict DEF OutboundTypeOK
<1> HIDE DEF now, n
<1>6. /\ IsFiniteSet(now) /\ Cardinality(now) \in Nat
      /\ breaker.failures <= Cardinality(now)
      /\ "failure" \in Verdicts(c) => breaker.failures + 1 <= Cardinality(now)
  BY <1>3, <1>4, <1>5
<1> QED BY <1>6 DEF now

LEMMA FailuresStep ==
    ASSUME CallInv, ProbeInv, FailuresBacked, [OutboundNext]_outboundVars
    PROVE  FailuresBacked'
<1> USE DEF CallInv
<1>1. ASSUME NEW c \in Calls, Midway(c) PROVE FailuresBacked'
  <2>1. UNCHANGED breaker /\ Failed' = Failed
    BY <1>1, MidwayStep, FailedBut
  <2> QED BY <2>1, FailuresKept
<1>2. ASSUME NEW c \in Calls, Execute(c) PROVE FailuresBacked'
  <2>1. breaker'.gen = breaker.gen /\ breaker'.failures = breaker.failures
    BY <1>2 DEF Execute, OutboundTypeOK
  <2>2. stage[c] # "done" /\ stage'[c] # "done"
    BY <1>2 DEF Execute, OutboundTypeOK
  <2>3. Failed' = Failed
    BY <1>2, <2>1, <2>2, FailedBut DEF Acts, CallStep
  <2> QED BY <2>1, <2>3, FailuresKept
<1>3. ASSUME NEW c \in Calls, Settle(c) PROVE FailuresBacked'
  <2>1. CASE epoch[c] # breaker.gen
    <3>1. UNCHANGED breaker
      BY <1>3, <2>1 DEF Settle
    <3>2. Failed' = Failed
      BY <1>3, <2>1, <3>1 DEF Settle, Failed, OutboundTypeOK
    <3> QED BY <3>1, <3>2, FailuresKept
  <2>2. CASE epoch[c] = breaker.gen
    <3>1. PICK verdict \in Verdicts(c) : breaker' \in Counted(verdict)
      BY <1>3, <2>2 DEF Settle
    <3>2. verdict \in {"success", "failure", "excluded"}
      BY VerdictKinds
    <3>3. CASE breaker'.gen = breaker.gen
      <4>1. \/ breaker'.failures \in {0, breaker.failures}
            \/ verdict = "failure" /\ breaker'.failures = breaker.failures + 1
        BY <3>1, <3>2, <3>3 DEF Counted, Moved, OutboundTypeOK
      <4> DEFINE now == {d \in Calls : /\ stage'[d] = "done" /\ result'[d] \in FailedResults
                                       /\ epoch'[d] = breaker.gen}
      <4>2. /\ IsFiniteSet(now) /\ Cardinality(now) \in Nat
            /\ breaker.failures <= Cardinality(now)
            /\ "failure" \in Verdicts(c) => breaker.failures + 1 <= Cardinality(now)
        BY <1>3, <2>2, SettledFailures
      <4>3. Failed' = now
        BY <3>3 DEF Failed
      <4> HIDE DEF now
      <4> QED BY <3>1, <4>1, <4>2, <4>3 DEF FailuresBacked, OutboundTypeOK
    <3>4. CASE breaker'.gen # breaker.gen
      <4>1. breaker'.gen = breaker.gen + 1 /\ breaker'.failures = 0
        BY <3>1, <3>2, <3>4, BreakerCounted
      <4> QED BY <1>3, <4>1, FailuresAnew DEF Settle
    <3> QED BY <3>3, <3>4
  <2> QED BY <2>1, <2>2
<1>4. CASE OpenTimeout
  <2>1. breaker'.gen = breaker.gen + 1 /\ breaker'.failures = 0 /\ epoch' = epoch
    BY <1>4 DEF OpenTimeout, Moved, callVars
  <2> QED BY <2>1, FailuresAnew
<1>5. CASE UNCHANGED outboundVars
  BY <1>5, FailuresKept DEF outboundVars, callVars, Failed
<1> QED BY <1>1, <1>2, <1>3, <1>4, <1>5 DEF OutboundNext, CallStep, Midway

\* The step on which the breaker opens.
LEMMA OpeningStep ==
    ASSUME CallInv, FailuresBacked, [OutboundNext]_outboundVars,
           breaker.state = "closed", breaker'.state # "closed"
    PROVE  Cardinality({c \in Calls : /\ stage'[c] = "done" /\ result'[c] \in FailedResults
                                      /\ epoch'[c] = breaker.gen}) >= FailureThreshold
<1> USE DEF CallInv
<1>0. FailureThreshold \in Nat
  BY OutboundAssumption DEF FailureThreshold, OutboundTypeOK
<1>1. ASSUME NEW c \in Calls, Midway(c) PROVE FALSE
  BY <1>1, MidwayStep
<1>2. ASSUME NEW c \in Calls, Execute(c) PROVE FALSE
  BY <1>2 DEF Execute, OutboundTypeOK
<1>3. CASE OpenTimeout \/ UNCHANGED outboundVars
  BY <1>3 DEF OpenTimeout, outboundVars
<1>4. ASSUME NEW c \in Calls, Settle(c)
      PROVE  Cardinality({d \in Calls : /\ stage'[d] = "done" /\ result'[d] \in FailedResults
                                        /\ epoch'[d] = breaker.gen}) >= FailureThreshold
  <2>1. epoch[c] = breaker.gen
    BY <1>4 DEF Settle
  <2>2. PICK verdict \in Verdicts(c) : breaker' \in Counted(verdict)
    BY <1>4, <2>1 DEF Settle
  <2>3. verdict \in {"success", "failure", "excluded"}
    BY VerdictKinds
  <2>4. verdict = "failure" /\ breaker.failures + 1 >= FailureThreshold
    BY <2>2, <2>3 DEF Counted, OutboundTypeOK
  <2> DEFINE now == {d \in Calls : /\ stage'[d] = "done" /\ result'[d] \in FailedResults
                                   /\ epoch'[d] = breaker.gen}
  <2>5. Cardinality(now) \in Nat /\ breaker.failures + 1 <= Cardinality(now)
    BY <1>4, <2>1, <2>2, <2>4, SettledFailures
  <2> HIDE DEF now
  <2>6. breaker.failures \in Nat
    BY DEF OutboundTypeOK
  <2>7. Cardinality(now) >= FailureThreshold
    BY <1>0, <2>4, <2>5, <2>6
  <2> QED BY <2>7 DEF now
<1> QED BY <1>1, <1>2, <1>3, <1>4 DEF OutboundNext, CallStep, Midway

-----------------------------------------------------------------------------
LEMMA ProbeStep ==
    ASSUME CallInv, CallInv', ProbeInv, [OutboundNext]_outboundVars
    PROVE  ProbeInv'
<1> USE DEF CallInv
<1>1. ASSUME NEW c \in Calls, Midway(c) PROVE ProbeInv'
  <2>1. UNCHANGED <<breaker, epoch>> /\ Acts(c)
    BY <1>1, MidwayStep
  <2>2. stage'[c] \in {"attempt", "wait", "settle"} <=> stage[c] \in {"attempt", "wait", "settle"}
    BY <1>1, MidwayStep
  <2>3. \A d \in Calls \ {c} : stage'[d] = stage[d]
    BY <2>1, OthersAlone
  <2>4. InFlight' = InFlight
    BY <2>1, <2>2, <2>3 DEF InFlight
  <2> QED BY <2>1, <2>4 DEF ProbeInv, OneProbe
<1>2. ASSUME NEW c \in Calls, Execute(c) PROVE ProbeInv'
  <2>1. /\ breaker'.state = breaker.state /\ breaker'.gen = breaker.gen
        /\ breaker'.probed <=> breaker.state = "half"
    BY <1>2 DEF Execute, OutboundTypeOK
  <2>2. InFlight' = InFlight \cup {c}
    <3>1. \A d \in Calls : (d \in InFlight)' <=> d \in InFlight \/ d = c
      BY <1>2, <2>1 DEF Execute, OutboundTypeOK, InFlight
    <3> QED BY <3>1 DEF InFlight
  <2>3. \A d \in Calls : epoch'[d] <= breaker'.gen
    BY <1>2, <2>1 DEF Execute, OutboundTypeOK, ProbeInv
  <2>4. breaker.state = "closed" \/ (breaker.state = "half" /\ InFlight = {})
    BY <1>2 DEF Execute, LetsThrough, ProbeInv
  <2> QED BY <2>1, <2>2, <2>3, <2>4 DEF ProbeInv, OneProbe
<1>3. ASSUME NEW c \in Calls, Settle(c) PROVE ProbeInv'
  <2>1. \A d \in Calls : epoch'[d] = epoch[d] /\
            (stage'[d] \in {"attempt", "wait", "settle"} <=>
                stage[d] \in {"attempt", "wait", "settle"} /\ d # c)
    BY <1>3 DEF Settle, OutboundTypeOK
  <2>2. CASE breaker'.gen = breaker.gen /\ breaker'.state = breaker.state
    <3>1. InFlight' = InFlight \ {c}
      <4>1. \A d \in Calls : (d \in InFlight)' <=> d \in InFlight /\ d # c
        BY <2>1, <2>2 DEF InFlight
      <4> QED BY <4>1 DEF InFlight
    <3>2. breaker.state = "half" => InFlight' = {} \/ breaker' = breaker
      BY <1>3, <3>1 DEF Settle, InFlight, ProbeInv, OneProbe
    <3> QED BY <2>1, <2>2, <3>1, <3>2 DEF ProbeInv, OneProbe
  <2>3. CASE breaker'.gen = breaker.gen + 1
    <3>1. InFlight' = {}
      BY <2>1, <2>3 DEF InFlight, ProbeInv, OutboundTypeOK
    <3> QED BY <2>1, <2>3, <3>1 DEF ProbeInv, OneProbe, OutboundTypeOK
  <2> QED BY <1>3, <2>2, <2>3, BreakerCounted, VerdictKinds DEF Settle
<1>4. CASE OpenTimeout
  <2>1. breaker'.gen = breaker.gen + 1 /\ UNCHANGED <<stage, epoch>>
    BY <1>4 DEF OpenTimeout, Moved, callVars
  <2>2. InFlight' = {}
    BY <2>1 DEF InFlight, ProbeInv, OutboundTypeOK
  <2> QED BY <2>1, <2>2 DEF ProbeInv, OneProbe, OutboundTypeOK
<1>5. CASE UNCHANGED outboundVars
  BY <1>5 DEF outboundVars, callVars, ProbeInv, OneProbe, InFlight
<1> QED BY <1>1, <1>2, <1>3, <1>4, <1>5 DEF OutboundNext, CallStep, Midway

-----------------------------------------------------------------------------
OutboundInv == CallInv /\ FailuresBacked /\ ProbeInv

LEMMA OutboundStart == OutboundInit => OutboundInv
<1> SUFFICES ASSUME OutboundInit PROVE OutboundInv
  OBVIOUS
<1>1. CallInv
  BY OutboundAssumption DEF OutboundInit, CallInv, OutboundTypeOK, CallOK, Attempts, Results,
      Bodies, AttemptsFor, Stages, Settled
<1>2. Failed = {} /\ InFlight = {}
  BY DEF OutboundInit, Failed, InFlight
<1>3. FailuresBacked
  BY <1>2, FS_EmptySet DEF OutboundInit, FailuresBacked
<1>4. ProbeInv
  BY <1>2 DEF OutboundInit, ProbeInv, OneProbe
<1> QED BY <1>1, <1>3, <1>4 DEF OutboundInv

LEMMA OutboundStep == OutboundInv /\ [OutboundNext]_outboundVars => OutboundInv'
BY CallInvStep, FailuresStep, ProbeStep DEF OutboundInv

\* The state of the calls and of the breaker is well typed.
THEOREM OutboundTyped == OutboundSpec => []OutboundTypeOK
<1>1. OutboundInv => OutboundTypeOK
  BY DEF OutboundInv, CallInv
<1> QED BY <1>1, OutboundStart, OutboundStep, PTL DEF OutboundSpec

\* For any calls, attempts and threshold, the upstream carries out a plain call
\* at most once and a rejected one never (http.go and client.go: the retry loops
\* and the breaker around them).
THEOREM PlainCallsApplyOnce == OutboundSpec => []PlainAppliedOnce
<1>1. OutboundInv => PlainAppliedOnce
  BY DEF OutboundInv, CallInv, OutboundTypeOK, CallOK, Attempts, Results, AttemptsFor, PlainAppliedOnce
<1> QED BY <1>1, OutboundStart, OutboundStep, PTL DEF OutboundSpec

\* Every response body that a call opens is closed before it returns, except the
\* one it hands to its caller (http.go: the drain between attempts).
THEOREM ResponseBodiesAccounted == OutboundSpec => []BodiesAccounted
<1>1. OutboundInv => BodiesAccounted
  BY DEF OutboundInv, CallInv, CallOK, Bodies, Handed, BodiesAccounted
<1> QED BY <1>1, OutboundStart, OutboundStep, PTL DEF OutboundSpec

\* The breaker leaves its closed state only when as many calls as the threshold
\* have failed since it closed, for any number of concurrent calls that settle in
\* any order and any threshold.
THEOREM BreakerOpensOnFailures == OutboundSpec => OpensOnFailures
<1> DEFINE Opens == breaker.state = "closed" /\ breaker'.state # "closed" =>
        Cardinality({c \in Calls : /\ stage'[c] = "done" /\ result'[c] \in FailedResults
                                   /\ epoch'[c] = breaker.gen}) >= FailureThreshold
<1>1. OutboundInv /\ [OutboundNext]_outboundVars => [Opens]_outboundVars
  BY OpeningStep DEF OutboundInv
<1>2. OpensOnFailures <=> [][Opens]_outboundVars
  BY PTL DEF OpensOnFailures
<1> QED BY <1>1, <1>2, OutboundStart, OutboundStep, PTL DEF OutboundSpec

\* A half-open breaker tries the upstream with one call at a time, although calls
\* of earlier generations may still be under way and settle late.
THEOREM HalfOpenProbesOnce == OutboundSpec => []OneProbe
<1>1. OutboundInv => OneProbe
  BY DEF OutboundInv, ProbeInv
<1> QED BY <1>1, OutboundStart, OutboundStep, PTL DEF OutboundSpec
=============================================================================
