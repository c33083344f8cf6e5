--------------------------- MODULE CronLockProofs ---------------------------
(***************************************************************************)
(* Proofs of the safety properties of CronLock for any number of replicas  *)
(* and executions and any TTL.                                             *)
(***************************************************************************)
EXTENDS CronLock, TLAPS

\* What exclusion rests on: from the time its SET has reached Redis to the end
\* of its job, but for no longer than the TTL, an execution owns the key, and the
\* key has at least the rest of the TTL left, counted from the start of TryLock.
Covered ==
    \A r \in Replicas \ WithoutRedis :
        stage[r] \in {"reply", "job"} /\ age[r] < TTL =>
            Owns(r) /\ lock.left + age[r] >= TTL

CronInv == CronTypeOK /\ Covered

\* A value of the key is never the empty one.
LEMMA TokensNonempty == << >> \notin Token
BY DEF Token

\* The execution that a started replica is at has a value of its own.
LEMMA TokenTyped ==
    ASSUME CronTypeOK, NEW r \in Replicas, run[r] # 0
    PROVE  TokenOf(r) \in Token
BY CronAssumption DEF CronTypeOK, TokenOf, Token

\* Replicas that run own a value: their run has been counted.
Started == \A r \in Replicas : stage[r] # "idle" => run[r] # 0

\* Type correctness is inductive together with Started.
LEMMA TypeStep ==
    ASSUME CronTypeOK, Started, [CronNext]_cronVars
    PROVE  CronTypeOK' /\ Started'
<1> USE CronAssumption
<1>1. CASE Tick
  <2>1. lock' \in [owner : Token, left : 1..TTL] \cup {Free}
    <3>1. CASE lock.left <= 1
      BY <1>1, <3>1 DEF Tick
    <3>2. CASE ~(lock.left <= 1)
      <4>1. lock \in [owner : Token, left : 1..TTL]
        BY <3>2 DEF CronTypeOK, Free
      <4>2. lock' = [lock EXCEPT !.left = @ - 1]
        BY <1>1, <3>2 DEF Tick
      <4> QED BY <4>1, <4>2, <3>2
    <3> QED BY <3>1, <3>2
  <2> QED BY <1>1, <2>1 DEF Tick, CronTypeOK, Started
<1>2. ASSUME NEW r \in Replicas, Fire(r) PROVE CronTypeOK' /\ Started'
  BY <1>2 DEF Fire, Goto, CronTypeOK, Started
<1>3. ASSUME NEW r \in Replicas, SetKey(r) PROVE CronTypeOK' /\ Started'
  <2>1. TokenOf(r) \in Token
    BY <1>3, TokenTyped DEF SetKey, Started
  <2>2. lock' \in [owner : Token, left : 1..TTL]
    BY <1>3, <2>1 DEF SetKey
  <2> QED BY <1>3, <2>2 DEF SetKey, Goto, CronTypeOK, Started
<1>4. ASSUME NEW r \in Replicas, Taken(r) \/ Acquired(r) \/ Die(r) \/ JobEnds(r)
      PROVE  CronTypeOK' /\ Started'
  BY <1>4 DEF Taken, Acquired, Die, JobEnds, Goto, CronTypeOK, Started
<1>5. ASSUME NEW r \in Replicas, LockFails(r) \/ Unlock(r)
      PROVE  CronTypeOK' /\ Started'
  BY <1>5 DEF LockFails, Unlock, Goto, CronTypeOK, Started
<1>6. CASE UNCHANGED cronVars
  BY <1>6 DEF cronVars, CronTypeOK, Started
<1> QED BY <1>1, <1>2, <1>3, <1>4, <1>5, <1>6 DEF CronNext, JobStep

\* Two executions that are under way have different values.
LEMMA TokensDiffer ==
    ASSUME NEW r \in Replicas, NEW s \in Replicas, Owns(r), Owns(s)
    PROVE  r = s
BY DEF Owns, TokenOf

\* Covered is inductive.
LEMMA CoveredStep ==
    ASSUME CronTypeOK, Covered, [CronNext]_cronVars
    PROVE  Covered'
<1> USE CronAssumption
<1> SUFFICES ASSUME NEW q \in Replicas \ WithoutRedis,
                    stage'[q] \in {"reply", "job"}, age'[q] < TTL
             PROVE  Owns(q)' /\ lock'.left + age'[q] >= TTL
    BY DEF Covered
<1>0. age[q] \in Nat /\ age[q] <= MaxAge
  BY DEF CronTypeOK
<1>1. CASE Tick
  <2>1. /\ stage[q] \in {"reply", "job"} /\ age[q] < MaxAge
        /\ age'[q] = age[q] + 1
    BY <1>0, <1>1 DEF Tick, Overdue
  <2>2. /\ Owns(q) /\ lock.left + age[q] >= TTL
        /\ lock.left > 1 /\ lock.left \in Nat
    BY <1>0, <2>1 DEF Covered, CronTypeOK, Free
  <2>3. lock' = [lock EXCEPT !.left = @ - 1] /\ age'[q] = age[q] + 1 /\ run' = run
    BY <1>1, <2>1, <2>2 DEF Tick
  <2>4. lock \in [owner : Token, left : 1..TTL]
    BY <2>2 DEF CronTypeOK, Free
  <2>5. lock'.owner = lock.owner /\ lock'.left = lock.left - 1
    BY <2>3, <2>4
  <2> QED BY <1>0, <2>1, <2>2, <2>3, <2>5 DEF Owns, TokenOf
<1>2. ASSUME NEW r \in Replicas, Fire(r)
      PROVE  Owns(q)' /\ lock'.left + age'[q] >= TTL
  <2>1. r # q
    BY <1>2 DEF Fire, Goto, CronTypeOK
  <2> QED BY <1>2, <2>1 DEF Fire, Goto, CronTypeOK, Covered, Owns, TokenOf
<1>3. ASSUME NEW r \in Replicas, SetKey(r)
      PROVE  Owns(q)' /\ lock'.left + age'[q] >= TTL
  <2>1. CASE r = q
    BY <1>3, <2>1 DEF SetKey, Owns, TokenOf, CronTypeOK
  <2>2. CASE r # q
    <3>1. stage[q] \in {"reply", "job"} /\ age[q] < TTL
      BY <1>3, <2>2 DEF SetKey, Goto, CronTypeOK
    <3>2. lock.left + age[q] >= TTL /\ lock.left = 0
      BY <1>3, <3>1 DEF SetKey, Covered, Free
    <3> QED BY <1>0, <3>1, <3>2
  <2> QED BY <2>1, <2>2
<1>4. ASSUME NEW r \in Replicas, Taken(r) \/ Acquired(r) \/ Die(r) \/ JobEnds(r)
      PROVE  Owns(q)' /\ lock'.left + age'[q] >= TTL
  <2>1. stage[q] \in {"reply", "job"} /\ age[q] < TTL
    BY <1>4 DEF Taken, Acquired, Die, JobEnds, Goto, CronTypeOK
  <2> QED BY <1>4, <2>1 DEF Taken, Acquired, Die, JobEnds, Covered, Owns, TokenOf
<1>5. ASSUME NEW r \in Replicas, LockFails(r) \/ Unlock(r)
      PROVE  Owns(q)' /\ lock'.left + age'[q] >= TTL
  <2>1. r # q /\ stage[q] \in {"reply", "job"} /\ age[q] < TTL
    BY <1>5 DEF LockFails, Unlock, Goto, CronTypeOK
  <2>2. Owns(q) /\ lock.left + age[q] >= TTL
    BY <2>1 DEF Covered
  <2>3. ~Owns(r)
    BY <2>1, <2>2, TokensDiffer
  <2>4. lock' = lock
    BY <1>5, <2>3 DEF LockFails, Unlock
  <2> QED BY <1>5, <2>2, <2>4 DEF LockFails, Unlock, Owns, TokenOf
<1>6. CASE UNCHANGED cronVars
  BY <1>6 DEF cronVars, Covered, Owns, TokenOf
<1> QED BY <1>1, <1>2, <1>3, <1>4, <1>5, <1>6 DEF CronNext, JobStep

LEMMA CronInitially == CronInit => CronInv /\ Started
BY CronAssumption DEF CronInit, CronInv, CronTypeOK, Covered, Started

\* The inductive invariant holds throughout.
LEMMA CronInvariant == CronSpec => [](CronInv /\ Started)
<1>1. CronInv /\ Started /\ [CronNext]_cronVars => (CronInv /\ Started)'
  BY TypeStep, CoveredStep DEF CronInv
<1> QED BY CronInitially, <1>1, PTL DEF CronSpec

\* The lock and job state is well typed.
THEOREM CronTyped == CronSpec => []CronTypeOK
BY CronInvariant, PTL DEF CronInv

\* No two replicas with a locker run jobs that are younger than the TTL at once
\* (runSample, TryLock, Unlock).
THEOREM CronExclusive == CronSpec => []JobsExclusive
<1>1. CronInv => JobsExclusive
  <2> SUFFICES ASSUME CronInv,
                      NEW r \in Replicas \ WithoutRedis, NEW s \in Replicas \ WithoutRedis,
                      stage[r] = "job", age[r] < TTL, stage[s] = "job", age[s] < TTL
               PROVE  r = s
      BY DEF JobsExclusive
  <2>1. Owns(r) /\ Owns(s)
    BY DEF CronInv, Covered
  <2> QED BY <2>1, TokensDiffer
<1> QED BY <1>1, CronInvariant, PTL

\* Only its own execution or its expiry removes a key, for any durations: a late
\* Unlock leaves the lock of another replica alone.
THEOREM LateUnlockHarmless == CronSpec => OthersLockKept
<1> DEFINE Kept ==
      \A t \in Token :
          lock.owner = t /\ lock'.owner # t =>
              \/ lock.left = 1
              \/ \E r \in Replicas : t = TokenOf(r) /\ stage[r] # "idle" /\ stage'[r] = "idle"
<1>1. CronTypeOK /\ [CronNext]_cronVars => [Kept]_cronVars
  <2> SUFFICES ASSUME CronTypeOK, CronNext, NEW t \in Token,
                      lock.owner = t, lock'.owner # t
               PROVE  \/ lock.left = 1
                      \/ \E r \in Replicas :
                            t = TokenOf(r) /\ stage[r] # "idle" /\ stage'[r] = "idle"
      OBVIOUS
  <2>1. lock # Free
    BY TokensNonempty DEF Free
  <2>2. lock \in [owner : Token, left : 1..TTL]
    BY <2>1 DEF CronTypeOK
  <2>3. CASE Tick
    <3>1. lock.left <= 1
      BY <2>2, <2>3 DEF Tick
    <3> QED BY <2>2, <3>1, CronAssumption
  <2>4. ASSUME NEW r \in Replicas, SetKey(r) PROVE FALSE
    BY <2>1, <2>4 DEF SetKey
  <2>5. ASSUME NEW r \in Replicas, Fire(r) \/ Taken(r) \/ Acquired(r) \/ Die(r) \/ JobEnds(r)
        PROVE  FALSE
    BY <2>5 DEF Fire, Taken, Acquired, Die, JobEnds
  <2>6. ASSUME NEW r \in Replicas, LockFails(r) \/ Unlock(r)
        PROVE  t = TokenOf(r) /\ stage[r] # "idle" /\ stage'[r] = "idle"
    BY <2>6 DEF LockFails, Unlock, Goto, Owns, CronTypeOK
  <2> QED BY <2>3, <2>4, <2>5, <2>6 DEF CronNext, JobStep
<1> QED BY <1>1, CronTyped, PTL DEF CronSpec, OthersLockKept
=============================================================================
