------------------------------ MODULE CronLock ------------------------------
(***************************************************************************)
(* The scheduled job of internal/scheduler/scheduler.go on every replica   *)
(* and the Redis lock of internal/cache/redis.go that lets one of them run *)
(* it.  TryLock sets the key with a random value and a TTL, Unlock deletes *)
(* it if it still has that value (both by the redsync library, with one    *)
(* Redis).  Time advances in ticks while calls to Redis are under way and  *)
(* while the job runs.                                                     *)
(***************************************************************************)
EXTENDS Naturals

CONSTANTS
    Replicas,
    WithoutRedis, \* replicas with redis.enabled = false, which have no locker
    TTL,          \* the expiry that runSample asks for, in ticks
    MaxAge,       \* the longest time from TryLock to the end of the job
    MaxRuns       \* bound on the executions of runSample on a replica

ASSUME CronAssumption ==
    /\ WithoutRedis \subseteq Replicas
    /\ TTL \in Nat \ {0} /\ MaxAge \in Nat /\ MaxRuns \in Nat

\* The value of the key: which execution of which replica has set it.
Token == Replicas \X (1..MaxRuns)
Free == [owner |-> <<>>, left |-> 0]

VARIABLES
    lock,   \* the key lock:cron:sample
    stage,  \* where the job of each replica is
    age,    \* the time since its TryLock began
    run     \* how many times it was started, which names its value

cronVars == <<lock, stage, age, run>>

TokenOf(r) == <<r, run[r]>>
Owns(r) == lock.owner = TokenOf(r)

Goto(r, s) == stage' = [stage EXCEPT ![r] = s]

-----------------------------------------------------------------------------
CronInit ==
    /\ lock = Free
    /\ stage = [r \in Replicas |-> "idle"]
    /\ age = [r \in Replicas |-> 0]
    /\ run = [r \in Replicas |-> 0]

\* The schedule comes round.  A replica whose last job is still running skips
\* it, and one without a locker runs it at once.
Fire(r) ==
    /\ stage[r] = "idle" /\ run[r] < MaxRuns
    /\ run' = [run EXCEPT ![r] = @ + 1]
    /\ age' = [age EXCEPT ![r] = 0]
    /\ Goto(r, IF r \in WithoutRedis THEN "job" ELSE "lock")
    /\ UNCHANGED lock

\* SET NX with the TTL reaches Redis.
SetUnconditionally(r) ==
    /\ stage[r] = "lock"
    /\ lock' = [owner |-> TokenOf(r), left |-> TTL]
    /\ Goto(r, "reply")
    /\ UNCHANGED <<age, run>>

SetKey(r) ==
    /\ stage[r] = "lock" /\ lock = Free
    /\ lock' = [owner |-> TokenOf(r), left |-> TTL]
    /\ Goto(r, "reply")
    /\ UNCHANGED <<age, run>>

\* Contention: the job is skipped.
Taken(r) ==
    /\ stage[r] = "lock" /\ lock # Free
    /\ Goto(r, "idle")
    /\ UNCHANGED <<lock, age, run>>

\* The answer arrives; it counts only before the key has expired.
Acquired(r) ==
    /\ stage[r] = "reply" /\ age[r] < TTL
    /\ Goto(r, "job")
    /\ UNCHANGED <<lock, age, run>>

\* The request or its answer is lost, or it came too late.  The library then
\* deletes what it may have set, which can fail as well.
LockFails(r) ==
    /\ stage[r] \in {"lock", "reply"}
    /\ lock' \in {lock} \cup (IF Owns(r) THEN {Free} ELSE {})
    /\ Goto(r, "idle")
    /\ UNCHANGED <<age, run>>

\* The body of the job returns; the deferred function unlocks.
JobEnds(r) ==
    /\ stage[r] = "job"
    /\ Goto(r, IF r \in WithoutRedis THEN "idle" ELSE "unlock")
    /\ UNCHANGED <<lock, age, run>>

\* Unlock deletes the key if it has the value of this execution; otherwise the
\* error is logged.  It gives up when Redis does not answer in time.
UnlockAny(r) ==
    /\ stage[r] = "unlock"
    /\ lock' \in {lock, Free}
    /\ Goto(r, "idle")
    /\ UNCHANGED <<age, run>>

Unlock(r) ==
    /\ stage[r] = "unlock"
    /\ lock' \in {lock} \cup (IF Owns(r) THEN {Free} ELSE {})
    /\ Goto(r, "idle")
    /\ UNCHANGED <<age, run>>

\* The process dies, or its shutdown does not wait any longer for the job: what
\* it has set stays.
Die(r) ==
    /\ stage[r] # "idle"
    /\ Goto(r, "idle")
    /\ UNCHANGED <<lock, age, run>>

\* A tick.  Jobs that hold the lock end within MaxAge.
Overdue(r) == stage[r] \in {"reply", "job"} /\ r \notin WithoutRedis /\ age[r] >= MaxAge

TickKeepingKey ==
    /\ \A r \in Replicas : ~Overdue(r)
    /\ lock' = [lock EXCEPT !.left = IF @ > 0 THEN @ - 1 ELSE 0]
    /\ age' = [r \in Replicas |-> IF age[r] < MaxAge THEN age[r] + 1 ELSE age[r]]
    /\ UNCHANGED <<stage, run>>

Tick ==
    /\ \A r \in Replicas : ~Overdue(r)
    /\ lock' = IF lock.left <= 1 THEN Free ELSE [lock EXCEPT !.left = @ - 1]
    /\ age' = [r \in Replicas |-> IF age[r] < MaxAge THEN age[r] + 1 ELSE age[r]]
    /\ UNCHANGED <<stage, run>>

JobStep(r) == SetKey(r) \/ Taken(r) \/ Acquired(r) \/ LockFails(r) \/ JobEnds(r) \/ Unlock(r)

CronNext == Tick \/ \E r \in Replicas : Fire(r) \/ JobStep(r) \/ Die(r)

CronSpec == CronInit /\ [][CronNext]_cronVars

\* Time passes, and jobs and calls to Redis end (runSample and Unlock bound
\* theirs by 30 and 3 seconds).
FairCronSpec == CronSpec /\ WF_cronVars(Tick) /\ \A r \in Replicas : WF_cronVars(JobStep(r))

-----------------------------------------------------------------------------
\* Type invariant.
CronTypeOK ==
    /\ lock \in [owner : Token, left : 1..TTL] \cup {Free}
    /\ stage \in [Replicas -> {"idle", "lock", "reply", "job", "unlock"}]
    /\ age \in [Replicas -> 0..MaxAge]
    /\ run \in [Replicas -> 0..MaxRuns]

\* Of the replicas with a locker at most one runs a job that is younger than the
\* TTL: lost answers, failed unlocks and deaths leave the key behind, and a job
\* that has outlived its key, which may meet a new job, never hands out the key of
\* that one (scheduler.go:58-75).
JobsExclusive ==
    \A r, s \in Replicas \ WithoutRedis :
        /\ stage[r] = "job" /\ age[r] < TTL
        /\ stage[s] = "job" /\ age[s] < TTL
        => r = s

\* A key is only ever removed by the execution that set it or by its expiry,
\* although a job that outlived the TTL still unlocks (scheduler.go:67-73).
OthersLockKept ==
    [][\A t \in Token :
          lock.owner = t /\ lock'.owner # t =>
              \/ lock.left = 1
              \/ \E r \in Replicas : t = TokenOf(r) /\ stage[r] # "idle" /\ stage'[r] = "idle"]_cronVars

\* No key stays for ever, whoever died or could not unlock.
LockFreed == (lock # Free) ~> (lock = Free)
=============================================================================
