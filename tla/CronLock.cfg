SPECIFICATION FairCronSpec
CONSTANTS
    r1 = r1
    r2 = r2
    r3 = r3
    Replicas = {r1, r2, r3}
    WithoutRedis = {r3}
    TTL = 2
    MaxAge = 3
    MaxRuns = 2
INVARIANTS
    JobsExclusive
PROPERTIES
    OthersLockKept
    LockFreed
