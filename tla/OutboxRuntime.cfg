SPECIFICATION FairOutboxSpec
CONSTANTS
    r1 = r1
    r2 = r2
    e1 = e1
    e2 = e2
    Replicas = {r1, r2}
    Events = {e1, e2}
    BatchSize = 1
    MaxFaults = 2
INVARIANTS NothingLost LoopsHaveBus
PROPERTIES EventsPublished StopReturns
