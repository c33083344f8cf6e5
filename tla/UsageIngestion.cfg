SPECIFICATION MCSpec
CONSTANTS
    c0 = c0
    c1 = c1
    k1 = k1
    k2 = k2
    e1 = e1
    e2 = e2
    t1 = t1
    t2 = t2
    a1 = a1
    a2 = a2
    r1 = r1
    r2 = r2
    Calls = {c0, c1}
    Codes = {k1, k2}
    MaxExpected = 1
    Seeded = {c0}
    Faults = TRUE
    Requests = {r1, r2}
    EventIds = {e1, e2}
    Tenants = {t1, t2}
    Apps = {a1, a2}
    Granted <- MCGranted
    Submissions <- AllBatches
    MaxRecordBatch = 2
    Driver = "postgres"
    Collate <- OwnEventId
SYMMETRY RequestSymmetry
INVARIANTS OneFactPerEvent FactsAnnouncedOnce AcknowledgedIsRecorded
    BatchAtomic FactsAuthorized AdjustmentReadable
PROPERTIES MeterActiveWhenRead ImplementsLedger
