SPECIFICATION MCSpec
CONSTANTS
    c0 = c0
    k1 = k1
    k2 = k2
    e1 = e1
    e2 = e2
    t1 = t1
    t2 = t2
    a1 = a1
    a2 = a2
    r1 = r1
    r2 = r2
    Calls = {c0}
    Codes = {k1, k2}
    MaxExpected = 1
    Seeded = {c0}
    Faults = FALSE
    Requests = {r1, r2}
    EventIds = {e1, e2}
    Tenants = {t1, t2}
    Apps = {a1, a2}
    Granted <- MCGranted
    Submissions <- Acyclic
    MaxRecordBatch = 2
    Driver = "mysql"
    Collate <- CaseFolded
SYMMETRY RequestSymmetry
INVARIANTS AcknowledgedUnderOwnEventId
