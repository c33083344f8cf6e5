SPECIFICATION MCFairSpec
CONSTANTS
    k = k
    u1 = u1
    u2 = u2
    b1 = b1
    b2 = b2
    p1 = p1
    p2 = p2
    NoPost = NoPost
    NoKey = NoKey
    BadKey = BadKey
    Keys = {k}
    Users = {u1, u2}
    Bodies = {b1, b2}
    Routes = {"record", "adjust", "create", "version", "RecordUsage", "Check"}
    GRPCMethods = {"RecordUsage", "Check"}
    PSKRoutes = {"adjust"}
    SkipRoutes = {"version", "Check"}
    ProtectedRoutes = {"record", "adjust", "create", "RecordUsage"}
    IdempotentRoutes = {"record", "adjust", "create", "RecordUsage"}
    Permissions <- MCPermissions
    PersistTimeout = 1
    FailureTTL = 1
    Failures = TRUE
    Posts = {p1, p2}
    Inputs <- MCInputs
    RequestTimeout = 1
    ProcessingTTL = 2
    ResultTTL = 2
    RateFailOpen = FALSE
INVARIANTS ResponsesStayWithRequest SuccessMeansEffect KeyHeldWhileExecuting
PROPERTIES RecordsKeepOwner PostsAnswered KeysFreed
