SPECIFICATION MCSpec
CONSTANTS
    c1 = c1
    c2 = c2
    c3 = c3
    Calls = {c1, c2, c3}
    MaxAttempts = 2
    FailureThresholds <- MCThresholds
SYMMETRY CallSymmetry
INVARIANTS
    PlainAppliedOnce
    BodiesAccounted
PROPERTIES OpensOnFailures
