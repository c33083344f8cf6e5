SPECIFICATION MCFairSpec
CONSTANTS
    c1 = c1
    c2 = c2
    c3 = c3
    k1 = k1
    k2 = k2
    Calls = {c1, c2, c3}
    Codes = {k1, k2}
    MaxExpected = 2
    Seeded = {c1}
    Faults = TRUE
INVARIANTS HistoryMatchesRows AnswersTruthful
PROPERTIES OneVersionPerStep CallsAnswered
