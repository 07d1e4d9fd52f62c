SPECIFICATION ModesSpec
CONSTANTS
    c1 = c1
    Rules = {r1, r2}
    Orgs = {o1}
    NoOrg = NoOrg
    Calls = {c1, c2}
    Lifetimes <- MCLifetimes
    Never = Never
    TTL = 1
    DefaultMode = "allow"
    MaxTime = 1
    MayFail = TRUE
SYMMETRY Symmetry
INVARIANTS Isolation StaleOnlyByRace
PROPERTIES AnswersByTableAlone
CHECK_DEADLOCK FALSE
