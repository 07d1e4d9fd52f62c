SPECIFICATION ModesSpec
CONSTANTS
    j1 = j1
    j2 = j2
    w1 = w1
    JobIds = {j1, j2}
    Registered <- MCRegistered
    Workers = {w1, w2}
    Admins = {a1}
    Priorities = {0, 1}
    Delays = {0, 1}
    MaxAttempts = 2
    RetryDelay = 1
    Horizon = 1
    MaxFaults = 1
INVARIANTS TypeOK TruthfulOutcome FetchedIsClaimedAlone AccountedForAlone
PROPERTIES JobEndsAlone
CHECK_DEADLOCK FALSE
