SPECIFICATION Spec
CONSTANTS
    j1 = j1
    j2 = j2
    JobIds = {j1, j2}
    Registered = {j1, j2}
    Workers = {w1, w2}
    Admins = {}
    Priorities = {0, 1}
    Delays = {0, 1}
    MaxAttempts = 2
    RetryDelay = 1
    Horizon = 2
    MaxFaults = 0
INVARIANTS FetchedIsClaimed
CHECK_DEADLOCK FALSE
