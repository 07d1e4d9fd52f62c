SPECIFICATION FairSpec
CONSTANTS
    j1 = j1
    j2 = j2
    JobIds = {j1, j2}
    Registered <- MCRegistered
    Workers = {w1}
    Admins = {}
    Priorities = {0, 1}
    Delays = {0, 1}
    MaxAttempts = 2
    RetryDelay = 1
    Horizon = 2
    MaxFaults = 0
PROPERTIES JobEnds
CHECK_DEADLOCK FALSE
