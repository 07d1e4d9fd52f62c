SPECIFICATION DaemonSpec
CONSTANTS
    c1 = c1
    m1 = m1
    Names = {n1, n2}
    Emails = {e1}
    NoEmail = NoEmail
    Chosen = Chosen
    RequireVerification = TRUE
    Interval = 1
    Expiration = 1
    LinkExpiration = 2
    Grace = 0
    ACalls = {c1, c2}
    AMayFail = TRUE
    MaxRows = 2
    MaxRequests = 4
    MoreRequests = 5
    Horizon = 2
    TCalls = {c1, c2}
    CodeCount = 2
    TMayFail = TRUE
    MaxSecrets = 2
    MaxCodes = 4
    MaxVisits = 4
    MoreVisits = 6
    Owners = {u1}
    Keys = {k1}
    Areas = {"tx", "nft"}
    Verbs = {"send"}
    ScopeLists <- MCScopeLists
    Anything = Anything
    KCalls = {c1, c2}
    KMayFail = TRUE
    Retention = 1
    MaxUses = 3
    MaxDay = 2
    Hooks = {h1, h2}
    Clients = {u1}
    Types = {"tx"}
    Addresses = {a1}
    NoAddress = NoAddress
    Triggers = {g1}
    Workers = {w1}
    QueueMax = 1
    HMayFail = TRUE
    MaxEvents = 2
    MaxCrashes = 1
    DefaultLimits <- MCDefault
    OtherLimits <- MCOther
    IdleTime = 1
    LCalls = {c1, c2}
    Admins = {a1, a2}
    LMayFail = TRUE
    MaxBuckets = 2
    MaxTime = 2
    MaxHits = 3
    Versions <- MCVersions
    Managers = {m1, m2}
    GMayFail = TRUE
    MaxCalls = 3
INVARIANTS DaemonTypeOK SpentForGood CredentialsAlone KeysHold LimitsHold MigrationsAlone
PROPERTIES HooksServed
CHECK_DEADLOCK FALSE
