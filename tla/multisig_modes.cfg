SPECIFICATION ModesSpec
CONSTANTS
    u1 = u1
    u2 = u2
    u3 = u3
    c1 = c1
    Users = {u1, u2, u3}
    Wallets = {w1}
    Proposals = {p1}
    Calls = {c1, c2}
    TxHashes = {h1, h2}
    SignerLists <- MCSignerLists
    Lifetimes <- MCLifetimes
    Never = Never
    NoTx = NoTx
    MaxTime = 1
    MayFail = TRUE
INVARIANTS VerdictsEarned QuorumDecidesAlone
PROPERTIES SettledForGood StatusForwardAlone
CHECK_DEADLOCK FALSE
