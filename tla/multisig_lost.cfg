SPECIFICATION Spec
CONSTANTS
    u1 = u1
    u2 = u2
    u3 = u3
    Users = {u1, u2, u3}
    Wallets = {w1}
    Proposals = {p1}
    Calls = {c1, c2}
    TxHashes = {h1, h2}
    SignerLists <- MCThree
    Lifetimes <- MCLifetimes
    Never = Never
    NoTx = NoTx
    MaxTime = 1
    MayFail = FALSE
INVARIANTS QuorumDecides
CHECK_DEADLOCK FALSE
