SPECIFICATION Spec
CONSTANTS
    Batches = {b1}
    Txs = {t1, t2, t3}
    Users = {u1}
    Calls = {c1, c2}
    MaxBatchSize = 2
    MayFail = FALSE
PROPERTIES CancelStands
