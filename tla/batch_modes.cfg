SPECIFICATION ModesSpec
CONSTANTS
    c1 = c1
    Batches = {b1}
    Txs = {t1, t2, t3}
    Users = {u1}
    Calls = {c1, c2, c3}
    MaxBatchSize = 2
    MayFail = TRUE
INVARIANTS AtMostOnce TruthfulRecords TruthfulVerdict CompletedIsWholeAlone
PROPERTIES BatchEndsAlone
