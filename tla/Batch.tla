-------------------------------- MODULE Batch --------------------------------
(***************************************************************************)
(* Transaction batches (internal/batch/batch.go): a batch row, its         *)
(* transaction rows, and the handlers that create, process and cancel it.  *)
(*                                                                         *)
(* Each SQL statement, each critical section of Manager.mu and each call   *)
(* of Provider.Send is one step; any number of handlers run at once.  The  *)
(* rows survive a crash, the handlers and the processing map do not.       *)
(***************************************************************************)
EXTENDS Integers, FiniteSets

CONSTANTS
    Batches,       \* batch ids
    Txs,           \* the transactions a batch may have
    Users,         \* user ids
    Calls,         \* handlers that may be running at the same time
    MaxBatchSize,  \* the constant of the same name
    MayFail        \* whether statements may fail and the process crash

ASSUME ConstantsOK ==
    /\ IsFiniteSet(Txs)
    /\ MaxBatchSize \in Nat
    /\ MayFail \in BOOLEAN

VARIABLES
    batch,       \* rows of tx_batches
    tx,          \* tx[b][t]: status of the tx_log row of t in b, "none" without one
    processing,  \* Manager.processing
    call,        \* the handlers in flight
    (* Observations, read by no action. *)
    sends,       \* sends[b][t]: how often Provider.Send was called for t of b
    accepted     \* accepted[b]: transactions for which it returned no error

rows == <<batch, tx>>
sent == <<sends, accepted>>
vars == <<batch, tx, processing, call, sends, accepted>>

NoBatch == [status |-> "none"]
Idle == [at |-> "idle"]

BatchStatus ==
    {"pending", "processing", "completed", "failed", "partial", "cancelled"}

BatchRow ==
    [status : BatchStatus, user : Users, count : 1..MaxBatchSize, processed : Nat]

TxStatus == {"none", "pending", "submitted", "failed", "cancelled"}

\* ok and bad are successCount and failCount, todo the transactions still to
\* visit, cur the transaction just sent and err whether Send failed.
CallState ==
    [at : {"insert"}, id : Batches, todo : SUBSET Txs]
        \cup [at : {"get", "mark", "load", "release"}, id : Batches]
        \cup [at : {"send"}, id : Batches, todo : SUBSET Txs, ok : Nat, bad : Nat]
        \cup [at : {"record", "progress"}, id : Batches, todo : SUBSET Txs,
              ok : Nat, bad : Nat, cur : Txs, err : BOOLEAN]
        \cup [at : {"check", "cancelBatch", "cancelTxs"}, id : Batches]

(* The one type invariant. *)
TypeOK ==
    /\ batch \in [Batches -> BatchRow \cup {NoBatch}]
    /\ tx \in [Batches -> [Txs -> TxStatus]]
    /\ processing \subseteq Batches
    /\ call \in [Calls -> CallState \cup {Idle}]
    /\ sends \in [Batches -> [Txs -> Nat]]
    /\ accepted \in [Batches -> SUBSET Txs]

Init ==
    /\ batch = [b \in Batches |-> NoBatch]
    /\ tx = [b \in Batches |-> [t \in Txs |-> "none"]]
    /\ processing = {}
    /\ call = [c \in Calls |-> Idle]
    /\ sends = [b \in Batches |-> [t \in Txs |-> 0]]
    /\ accepted = [b \in Batches |-> {}]

-----------------------------------------------------------------------------
(* Helpers *)

At(c, stage) == call[c].at = stage

Enter(c, state) == call' = [call EXCEPT ![c] = state]

Proceed(c, stage) == call' = [call EXCEPT ![c].at = stage]

Return(c) == Enter(c, Idle)

\* What Process leaves through: the deferred delete is still to run.
ToRelease(c) == Enter(c, [at |-> "release", id |-> call[c].id])

SetStatus(b, s) == batch' = [batch EXCEPT ![b].status = s]

Pending(b) == {t \in Txs : tx[b][t] = "pending"}

-----------------------------------------------------------------------------
(* Create: the batch row first, then one INSERT per transaction *)

CreateBatch(c, b) ==
    /\ At(c, "idle")
    /\ batch[b] = NoBatch
    /\ \E S \in SUBSET Txs, u \in Users :
          /\ Cardinality(S) \in 1..MaxBatchSize
          /\ batch' = [batch EXCEPT ![b] = [status |-> "pending", user |-> u,
                                            count |-> Cardinality(S), processed |-> 0]]
          /\ Enter(c, [at |-> "insert", id |-> b, todo |-> S])
    /\ UNCHANGED <<tx, processing, sent>>

CreateTx(c, t) ==
    /\ At(c, "insert")
    /\ t \in call[c].todo
    /\ tx' = [tx EXCEPT ![call[c].id][t] = "pending"]
    /\ IF call[c].todo = {t} THEN Return(c)
       ELSE call' = [call EXCEPT ![c].todo = @ \ {t}]
    /\ UNCHANGED <<batch, processing, sent>>

-----------------------------------------------------------------------------
(* Process *)

\* Bug: the processing map is not consulted.
ProcessClaim_NoMap(c, b) ==
    /\ At(c, "idle")
    /\ processing' = processing \cup {b}
    /\ Enter(c, [at |-> "get", id |-> b])
    /\ UNCHANGED <<rows, sent>>

ProcessClaim(c, b) ==
    /\ At(c, "idle")
    /\ b \notin processing
    /\ processing' = processing \cup {b}
    /\ Enter(c, [at |-> "get", id |-> b])
    /\ UNCHANGED <<rows, sent>>

\* Bug: the status of the batch is not tested.
ProcessGet_AnyStatus(c) ==
    /\ At(c, "get")
    /\ IF batch[call[c].id] # NoBatch
       THEN Proceed(c, "mark") ELSE ToRelease(c)
    /\ UNCHANGED <<rows, processing, sent>>

ProcessGet(c) ==
    /\ At(c, "get")
    /\ IF batch[call[c].id].status = "pending"
       THEN Proceed(c, "mark") ELSE ToRelease(c)
    /\ UNCHANGED <<rows, processing, sent>>

\* The UPDATE names the id only, not the status just read.
ProcessMark(c) ==
    /\ At(c, "mark")
    /\ SetStatus(call[c].id, "processing")
    /\ Proceed(c, "load")
    /\ UNCHANGED <<tx, processing, sent>>

\* The head of the loop over the transactions read.
Loop(b, todo, ok, bad) ==
    [at |-> "send", id |-> b, todo |-> todo, ok |-> ok, bad |-> bad]

NextTx(c) == Enter(c, Loop(call[c].id, call[c].todo, call[c].ok, call[c].bad))

\* GetTransactions: the loop below works on this reading of the rows.
ProcessLoad(c) ==
    LET b == call[c].id IN
    /\ At(c, "load")
    /\ Enter(c, Loop(b, Pending(b), 0, 0))
    /\ UNCHANGED <<rows, processing, sent>>

ProcessSend(c, t) ==
    LET b == call[c].id IN
    /\ At(c, "send")
    /\ t \in call[c].todo
    /\ sends' = [sends EXCEPT ![b][t] = @ + 1]
    /\ \E err \in BOOLEAN :
          /\ Enter(c, [at |-> "record", id |-> b, todo |-> call[c].todo \ {t},
                       ok |-> call[c].ok + (IF err THEN 0 ELSE 1),
                       bad |-> call[c].bad + (IF err THEN 1 ELSE 0),
                       cur |-> t, err |-> err])
          /\ accepted' = [accepted EXCEPT ![b] = IF err THEN @ ELSE @ \cup {t}]
    /\ UNCHANGED <<rows, processing>>

\* Bug: the row of a refused transaction says submitted, and the other way round.
ProcessRecord_Swapped(c) ==
    /\ At(c, "record")
    /\ tx' = [tx EXCEPT ![call[c].id][call[c].cur] =
                 IF call[c].err THEN "submitted" ELSE "failed"]
    /\ Proceed(c, "progress")
    /\ UNCHANGED <<batch, processing, sent>>

ProcessRecord(c) ==
    /\ At(c, "record")
    /\ tx' = [tx EXCEPT ![call[c].id][call[c].cur] =
                 IF call[c].err THEN "failed" ELSE "submitted"]
    /\ Proceed(c, "progress")
    /\ UNCHANGED <<batch, processing, sent>>

\* Bug: the progress shown is one transaction ahead.
ProcessProgress_Ahead(c) ==
    /\ At(c, "progress")
    /\ batch' = [batch EXCEPT ![call[c].id].processed = call[c].ok + call[c].bad + 1]
    /\ NextTx(c)
    /\ UNCHANGED <<tx, processing, sent>>

\* Bug: only failures are counted as progress.
ProcessProgress_FailuresOnly(c) ==
    /\ At(c, "progress")
    /\ batch' = [batch EXCEPT ![call[c].id].processed = call[c].bad]
    /\ NextTx(c)
    /\ UNCHANGED <<tx, processing, sent>>

ProcessProgress(c) ==
    /\ At(c, "progress")
    /\ batch' = [batch EXCEPT ![call[c].id].processed = call[c].ok + call[c].bad]
    /\ NextTx(c)
    /\ UNCHANGED <<tx, processing, sent>>

\* The two UPDATEs of the loop are executed for their effect only: a failure is
\* not noticed.
ProcessSkip(c) ==
    /\ MayFail
    /\ \/ At(c, "record") /\ Proceed(c, "progress")
       \/ At(c, "progress") /\ NextTx(c)
    /\ UNCHANGED <<rows, processing, sent>>

\* Bug: a batch of which nothing was accepted keeps its status.
FinalStatus_NoFailed(ok, bad) ==
    IF bad = 0 THEN "completed" ELSE IF ok = 0 THEN "processing" ELSE "partial"

\* Bug: one accepted transaction is enough.
FinalStatus_AnySuccess(ok, bad) == IF ok > 0 THEN "completed" ELSE "failed"

FinalStatus(ok, bad) ==
    IF bad = 0 THEN "completed" ELSE IF ok = 0 THEN "failed" ELSE "partial"

ProcessFinish(c) ==
    /\ At(c, "send")
    /\ call[c].todo = {}
    /\ SetStatus(call[c].id, FinalStatus(call[c].ok, call[c].bad))
    /\ ToRelease(c)
    /\ UNCHANGED <<tx, processing, sent>>

ProcessRelease(c) ==
    /\ At(c, "release")
    /\ processing' = processing \ {call[c].id}
    /\ Return(c)
    /\ UNCHANGED <<rows, sent>>

-----------------------------------------------------------------------------
(* Cancel *)

CancelGet(c, b, u) ==
    /\ At(c, "idle")
    /\ batch[b].status = "pending"
    /\ batch[b].user = u
    /\ Enter(c, [at |-> "check", id |-> b])
    /\ UNCHANGED <<rows, processing, sent>>

CancelCheck(c) ==
    /\ At(c, "check")
    /\ IF call[c].id \in processing THEN Return(c) ELSE Proceed(c, "cancelBatch")
    /\ UNCHANGED <<rows, processing, sent>>

CancelBatch(c) ==
    /\ At(c, "cancelBatch")
    /\ SetStatus(call[c].id, "cancelled")
    /\ Proceed(c, "cancelTxs")
    /\ UNCHANGED <<tx, processing, sent>>

CancelTxs(c) ==
    LET b == call[c].id IN
    /\ At(c, "cancelTxs")
    /\ tx' = [tx EXCEPT ![b] = [t \in Txs |->
                 IF t \in Pending(b) THEN "cancelled" ELSE @[t]]]
    /\ Return(c)
    /\ UNCHANGED <<batch, processing, sent>>

-----------------------------------------------------------------------------
(* The environment *)

\* A statement whose error the handler returns.
Fail(c) ==
    /\ MayFail
    /\ \/ At(c, "insert") /\ Return(c)
       \/ call[c].at \in {"cancelBatch", "cancelTxs"} /\ Return(c)
       \/ call[c].at \in {"get", "mark", "load"} /\ ToRelease(c)
       \/ At(c, "send") /\ call[c].todo = {} /\ ToRelease(c)
    /\ UNCHANGED <<rows, processing, sent>>

\* The process dies and is started again; nothing of a batch is resumed.
Crash ==
    /\ MayFail
    /\ call' = [c \in Calls |-> Idle]
    /\ processing' = {}
    /\ UNCHANGED <<rows, sent>>

Create(c) == (\E b \in Batches : CreateBatch(c, b)) \/ (\E t \in Txs : CreateTx(c, t))

\* The steps of a Process call that has claimed its batch.
Processing(c) ==
    \/ ProcessGet(c) \/ ProcessMark(c) \/ ProcessLoad(c)
    \/ (\E t \in Txs : ProcessSend(c, t))
    \/ ProcessRecord(c) \/ ProcessProgress(c) \/ ProcessSkip(c)
    \/ ProcessFinish(c) \/ ProcessRelease(c)

Cancel(c) ==
    \/ \E b \in Batches, u \in Users : CancelGet(c, b, u)
    \/ CancelCheck(c) \/ CancelBatch(c) \/ CancelTxs(c)

Next ==
    \/ \E c \in Calls : Create(c) \/ Processing(c) \/ Cancel(c) \/ Fail(c)
    \/ \E c \in Calls, b \in Batches : ProcessClaim(c, b)
    \/ Crash

Spec == Init /\ [][Next]_vars

\* The goroutine of a running handler keeps being scheduled, and Send returns.
FairSpec ==
    Spec /\ \A c \in Calls : WF_vars(Processing(c))

-----------------------------------------------------------------------------
(* Properties *)

Attempted(b) == {t \in Txs : sends[b][t] > 0}

(* No transaction of a batch is handed to Provider.Send twice, whatever    *)
(* runs at the same time and wherever a statement fails or the process     *)
(* crashes: Process is exclusive per batch, and a batch it has begun is    *)
(* never pending again.                                                    *)
AtMostOnce == \A b \in Batches, t \in Txs : sends[b][t] <= 1

(* A transaction row says submitted only if Send accepted it and failed    *)
(* only if Send refused it; a transaction without a row is never sent.     *)
TruthfulLedger ==
    \A b \in Batches, t \in Txs :
        /\ tx[b][t] = "submitted" => t \in accepted[b]
        /\ tx[b][t] = "failed" => t \in Attempted(b) \ accepted[b]
        /\ tx[b][t] = "none" => t \notin Attempted(b)

(* The final status of a batch tells what became of the transactions that  *)
(* were sent: all accepted, none, or some of each.                         *)
TruthfulVerdict ==
    \A b \in Batches :
        /\ batch[b].status = "completed" => Attempted(b) = accepted[b]
        /\ batch[b].status = "failed" => accepted[b] = {} /\ Attempted(b) # {}
        /\ batch[b].status = "partial" =>
              accepted[b] # {} /\ accepted[b] # Attempted(b)

(* processed_count never claims more than was sent.                        *)
HonestProgress ==
    \A b \in Batches : batch[b] # NoBatch =>
        batch[b].processed <= Cardinality(Attempted(b))

(* What the tables say of a batch is no more than what happened to it.     *)
TruthfulRecords == TruthfulLedger /\ HonestProgress

(* What Cancel is for: once the batch row says cancelled it stays so and   *)
(* nothing more of the batch is sent.                                      *)
CancelledStays ==
    \A b \in Batches : batch[b].status = "cancelled" =>
        batch'[b] = batch[b] /\ sends'[b] = sends[b]

CancelStands == [][CancelledStays]_vars

(* A completed batch was processed as a whole: every one of tx_count       *)
(* transactions is counted and none is left pending.                       *)
CompletedIsWhole ==
    \A b \in Batches : batch[b].status = "completed" =>
        batch[b].processed = batch[b].count /\ Pending(b) = {}

(* A batch being processed reaches another status, as long as no statement *)
(* fails and the process does not crash (neither is ever repaired).        *)
ProcessingEnds ==
    \A b \in Batches :
        batch[b].status = "processing" ~> batch[b].status # "processing"
=============================================================================
