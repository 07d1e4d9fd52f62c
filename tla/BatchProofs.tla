---------------------------- MODULE BatchProofs ----------------------------
(***************************************************************************)
(* Proofs about Batch, for any set of batches, handlers and users and any  *)
(* finite set of transactions.                                             *)
(*                                                                         *)
(* The argument: the processing map keeps two handlers of Process off one  *)
(* batch within one life of the process; across crashes it is the status   *)
(* that does, because it never returns to pending and nothing of a pending *)
(* batch was ever sent.  The handler inside Process counts exactly what    *)
(* was sent and accepted, so the final status is right.                    *)
(***************************************************************************)
EXTENDS MCBatchModes, FiniteSetTheorems, TLAPS

\* The statements of a Process call that has claimed its batch, and of its loop.
Claimed == {"get", "mark", "load", "send", "record", "progress", "release"}
Looping == {"send", "record", "progress"}
Cancelling == {"check", "cancelBatch", "cancelTxs"}

BatchInv(b) ==
    /\ \A t \in Txs : sends[b][t] <= 1
    /\ accepted[b] \subseteq Attempted(b)
    /\ batch[b].status \in {"none", "pending"} => Attempted(b) = {}
    /\ batch[b] = NoBatch => \A t \in Txs : tx[b][t] = "none"
    /\ \A t \in Txs :
          /\ tx[b][t] = "submitted" => t \in accepted[b]
          /\ tx[b][t] = "failed" => t \in Attempted(b) \ accepted[b]
          /\ tx[b][t] = "none" => t \notin Attempted(b)
    /\ batch[b].status = "completed" => Attempted(b) = accepted[b]
    /\ batch[b].status = "failed" => accepted[b] = {} /\ Attempted(b) # {}
    /\ batch[b].status = "partial" =>
          accepted[b] # {} /\ accepted[b] # Attempted(b)
    /\ batch[b] # NoBatch => batch[b].processed <= Cardinality(Attempted(b))

CallInv(c) ==
    LET k == call[c]  b == call[c].id IN
    /\ k # Idle /\ k.at \notin {"get", "release"} => batch[b] # NoBatch
    /\ k.at = "insert" => \A t \in k.todo : tx[b][t] = "none"
    /\ k.at \in Claimed => b \in processing
    /\ k.at = "mark" => batch[b].status \in {"pending", "cancelled"}
    /\ k.at \in {"load"} \cup Looping => batch[b].status \in {"processing", "cancelled"}
    /\ k.at \in {"mark", "load"} => Attempted(b) = {}
    /\ k.at \in Looping =>
          /\ \A t \in k.todo : sends[b][t] = 0 /\ tx[b][t] # "none"
          /\ k.ok = Cardinality(accepted[b])
          /\ k.bad = Cardinality(Attempted(b) \ accepted[b])
    /\ k.at = "record" =>
          /\ k.cur \in Attempted(b) /\ tx[b][k.cur] # "none"
          /\ k.cur \in accepted[b] <=> ~k.err

\* At most one handler is creating a batch, and at most one has claimed it.
Apart(c, d) ==
    c # d /\ call[c] # Idle /\ call[d] # Idle /\ call[c].id = call[d].id =>
        /\ call[c].at = "insert" => call[d].at # "insert"
        /\ call[c].at \in Claimed => call[d].at \notin Claimed

Inv ==
    /\ TypeOK
    /\ \A b \in Batches : BatchInv(b)
    /\ \A c \in Calls : CallInv(c)
    /\ \A c, d \in Calls : Apart(c, d)

-----------------------------------------------------------------------------
(* The shape of a handler's state *)

Simple == [at : {"get", "mark", "load", "release"}, id : Batches]
Sending == [at : {"send"}, id : Batches, todo : SUBSET Txs, ok : Nat, bad : Nat]
AfterSend == [at : {"record", "progress"}, id : Batches, todo : SUBSET Txs,
              ok : Nat, bad : Nat, cur : Txs, err : BOOLEAN]
Inserting == [at : {"insert"}, id : Batches, todo : SUBSET Txs]
InCancel == [at : {"check", "cancelBatch", "cancelTxs"}, id : Batches]

\* What the type invariant says of a handler, by the statement it is at.
LEMMA CallShape ==
    ASSUME TypeOK, NEW c \in Calls
    PROVE  /\ call[c] = Idle \/ call[c].id \in Batches
           /\ call[c] = Idle <=> call[c].at = "idle"
           /\ call[c].at \in {"get", "mark", "load", "release"} => call[c] \in Simple
           /\ call[c].at = "send" => call[c] \in Sending
           /\ call[c].at \in {"record", "progress"} => call[c] \in AfterSend
           /\ call[c].at = "insert" => call[c] \in Inserting
           /\ call[c].at \in {"check", "cancelBatch", "cancelTxs"} => call[c] \in InCancel
BY DEF TypeOK, CallState, Idle, Simple, Sending, AfterSend, Inserting, InCancel

\* The shapes are the states a handler may be in.
LEMMA ShapeTyped ==
    Simple \cup Sending \cup AfterSend \cup Inserting \cup InCancel \subseteq CallState
BY DEF CallState, Simple, Sending, AfterSend, Inserting, InCancel

\* One handler moves to a state of the right shape.
LEMMA CallTyped ==
    ASSUME TypeOK, NEW c \in Calls, NEW k, Enter(c, k),
           k \in Simple \cup Sending \cup AfterSend \cup Inserting \cup InCancel \cup {Idle}
    PROVE  /\ call' \in [Calls -> CallState \cup {Idle}]
           /\ call'[c] = k
           /\ \A d \in Calls : d # c => call'[d] = call[d]
BY ShapeTyped DEF TypeOK, Enter

\* Proceed changes the stage and nothing else.
LEMMA ProceedShape ==
    ASSUME TypeOK, NEW c \in Calls, NEW s, Proceed(c, s),
           NEW k, k = [call[c] EXCEPT !.at = s]
    PROVE  /\ Enter(c, k)
           /\ call[c] \in Simple /\ s \in {"get", "mark", "load", "release"} =>
                 k \in Simple /\ k.at = s /\ k.id = call[c].id
           /\ call[c] \in InCancel /\ s \in {"check", "cancelBatch", "cancelTxs"} =>
                 k \in InCancel /\ k.at = s /\ k.id = call[c].id
           /\ call[c] \in AfterSend /\ s \in {"record", "progress"} =>
                 /\ k \in AfterSend /\ k.at = s /\ k.id = call[c].id
                 /\ k.todo = call[c].todo /\ k.ok = call[c].ok /\ k.bad = call[c].bad
                 /\ k.cur = call[c].cur /\ k.err = call[c].err
<1>1. Enter(c, k)
  BY DEF Proceed, Enter
<1>2. call[c] \in Simple /\ s \in {"get", "mark", "load", "release"} =>
         k \in Simple /\ k.at = s /\ k.id = call[c].id
  BY DEF Simple
<1>3. call[c] \in InCancel /\ s \in {"check", "cancelBatch", "cancelTxs"} =>
         k \in InCancel /\ k.at = s /\ k.id = call[c].id
  BY DEF InCancel
<1>4. call[c] \in AfterSend /\ s \in {"record", "progress"} =>
         /\ k \in AfterSend /\ k.at = s /\ k.id = call[c].id
         /\ k.todo = call[c].todo /\ k.ok = call[c].ok /\ k.bad = call[c].bad
         /\ k.cur = call[c].cur /\ k.err = call[c].err
  BY DEF AfterSend
<1>. QED  BY <1>1, <1>2, <1>3, <1>4

\* A batch row that exists is complete.
LEMMA RowShape ==
    ASSUME TypeOK, NEW b \in Batches
    PROVE  /\ batch[b].status # "none" <=> batch[b] # NoBatch
           /\ batch[b] # NoBatch => batch[b] \in BatchRow
BY DEF TypeOK, BatchRow, BatchStatus, NoBatch

-----------------------------------------------------------------------------
(* What a step keeps *)

\* A handler that does not move, on a batch nothing happens to.
LEMMA CallKept ==
    ASSUME Inv, NEW d \in Calls, call'[d] = call[d],
           NEW b, b = call[d].id,
           batch'[b] = batch[b], tx'[b] = tx[b],
           sends'[b] = sends[b], accepted'[b] = accepted[b],
           b \in processing => b \in processing'
    PROVE  CallInv(d)'
BY DEF Inv, CallInv, Attempted

\* A batch nothing happens to.
LEMMA BatchKept ==
    ASSUME Inv, NEW b \in Batches, batch'[b] = batch[b], tx'[b] = tx[b],
           sends'[b] = sends[b], accepted'[b] = accepted[b]
    PROVE  BatchInv(b)'
<1>1. Attempted(b)' = Attempted(b)
  BY DEF Attempted
<1>2. BatchInv(b)
  BY DEF Inv
<1>. QED  BY <1>1, <1>2 DEF BatchInv

\* A handler that returns, or stays within what it was doing, meets nobody new.
LEMMA AloneKept ==
    ASSUME Inv, NEW c \in Calls,
           \A d \in Calls : d # c => call'[d] = call[d],
           \/ call'[c] = Idle
           \/ call'[c].at \in Cancelling
           \/ /\ call[c] # Idle /\ call'[c].id = call[c].id
              /\ call'[c].at = "insert" => call[c].at = "insert"
              /\ call'[c].at \in Claimed => call[c].at \in Claimed
    PROVE  \A d, e \in Calls : Apart(d, e)'
BY DEF Inv, Apart, Cancelling, Claimed, Idle

\* Steps that leave the rows and the sends alone.
LEMMA MoveOnly ==
    ASSUME Inv, NEW c \in Calls, NEW k,
           k \in Simple \cup Sending \cup AfterSend \cup Inserting \cup InCancel \cup {Idle},
           Enter(c, k), UNCHANGED <<rows, processing, sent>>,
           \/ k = Idle
           \/ k.at \in Cancelling
           \/ /\ call[c] # Idle /\ k.id = call[c].id
              /\ k.at = "insert" => call[c].at = "insert"
              /\ k.at \in Claimed => call[c].at \in Claimed,
           CallInv(c)'
    PROVE  Inv'
<1>1. /\ call' \in [Calls -> CallState \cup {Idle}] /\ call'[c] = k
      /\ \A d \in Calls : d # c => call'[d] = call[d]
  BY CallTyped DEF Inv
<1>2. TypeOK'
  BY <1>1 DEF Inv, TypeOK, rows, sent
<1>3. \A b \in Batches : BatchInv(b)'
  BY BatchKept DEF rows, sent
<1>4. ASSUME NEW d \in Calls
      PROVE  CallInv(d)'
  BY <1>1, CallKept DEF rows, sent
<1>5. \A d, e \in Calls : Apart(d, e)'
  BY <1>1, AloneKept
<1>. QED  BY <1>2, <1>3, <1>4, <1>5 DEF Inv

\* Steps that write to one batch.
LEMMA WriteOne ==
    ASSUME Inv, TypeOK', NEW c \in Calls, NEW b \in Batches,
           \A d \in Calls : d # c => call'[d] = call[d],
           \A a \in Batches : a # b => /\ batch'[a] = batch[a] /\ tx'[a] = tx[a]
                                       /\ sends'[a] = sends[a] /\ accepted'[a] = accepted[a],
           processing' = processing,
           BatchInv(b)', CallInv(c)',
           \A d \in Calls : d # c /\ call[d] # Idle /\ call[d].id = b => CallInv(d)',
           \A d, e \in Calls : Apart(d, e)'
    PROVE  Inv'
<1>1. ASSUME NEW a \in Batches
      PROVE  BatchInv(a)'
  BY BatchKept
<1>2. ASSUME NEW d \in Calls
      PROVE  CallInv(d)'
  <2>1. CASE d = c
    BY <2>1
  <2>2. CASE d # c /\ call[d] = Idle
    BY <2>2 DEF CallInv, Idle, Claimed, Looping
  <2>3. CASE d # c /\ call[d] # Idle /\ call[d].id # b
    <3>1. call[d].id \in Batches
      BY <2>3, CallShape DEF Inv
    <3>. QED  BY <2>3, <3>1, CallKept
  <2>. QED  BY <2>1, <2>2, <2>3
<1>. QED  BY <1>1, <1>2 DEF Inv

-----------------------------------------------------------------------------
(* The steps that only read *)

\* Process reads the batch and tests its status.
LEMMA GetStep ==
    ASSUME Inv, NEW c \in Calls, ProcessGet(c)
    PROVE  Inv'
<1>1. call[c] \in Simple /\ call[c].at = "get" /\ call[c].id \in Batches
  BY CallShape DEF ProcessGet, At, Inv, Simple
<1>2. CallInv(c) /\ BatchInv(call[c].id)
  BY <1>1 DEF Inv
<1>3. CASE batch[call[c].id].status = "pending" /\ Proceed(c, "mark")
  <2>. DEFINE k == [call[c] EXCEPT !.at = "mark"]
  <2>0. /\ Enter(c, k) /\ k \in Simple /\ k.at = "mark" /\ k.id = call[c].id
    BY <1>1, <1>3, ProceedShape DEF Inv
  <2>. HIDE DEF k
  <2>1. /\ Enter(c, k) /\ k \in Simple /\ k.at = "mark" /\ k.id = call[c].id
        /\ call'[c] = k
    BY <2>0, CallTyped DEF Inv
  <2>2. batch[call[c].id] # NoBatch
    BY <1>1, <1>3, RowShape DEF Inv
  <2>3. CallInv(c)'
    BY <1>1, <1>2, <1>3, <2>1, <2>2
       DEF CallInv, BatchInv, Claimed, Looping, Attempted, ProcessGet, rows, sent
  <2>. QED  BY <1>1, <2>1, <2>3, MoveOnly DEF ProcessGet, Claimed, Idle
<1>4. CASE ToRelease(c)
  <2>. DEFINE k == [at |-> "release", id |-> call[c].id]
  <2>1. Enter(c, k) /\ k \in Simple /\ call'[c] = k
    BY <1>1, <1>4, CallTyped DEF Simple, Inv, Enter, TypeOK, ToRelease
  <2>2. CallInv(c)'
    BY <1>1, <1>2, <2>1 DEF CallInv, Claimed, Looping, ProcessGet
  <2>. QED  BY <1>1, <2>1, <2>2, MoveOnly DEF ProcessGet, Claimed, Idle
<1>. QED  BY <1>3, <1>4 DEF ProcessGet

\* Process reads the pending transactions: nothing of the batch was sent yet.
LEMMA LoadStep ==
    ASSUME Inv, NEW c \in Calls, ProcessLoad(c)
    PROVE  Inv'
<1>1. call[c] \in Simple /\ call[c].at = "load"
  BY CallShape DEF ProcessLoad, At, Inv
<1>2. PICK b \in Batches : b = call[c].id
  BY <1>1 DEF Simple
<1>3. CallInv(c) /\ BatchInv(b)
  BY DEF Inv
<1>. DEFINE k == Loop(b, Pending(b), 0, 0)
<1>4. k \in Sending /\ k.at = "send" /\ k.id = b /\ k.todo = Pending(b) /\ k.ok = 0 /\ k.bad = 0
  BY DEF Sending, Loop, Pending
<1>5. Enter(c, k)
  BY <1>2 DEF ProcessLoad
<1>. HIDE DEF k
<1>6. call'[c] = k
  BY <1>4, <1>5, CallTyped DEF Inv
<1>7. Attempted(b) = {} /\ accepted[b] = {} /\ \A t \in Txs : sends[b][t] = 0
  BY <1>1, <1>2, <1>3 DEF CallInv, BatchInv, Attempted, Inv, TypeOK
<1>8. Cardinality({}) = 0
  BY FS_EmptySet
<1>9. UNCHANGED <<batch, tx, processing, sends, accepted>>
  BY DEF ProcessLoad, rows, sent
<1>10. /\ Attempted(b)' = {} /\ Attempted(b) \ accepted[b] = {}
       /\ \A t \in Pending(b) : sends[b][t] = 0 /\ tx[b][t] # "none"
  BY <1>7, <1>9 DEF Attempted, Pending
<1>11. /\ batch[b] # NoBatch /\ batch[b].status \in {"processing", "cancelled"}
       /\ b \in processing
  BY <1>1, <1>2, <1>3 DEF CallInv, Claimed, Idle
<1>12. CallInv(c)'
  BY <1>4, <1>6, <1>7, <1>8, <1>9, <1>10, <1>11 DEF CallInv, Claimed, Looping
<1>. QED
  BY <1>1, <1>2, <1>4, <1>5, <1>9, <1>12, MoveOnly DEF rows, sent, Claimed, Idle

\* An UPDATE of the loop fails unnoticed.
LEMMA SkipStep ==
    ASSUME Inv, NEW c \in Calls, ProcessSkip(c)
    PROVE  Inv'
<1>1. call[c] \in AfterSend /\ call[c].at \in {"record", "progress"}
  BY CallShape DEF ProcessSkip, At, Inv
<1>2. PICK b \in Batches : b = call[c].id
  BY <1>1 DEF AfterSend
<1>3. CallInv(c)
  BY DEF Inv
<1>4. UNCHANGED <<batch, tx, processing, sends, accepted>>
  BY DEF ProcessSkip, rows, sent
<1>7. Attempted(b)' = Attempted(b)
  BY <1>4 DEF Attempted
<1>8. /\ batch[b] # NoBatch /\ batch[b].status \in {"processing", "cancelled"}
      /\ b \in processing
      /\ \A t \in call[c].todo : sends[b][t] = 0 /\ tx[b][t] # "none"
      /\ call[c].ok = Cardinality(accepted[b])
      /\ call[c].bad = Cardinality(Attempted(b) \ accepted[b])
  BY <1>1, <1>2, <1>3 DEF CallInv, Claimed, Looping, Idle
<1>5. CASE Proceed(c, "progress")
  <2>. DEFINE k == [call[c] EXCEPT !.at = "progress"]
  <2>1. /\ Enter(c, k) /\ k \in AfterSend /\ k.at = "progress" /\ k.id = b
        /\ k.todo = call[c].todo /\ k.ok = call[c].ok /\ k.bad = call[c].bad
    BY <1>1, <1>2, <1>5, ProceedShape DEF Inv
  <2>. HIDE DEF k
  <2>2. call'[c] = k
    BY <2>1, CallTyped DEF Inv
  <2>3. CallInv(c)'
    BY <1>4, <1>7, <1>8, <2>1, <2>2 DEF CallInv, Claimed, Looping
  <2>. QED  BY <1>1, <1>2, <1>4, <2>1, <2>3, MoveOnly DEF rows, sent, Claimed, Idle
<1>6. CASE NextTx(c)
  <2>. DEFINE k == Loop(b, call[c].todo, call[c].ok, call[c].bad)
  <2>1. /\ k \in Sending /\ k.at = "send" /\ k.id = b
        /\ k.todo = call[c].todo /\ k.ok = call[c].ok /\ k.bad = call[c].bad
    BY <1>1, <1>2 DEF Sending, AfterSend, Loop
  <2>2. Enter(c, k)
    BY <1>2, <1>6 DEF NextTx
  <2>. HIDE DEF k
  <2>3. call'[c] = k
    BY <2>1, <2>2, CallTyped DEF Inv
  <2>4. CallInv(c)'
    BY <1>4, <1>7, <1>8, <2>1, <2>3 DEF CallInv, Claimed, Looping
  <2>. QED  BY <1>1, <1>2, <1>4, <2>1, <2>2, <2>4, MoveOnly DEF rows, sent, Claimed, Idle
<1>. QED  BY <1>5, <1>6 DEF ProcessSkip

\* Cancel reads the batch, and tests the processing map.
LEMMA CancelReads ==
    ASSUME Inv, NEW c \in Calls,
           (\E b \in Batches, u \in Users : CancelGet(c, b, u)) \/ CancelCheck(c)
    PROVE  Inv'
<1>1. ASSUME NEW b \in Batches, NEW u \in Users, CancelGet(c, b, u)
      PROVE  Inv'
  <2>. DEFINE k == [at |-> "check", id |-> b]
  <2>1. k \in InCancel /\ k.at = "check" /\ k.id = b
    BY DEF InCancel
  <2>2. Enter(c, k) /\ batch[b] # NoBatch
    BY <1>1, RowShape DEF CancelGet, Inv
  <2>. HIDE DEF k
  <2>3. call'[c] = k
    BY <2>1, <2>2, CallTyped DEF Inv
  <2>4. CallInv(c)'
    BY <1>1, <2>1, <2>2, <2>3 DEF CallInv, Claimed, Looping, CancelGet, rows
  <2>. QED  BY <1>1, <2>1, <2>2, <2>4, MoveOnly DEF CancelGet, Cancelling
<1>2. ASSUME CancelCheck(c)
      PROVE  Inv'
  <2>1. call[c] \in InCancel /\ call[c].at = "check" /\ CallInv(c)
    BY <1>2, CallShape DEF CancelCheck, At, Inv
  <2>2. CASE Return(c)
    <3>1. call'[c] = Idle
      BY <2>2, CallTyped DEF Return, Inv
    <3>2. CallInv(c)'
      BY <3>1 DEF CallInv, Idle, Claimed, Looping
    <3>. QED  BY <1>2, <2>2, <3>2, MoveOnly DEF Return, CancelCheck
  <2>3. CASE Proceed(c, "cancelBatch")
    <3>. DEFINE k == [call[c] EXCEPT !.at = "cancelBatch"]
    <3>1. Enter(c, k) /\ k \in InCancel /\ k.at = "cancelBatch" /\ k.id = call[c].id
      BY <2>1, <2>3, ProceedShape DEF Inv
    <3>. HIDE DEF k
    <3>2. call'[c] = k
      BY <3>1, CallTyped DEF Inv
    <3>3. CallInv(c)'
      BY <1>2, <2>1, <3>1, <3>2 DEF CallInv, Claimed, Looping, CancelCheck, rows, Idle
    <3>. QED  BY <1>2, <3>1, <3>3, MoveOnly DEF CancelCheck, Cancelling
  <2>. QED  BY <1>2, <2>2, <2>3 DEF CancelCheck
<1>. QED  BY <1>1, <1>2

\* A handler gives up.
LEMMA FailStep ==
    ASSUME Inv, NEW c \in Calls, Fail(c)
    PROVE  Inv'
<1>1. CASE Return(c)
  <2>1. call'[c] = Idle
    BY <1>1, CallTyped DEF Return, Inv
  <2>2. CallInv(c)'
    BY <2>1 DEF CallInv, Idle, Claimed, Looping
  <2>. QED  BY <1>1, <2>2, MoveOnly DEF Return, Fail
<1>2. CASE ToRelease(c) /\ call[c].at \in {"get", "mark", "load", "send"}
  <2>. DEFINE k == [at |-> "release", id |-> call[c].id]
  <2>1. call[c] # Idle /\ call[c].id \in Batches /\ CallInv(c)
    BY <1>2, CallShape DEF Inv
  <2>2. Enter(c, k) /\ k \in Simple /\ k.at = "release" /\ k.id = call[c].id
    BY <1>2, <2>1 DEF ToRelease, Simple
  <2>. HIDE DEF k
  <2>3. call'[c] = k
    BY <2>2, CallTyped DEF Inv
  <2>4. CallInv(c)'
    BY <1>2, <2>1, <2>2, <2>3 DEF CallInv, Claimed, Looping, Fail
  <2>. QED  BY <1>2, <2>1, <2>2, <2>4, MoveOnly DEF Claimed, Fail
<1>. QED  BY <1>1, <1>2 DEF Fail, At

-----------------------------------------------------------------------------
(* The steps that claim, release or write *)

\* A handler outside Process, next to a step on its batch.
LEMMA OutsideKept ==
    ASSUME Inv, NEW d \in Calls, call'[d] = call[d], call[d] # Idle,
           call[d].at \notin Claimed, NEW b \in Batches, b = call[d].id,
           batch'[b] # NoBatch,
           call[d].at = "insert" => \A t \in call[d].todo : tx'[b][t] = "none"
    PROVE  CallInv(d)'
BY DEF CallInv, Claimed, Looping

\* What the handler inside Process knows, and who else may be at its batch.
LEMMA LoopFacts ==
    ASSUME Inv, NEW c \in Calls, NEW b \in Batches, call[c].id = b,
           call[c].at \in {"mark", "load"} \cup Looping
    PROVE  /\ call[c] # Idle /\ call[c].at \in Claimed
           /\ batch[b] # NoBatch /\ batch[b] \in BatchRow /\ b \in processing
           /\ call[c].at \in {"load"} \cup Looping =>
                 batch[b].status \in {"processing", "cancelled"}
           /\ call[c].at \in {"mark", "load"} => Attempted(b) = {}
           /\ call[c].at \in Looping =>
                 /\ \A t \in call[c].todo : sends[b][t] = 0 /\ tx[b][t] # "none"
                 /\ call[c].ok = Cardinality(accepted[b])
                 /\ call[c].bad = Cardinality(Attempted(b) \ accepted[b])
           /\ call[c].at = "record" =>
                 /\ call[c].cur \in Attempted(b) /\ tx[b][call[c].cur] # "none"
                 /\ call[c].cur \in accepted[b] <=> ~call[c].err
           /\ \A d \in Calls : d # c /\ call[d] # Idle /\ call[d].id = b =>
                 /\ call[d].at \notin Claimed
                 /\ call[d].at = "insert" => \A t \in call[d].todo : tx[b][t] = "none"
<1>1. CallInv(c) /\ call[c] # Idle /\ call[c].at \in Claimed
  BY DEF Inv, Claimed, Looping, Idle
<1>2. batch[b] # NoBatch /\ batch[b] \in BatchRow
  BY <1>1, RowShape DEF CallInv, Looping, Inv
<1>3. \A d \in Calls : d # c /\ call[d] # Idle /\ call[d].id = b =>
         /\ call[d].at \notin Claimed
         /\ call[d].at = "insert" => \A t \in call[d].todo : tx[b][t] = "none"
  BY <1>1 DEF Inv, Apart, CallInv
<1>. QED  BY <1>1, <1>2, <1>3 DEF CallInv, Looping

\* Process claims a batch nobody has claimed.
LEMMA ClaimStep ==
    ASSUME Inv, NEW c \in Calls, NEW b \in Batches, ProcessClaim(c, b)
    PROVE  Inv'
<1>. DEFINE k == [at |-> "get", id |-> b]
<1>1. k \in Simple /\ k.at = "get" /\ k.id = b /\ Enter(c, k)
  BY DEF Simple, ProcessClaim
<1>. HIDE DEF k
<1>2. /\ call' \in [Calls -> CallState \cup {Idle}] /\ call'[c] = k
      /\ \A d \in Calls : d # c => call'[d] = call[d]
  BY <1>1, CallTyped DEF Inv
<1>3. /\ UNCHANGED <<batch, tx, sends, accepted>>
      /\ processing' = processing \cup {b} /\ b \notin processing
  BY DEF ProcessClaim, rows, sent
<1>4. TypeOK'
  BY <1>2, <1>3 DEF Inv, TypeOK
<1>5. \A a \in Batches : BatchInv(a)'
  BY <1>3, BatchKept
<1>6. CallInv(c)'
  BY <1>1, <1>2, <1>3 DEF CallInv, Claimed, Looping
<1>7. \A d \in Calls : d # c => CallInv(d)'
  BY <1>2, <1>3, CallKept
<1>8. \A d \in Calls : call[d] # Idle /\ call[d].id = b => call[d].at \notin Claimed
  BY <1>3 DEF Inv, CallInv
<1>9. \A d, e \in Calls : Apart(d, e)'
  BY <1>1, <1>2, <1>8 DEF Inv, Apart
<1>. QED  BY <1>4, <1>5, <1>6, <1>7, <1>9 DEF Inv

\* The deferred delete: no other handler relied on the claim.
LEMMA ReleaseStep ==
    ASSUME Inv, NEW c \in Calls, ProcessRelease(c)
    PROVE  Inv'
<1>1. call[c] \in Simple /\ call[c].at = "release" /\ call[c] # Idle
  BY CallShape DEF ProcessRelease, At, Inv, Idle
<1>2. PICK b \in Batches : b = call[c].id
  BY <1>1 DEF Simple
<1>3. /\ call' \in [Calls -> CallState \cup {Idle}] /\ call'[c] = Idle
      /\ \A d \in Calls : d # c => call'[d] = call[d]
  BY CallTyped DEF Inv, ProcessRelease, Return
<1>4. UNCHANGED <<batch, tx, sends, accepted>> /\ processing' = processing \ {b}
  BY <1>2 DEF ProcessRelease, rows, sent
<1>5. TypeOK'
  BY <1>3, <1>4 DEF Inv, TypeOK
<1>6. \A a \in Batches : BatchInv(a)'
  BY <1>4, BatchKept
<1>7. ASSUME NEW d \in Calls
      PROVE  CallInv(d)'
  <2>1. CASE call'[d] = Idle
    BY <2>1 DEF CallInv, Idle, Claimed, Looping
  <2>2. CASE call'[d] # Idle /\ call[d].id # b
    <3>1. d # c /\ call'[d] = call[d]
      BY <1>3, <2>2
    <3>2. call[d].id \in processing => call[d].id \in processing'
      BY <1>4, <2>2
    <3>. QED  BY <1>4, <3>1, <3>2, CallKept
  <2>3. CASE call'[d] # Idle /\ call[d].id = b
    <3>1. d # c /\ call'[d] = call[d] /\ call[d].at \notin Claimed /\ CallInv(d)
      BY <1>1, <1>2, <1>3, <2>3 DEF Inv, Apart, Claimed
    <3>2. /\ batch'[b] # NoBatch
          /\ call[d].at = "insert" => \A t \in call[d].todo : tx'[b][t] = "none"
      BY <1>4, <2>3, <3>1 DEF CallInv, Claimed
    <3>. QED  BY <2>3, <3>1, <3>2, OutsideKept
  <2>. QED  BY <2>1, <2>2, <2>3
<1>8. \A d, e \in Calls : Apart(d, e)'
  BY <1>3, AloneKept
<1>. QED  BY <1>5, <1>6, <1>7, <1>8 DEF Inv

\* Create inserts the row of a new batch.
LEMMA CreateBatchStep ==
    ASSUME Inv, NEW c \in Calls, NEW b \in Batches, CreateBatch(c, b)
    PROVE  Inv'
<1>1. PICK S \in SUBSET Txs, u \in Users :
         /\ Cardinality(S) \in 1..MaxBatchSize
         /\ batch' = [batch EXCEPT ![b] = [status |-> "pending", user |-> u,
                                           count |-> Cardinality(S), processed |-> 0]]
         /\ Enter(c, [at |-> "insert", id |-> b, todo |-> S])
  BY DEF CreateBatch
<1>. DEFINE k == [at |-> "insert", id |-> b, todo |-> S]
<1>2. k \in Inserting /\ k.at = "insert" /\ k.id = b /\ k.todo = S /\ Enter(c, k)
  BY <1>1 DEF Inserting
<1>. HIDE DEF k
<1>3. /\ call' \in [Calls -> CallState \cup {Idle}] /\ call'[c] = k
      /\ \A d \in Calls : d # c => call'[d] = call[d]
  BY <1>2, CallTyped DEF Inv
<1>4. UNCHANGED <<tx, processing, sends, accepted>> /\ batch[b] = NoBatch
  BY DEF CreateBatch, sent
<1>5. /\ batch' \in [Batches -> BatchRow \cup {NoBatch}]
      /\ \A a \in Batches : a # b => batch'[a] = batch[a]
      /\ batch'[b].status = "pending" /\ batch'[b].processed = 0 /\ batch'[b] # NoBatch
  <2>1. [status |-> "pending", user |-> u, count |-> Cardinality(S), processed |-> 0]
           \in BatchRow
    BY <1>1 DEF BatchRow, BatchStatus
  <2>. QED  BY <1>1, <2>1 DEF Inv, TypeOK, NoBatch
<1>6. TypeOK'
  BY <1>3, <1>4, <1>5 DEF Inv, TypeOK
<1>7. /\ Attempted(b) = {} /\ Attempted(b)' = {}
      /\ \A t \in Txs : tx[b][t] = "none"
  BY <1>4, RowShape DEF Inv, BatchInv, Attempted
<1>8. BatchInv(b)'
  <2>1. Cardinality({}) = 0
    BY FS_EmptySet
  <2>. QED  BY <1>4, <1>5, <1>7, <2>1 DEF BatchInv, Inv
<1>9. CallInv(c)'
  BY <1>2, <1>3, <1>4, <1>5, <1>7 DEF CallInv, Claimed, Looping
<1>10. \A d \in Calls : call[d] # Idle /\ call[d].id = b => call[d].at \in {"get", "release"}
  BY <1>4 DEF Inv, CallInv
<1>11. \A d \in Calls : d # c /\ call[d] # Idle /\ call[d].id = b => CallInv(d)'
  BY <1>3, <1>4, <1>10 DEF Inv, CallInv, Looping, Claimed
<1>12. \A d, e \in Calls : Apart(d, e)'
  BY <1>2, <1>3, <1>10 DEF Inv, Apart, Claimed
<1>. QED
  BY <1>3, <1>4, <1>5, <1>6, <1>8, <1>9, <1>11, <1>12, WriteOne

\* A crash takes the handlers and the claims away together.
LEMMA CrashStep ==
    ASSUME Inv, Crash
    PROVE  Inv'
<1>1. /\ UNCHANGED <<batch, tx, sends, accepted>> /\ processing' = {}
      /\ call' = [c \in Calls |-> Idle]
  BY DEF Crash, rows, sent
<1>2. TypeOK'
  BY <1>1 DEF Inv, TypeOK
<1>3. \A a \in Batches : BatchInv(a)'
  BY <1>1, BatchKept
<1>4. \A c \in Calls : CallInv(c)'
  BY <1>1 DEF CallInv, Idle, Claimed, Looping
<1>5. \A d, e \in Calls : Apart(d, e)'
  BY <1>1 DEF Apart
<1>. QED  BY <1>2, <1>3, <1>4, <1>5 DEF Inv

\* Create inserts the row of one more transaction.
LEMMA CreateTxStep ==
    ASSUME Inv, NEW c \in Calls, NEW t \in Txs, CreateTx(c, t)
    PROVE  Inv'
<1>1. call[c] \in Inserting /\ call[c].at = "insert" /\ t \in call[c].todo /\ call[c] # Idle
  BY CallShape DEF CreateTx, At, Inv, Idle
<1>2. PICK b \in Batches : b = call[c].id
  BY <1>1 DEF Inserting
<1>3. CallInv(c) /\ BatchInv(b) /\ batch[b] # NoBatch
  BY <1>1, <1>2 DEF Inv, CallInv
<1>4. /\ UNCHANGED <<batch, processing, sends, accepted>>
      /\ tx' = [tx EXCEPT ![b][t] = "pending"]
  BY <1>2 DEF CreateTx, sent
<1>5. tx[b][t] = "none"
  BY <1>1, <1>2, <1>3 DEF CallInv
<1>6. PICK k : /\ Enter(c, k) /\ k \in Inserting \cup {Idle}
               /\ k # Idle => k.at = "insert" /\ k.id = b /\ k.todo = call[c].todo \ {t}
  <2>1. CASE Return(c)
    BY <2>1 DEF Return
  <2>2. CASE call' = [call EXCEPT ![c].todo = @ \ {t}]
    <3>. DEFINE l == [call[c] EXCEPT !.todo = @ \ {t}]
    <3>1. l \in Inserting /\ l.at = "insert" /\ l.id = b /\ l.todo = call[c].todo \ {t}
      BY <1>1, <1>2 DEF Inserting
    <3>2. Enter(c, l)
      BY <2>2 DEF Enter
    <3>. QED  BY <3>1, <3>2
  <2>. QED  BY <2>1, <2>2 DEF CreateTx
<1>7. /\ call' \in [Calls -> CallState \cup {Idle}] /\ call'[c] = k
      /\ \A d \in Calls : d # c => call'[d] = call[d]
  BY <1>6, CallTyped DEF Inv
<1>8. /\ tx' \in [Batches -> [Txs -> TxStatus]]
      /\ \A a \in Batches : a # b => tx'[a] = tx[a]
      /\ tx'[b][t] = "pending" /\ \A s \in Txs : s # t => tx'[b][s] = tx[b][s]
  BY <1>4 DEF Inv, TypeOK, TxStatus
<1>9. TypeOK'
  BY <1>4, <1>7, <1>8 DEF Inv, TypeOK
<1>10. Attempted(b)' = Attempted(b)
  BY <1>4 DEF Attempted
<1>11. BatchInv(b)'
  BY <1>3, <1>4, <1>5, <1>8, <1>10 DEF BatchInv
<1>12. CallInv(c)'
  BY <1>1, <1>2, <1>3, <1>4, <1>6, <1>7, <1>8 DEF CallInv, Idle, Inserting, Claimed, Looping
<1>13. ASSUME NEW d \in Calls, d # c, call[d] # Idle, call[d].id = b
       PROVE  CallInv(d)'
  <2>1. call[d].at # "insert" /\ CallInv(d)
    BY <1>1, <1>2, <1>13 DEF Inv, Apart
  <2>2. call'[d] = call[d]
    BY <1>7, <1>13
  <2>. QED  BY <1>4, <1>8, <1>10, <1>13, <2>1, <2>2, CallShape DEF CallInv, Looping, Inv, Sending, AfterSend
<1>14. \A d, e \in Calls : Apart(d, e)'
  BY <1>1, <1>2, <1>6, <1>7, AloneKept DEF Claimed, Inserting
<1>. QED
  BY <1>4, <1>7, <1>8, <1>9, <1>11, <1>12, <1>13, <1>14, WriteOne

\* A step of the handler inside Process that writes to its batch.
LEMMA ProcessWrites ==
    ASSUME Inv, NEW c \in Calls, NEW b \in Batches,
           call[c] # Idle, call[c].at \in Claimed, call[c].id = b,
           batch[b] # NoBatch, batch'[b] # NoBatch,
           NEW k, Enter(c, k), k \in Simple \cup Sending \cup AfterSend,
           k.id = b, k.at \in Claimed,
           batch' \in [Batches -> BatchRow \cup {NoBatch}],
           tx' \in [Batches -> [Txs -> TxStatus]],
           sends' \in [Batches -> [Txs -> Nat]],
           accepted' \in [Batches -> SUBSET Txs],
           \A a \in Batches : a # b => /\ batch'[a] = batch[a] /\ tx'[a] = tx[a]
                                       /\ sends'[a] = sends[a] /\ accepted'[a] = accepted[a],
           \A t \in Txs : tx[b][t] = "none" => tx'[b][t] = "none",
           processing' = processing,
           BatchInv(b)', call'[c] = k => CallInv(c)'
    PROVE  Inv'
<1>1. /\ call' \in [Calls -> CallState \cup {Idle}] /\ call'[c] = k
      /\ \A d \in Calls : d # c => call'[d] = call[d]
  BY CallTyped DEF Inv
<1>2. TypeOK'
  BY <1>1 DEF Inv, TypeOK
<1>3. ASSUME NEW d \in Calls, d # c, call[d] # Idle, call[d].id = b
      PROVE  CallInv(d)'
  <2>1. call[d].at \notin Claimed /\ CallInv(d)
    BY <1>3 DEF Inv, Apart
  <2>2. call[d].at = "insert" => \A t \in call[d].todo : t \in Txs /\ tx'[b][t] = "none"
    BY <1>3, <2>1, CallShape DEF CallInv, Inserting, Inv
  <2>3. call'[d] = call[d]
    BY <1>1, <1>3
  <2>. QED  BY <1>3, <2>1, <2>2, <2>3, OutsideKept
<1>4. \A d, e \in Calls : Apart(d, e)'
  <2>1. call'[c].at # "insert"
    BY <1>1 DEF Claimed
  <2>. QED  BY <1>1, <2>1, AloneKept
<1>. QED
  BY <1>1, <1>2, <1>3, <1>4, WriteOne

\* SetStatus keeps the type and the rest of the row.
LEMMA StatusSet ==
    ASSUME Inv, NEW b \in Batches, batch[b] \in BatchRow,
           NEW s \in BatchStatus, SetStatus(b, s)
    PROVE  /\ batch' \in [Batches -> BatchRow \cup {NoBatch}] /\ batch'[b] # NoBatch
           /\ batch'[b].status = s /\ batch'[b].processed = batch[b].processed
           /\ batch'[b].count = batch[b].count
           /\ \A a \in Batches : a # b => batch'[a] = batch[a]
<1>. DEFINE r == [batch[b] EXCEPT !.status = s]
<1>1. r \in BatchRow /\ r.status = s /\ r.processed = batch[b].processed
      /\ r.count = batch[b].count /\ r # NoBatch
  BY DEF BatchRow, NoBatch
<1>2. batch' = [batch EXCEPT ![b] = r]
  BY DEF SetStatus
<1>. HIDE DEF r
<1>. QED  BY <1>1, <1>2 DEF Inv, TypeOK

\* Process marks the batch: nothing of it was sent so far.
LEMMA MarkStep ==
    ASSUME Inv, NEW c \in Calls, ProcessMark(c)
    PROVE  Inv'
<1>1. call[c] \in Simple /\ call[c].at = "mark"
  BY CallShape DEF ProcessMark, At, Inv
<1>2. PICK b \in Batches : b = call[c].id
  BY <1>1 DEF Simple
<1>3. /\ batch[b] \in BatchRow /\ batch[b] # NoBatch /\ b \in processing
      /\ Attempted(b) = {} /\ call[c] # Idle
  BY <1>1, <1>2, LoopFacts
<1>4. UNCHANGED <<tx, processing, sends, accepted>> /\ SetStatus(b, "processing")
  BY <1>2 DEF ProcessMark, sent
<1>5. /\ batch' \in [Batches -> BatchRow \cup {NoBatch}] /\ batch'[b] # NoBatch
      /\ batch'[b].status = "processing" /\ batch'[b].processed = batch[b].processed
      /\ \A a \in Batches : a # b => batch'[a] = batch[a]
  BY <1>3, <1>4, StatusSet DEF BatchStatus
<1>. DEFINE k == [call[c] EXCEPT !.at = "load"]
<1>6. Enter(c, k) /\ k \in Simple /\ k.at = "load" /\ k.id = b
  BY <1>1, <1>2, ProceedShape DEF ProcessMark, Inv
<1>. HIDE DEF k
<1>7. Attempted(b)' = Attempted(b)
  BY <1>4 DEF Attempted
<1>8. BatchInv(b)
  BY DEF Inv
<1>9. BatchInv(b)'
  BY <1>3, <1>4, <1>5, <1>7, <1>8 DEF BatchInv
<1>10. call'[c] = k => CallInv(c)'
  BY <1>3, <1>4, <1>5, <1>6, <1>7 DEF CallInv, Claimed, Looping
<1>. QED
  BY <1>1, <1>2, <1>3, <1>4, <1>5, <1>6, <1>9, <1>10, ProcessWrites
     DEF Claimed, Inv, TypeOK

\* Counting the transactions sent.
LEMMA SendCounts ==
    ASSUME NEW A \in SUBSET Txs, NEW S \in SUBSET Txs, NEW t \in Txs, t \notin S, A \subseteq S
    PROVE  /\ Cardinality(A) \in Nat /\ Cardinality(S) \in Nat /\ Cardinality(S \ A) \in Nat
           /\ Cardinality(A \cup {t}) = Cardinality(A) + 1
           /\ Cardinality(S \cup {t}) = Cardinality(S) + 1
           /\ Cardinality((S \cup {t}) \ A) = Cardinality(S \ A) + 1
           /\ (S \cup {t}) \ (A \cup {t}) = S \ A
<1>1. IsFiniteSet(A) /\ IsFiniteSet(S) /\ IsFiniteSet(S \ A)
  BY ConstantsOK, FS_Subset
<1>2. (S \cup {t}) \ A = (S \ A) \cup {t} /\ t \notin A /\ t \notin S \ A
  OBVIOUS
<1>3. (S \cup {t}) \ (A \cup {t}) = S \ A
  OBVIOUS
<1>4. Cardinality(A) \in Nat /\ Cardinality(S) \in Nat /\ Cardinality(S \ A) \in Nat
  BY <1>1, FS_CardinalityType
<1>5. Cardinality(A \cup {t}) = Cardinality(A) + 1
  BY <1>1, <1>2, FS_AddElement
<1>6. Cardinality(S \cup {t}) = Cardinality(S) + 1
  BY <1>1, FS_AddElement
<1>7. Cardinality((S \ A) \cup {t}) = Cardinality(S \ A) + 1
  BY <1>1, <1>2, FS_AddElement
<1>. QED  BY <1>2, <1>3, <1>4, <1>5, <1>6, <1>7

\* Accepted and refused add up to attempted.
LEMMA PartsAddUp ==
    ASSUME NEW S \in SUBSET Txs, NEW A \in SUBSET S
    PROVE  /\ Cardinality(A) \in Nat /\ Cardinality(S \ A) \in Nat
           /\ Cardinality(A) + Cardinality(S \ A) = Cardinality(S)
           /\ Cardinality(A) = 0 <=> A = {}
           /\ Cardinality(S \ A) = 0 <=> S \ A = {}
<1>1. IsFiniteSet(A) /\ IsFiniteSet(S) /\ IsFiniteSet(S \ A)
  BY ConstantsOK, FS_Subset
<1>2. Cardinality(S \ A) = Cardinality(S) - Cardinality(S \cap A)
  BY <1>1, FS_Difference
<1>3. S \cap A = A
  OBVIOUS
<1>4. Cardinality(A) \in Nat /\ Cardinality(S) \in Nat /\ Cardinality(S \ A) \in Nat
  BY <1>1, FS_CardinalityType
<1>5. Cardinality(A) + Cardinality(S \ A) = Cardinality(S)
  BY <1>2, <1>3, <1>4
<1>. QED  BY <1>1, <1>4, <1>5, FS_EmptySet

\* Process sends one transaction: it was never sent before.
LEMMA SendStep ==
    ASSUME Inv, NEW c \in Calls, NEW t \in Txs, ProcessSend(c, t)
    PROVE  Inv'
<1>1. call[c] \in Sending /\ call[c].at = "send" /\ t \in call[c].todo
  BY CallShape DEF ProcessSend, At, Inv
<1>2. PICK b \in Batches : b = call[c].id
  BY <1>1 DEF Sending
<1>3. PICK err \in BOOLEAN :
        /\ Enter(c, [at |-> "record", id |-> b, todo |-> call[c].todo \ {t},
                     ok |-> call[c].ok + (IF err THEN 0 ELSE 1),
                     bad |-> call[c].bad + (IF err THEN 1 ELSE 0),
                     cur |-> t, err |-> err])
        /\ accepted' = [accepted EXCEPT ![b] = IF err THEN @ ELSE @ \cup {t}]
  BY <1>2 DEF ProcessSend
<1>. DEFINE k == [at |-> "record", id |-> b, todo |-> call[c].todo \ {t},
                  ok |-> call[c].ok + (IF err THEN 0 ELSE 1),
                  bad |-> call[c].bad + (IF err THEN 1 ELSE 0),
                  cur |-> t, err |-> err]
<1>4. /\ Enter(c, k) /\ k \in AfterSend /\ k.at = "record" /\ k.id = b
      /\ k.todo = call[c].todo \ {t} /\ k.cur = t /\ k.err = err
      /\ k.ok = call[c].ok + (IF err THEN 0 ELSE 1)
      /\ k.bad = call[c].bad + (IF err THEN 1 ELSE 0)
  BY <1>1, <1>3 DEF AfterSend, Sending
<1>. HIDE DEF k
<1>5. /\ UNCHANGED <<batch, tx, processing>>
      /\ sends' = [sends EXCEPT ![b][t] = @ + 1]
  BY <1>2 DEF ProcessSend, rows
<1>6. /\ call[c] # Idle /\ batch[b] # NoBatch /\ batch[b] \in BatchRow /\ b \in processing
      /\ batch[b].status \in {"processing", "cancelled"}
      /\ \A s \in call[c].todo : sends[b][s] = 0 /\ tx[b][s] # "none"
      /\ call[c].ok = Cardinality(accepted[b])
      /\ call[c].bad = Cardinality(Attempted(b) \ accepted[b])
  BY <1>1, <1>2, LoopFacts DEF Looping
<1>7. /\ sends' \in [Batches -> [Txs -> Nat]]
      /\ \A a \in Batches : a # b => sends'[a] = sends[a]
      /\ sends'[b][t] = 1 /\ \A s \in Txs : s # t => sends'[b][s] = sends[b][s]
  BY <1>1, <1>5, <1>6 DEF Inv, TypeOK
<1>8. /\ accepted' \in [Batches -> SUBSET Txs]
      /\ \A a \in Batches : a # b => accepted'[a] = accepted[a]
      /\ accepted'[b] = IF err THEN accepted[b] ELSE accepted[b] \cup {t}
  BY <1>3 DEF Inv, TypeOK
<1>9. Attempted(b)' = Attempted(b) \cup {t} /\ t \notin Attempted(b)
  BY <1>1, <1>6, <1>7 DEF Attempted
<1>10. BatchInv(b)
  BY DEF Inv
<1>11. /\ Attempted(b) \in SUBSET Txs /\ accepted[b] \in SUBSET Txs
       /\ accepted[b] \subseteq Attempted(b)
  BY <1>10 DEF BatchInv, Attempted, Inv, TypeOK
<1>12. /\ Cardinality(accepted[b]) \in Nat /\ Cardinality(Attempted(b)) \in Nat
       /\ Cardinality(accepted[b] \cup {t}) = Cardinality(accepted[b]) + 1
       /\ Cardinality(Attempted(b) \cup {t}) = Cardinality(Attempted(b)) + 1
       /\ Cardinality((Attempted(b) \cup {t}) \ accepted[b])
             = Cardinality(Attempted(b) \ accepted[b]) + 1
       /\ Cardinality(Attempted(b) \ accepted[b]) \in Nat
       /\ (Attempted(b) \cup {t}) \ (accepted[b] \cup {t}) = Attempted(b) \ accepted[b]
  <2>. DEFINE S == Attempted(b)
              A == accepted[b]
  <2>1. A \in SUBSET Txs /\ S \in SUBSET Txs /\ t \notin S /\ A \subseteq S
    BY <1>9, <1>11
  <2>. HIDE DEF S, A
  <2>2. /\ Cardinality(A) \in Nat /\ Cardinality(S) \in Nat /\ Cardinality(S \ A) \in Nat
        /\ Cardinality(A \cup {t}) = Cardinality(A) + 1
        /\ Cardinality(S \cup {t}) = Cardinality(S) + 1
        /\ Cardinality((S \cup {t}) \ A) = Cardinality(S \ A) + 1
        /\ (S \cup {t}) \ (A \cup {t}) = S \ A
    BY <2>1, SendCounts
  <2>. QED  BY <2>2 DEF S, A
<1>13. BatchInv(b)'
  <2>1. \A s \in Txs : sends'[b][s] <= 1
    BY <1>7, <1>10 DEF BatchInv
  <2>2. accepted'[b] \subseteq Attempted(b)'
    BY <1>8, <1>9, <1>11
  <2>3. \A s \in Txs :
          /\ tx[b][s] = "submitted" => s \in accepted'[b]
          /\ tx[b][s] = "failed" => s \in Attempted(b)' \ accepted'[b]
          /\ tx[b][s] = "none" => s \notin Attempted(b)'
    BY <1>1, <1>6, <1>8, <1>9, <1>10 DEF BatchInv
  <2>4. batch[b].processed <= Cardinality(Attempted(b)')
    <3>1. batch[b].processed \in Nat /\ batch[b].processed <= Cardinality(Attempted(b))
      BY <1>6, <1>10 DEF BatchInv, BatchRow
    <3>. QED  BY <1>9, <1>12, <3>1
  <2>. QED  BY <1>5, <1>6, <2>1, <2>2, <2>3, <2>4 DEF BatchInv
<1>14. call'[c] = k => CallInv(c)'
  <2>1. \A s \in k.todo : sends'[b][s] = 0 /\ tx[b][s] # "none"
    BY <1>1, <1>4, <1>6, <1>7 DEF Sending
  <2>2. k.ok = Cardinality(accepted'[b])
    BY <1>4, <1>6, <1>8, <1>12
  <2>3. k.bad = Cardinality(Attempted(b)' \ accepted'[b])
    <3>1. CASE err
      <4>1. /\ k.bad = call[c].bad + 1
            /\ Attempted(b)' \ accepted'[b] = (Attempted(b) \cup {t}) \ accepted[b]
        BY <1>4, <1>8, <1>9, <3>1
      <4>2. Cardinality(Attempted(b)' \ accepted'[b])
               = Cardinality((Attempted(b) \cup {t}) \ accepted[b])
        BY <4>1, Zenon
      <4>. QED  BY <1>6, <1>12, <4>1, <4>2
    <3>2. CASE ~err
      <4>1. /\ k.bad = call[c].bad + 0
            /\ Attempted(b)' \ accepted'[b] = (Attempted(b) \cup {t}) \ (accepted[b] \cup {t})
        BY <1>4, <1>8, <1>9, <3>2
      <4>2. Cardinality(Attempted(b)' \ accepted'[b]) = Cardinality(Attempted(b) \ accepted[b])
        BY <1>12, <4>1, Zenon
      <4>. QED  BY <1>6, <1>12, <4>1, <4>2
    <3>. QED  BY <3>1, <3>2
  <2>4. /\ k.cur \in Attempted(b)' /\ tx[b][k.cur] # "none"
        /\ k.cur \in accepted'[b] <=> ~k.err
    BY <1>1, <1>4, <1>6, <1>8, <1>9, <1>11
  <2>. QED
    BY <1>4, <1>5, <1>6, <2>1, <2>2, <2>3, <2>4 DEF CallInv, Claimed, Looping
<1>. QED
  BY <1>1, <1>2, <1>4, <1>5, <1>6, <1>7, <1>8, <1>13, <1>14, ProcessWrites
     DEF Claimed, Inv, TypeOK

\* Process stores what Send returned.
LEMMA RecordStep ==
    ASSUME Inv, NEW c \in Calls, ProcessRecord(c)
    PROVE  Inv'
<1>1. call[c] \in AfterSend /\ call[c].at = "record"
  BY CallShape DEF ProcessRecord, At, Inv
<1>2. PICK b \in Batches : b = call[c].id
  BY <1>1 DEF AfterSend
<1>3. PICK t \in Txs : t = call[c].cur
  BY <1>1 DEF AfterSend
<1>. DEFINE verdict == IF call[c].err THEN "failed" ELSE "submitted"
<1>4. /\ UNCHANGED <<batch, processing, sends, accepted>>
      /\ tx' = [tx EXCEPT ![b][t] = verdict]
  BY <1>2, <1>3 DEF ProcessRecord, sent
<1>5. verdict \in TxStatus \ {"none"}
  BY DEF TxStatus
<1>. DEFINE k == [call[c] EXCEPT !.at = "progress"]
<1>6. /\ Enter(c, k) /\ k \in AfterSend /\ k.at = "progress" /\ k.id = b
      /\ k.todo = call[c].todo /\ k.ok = call[c].ok /\ k.bad = call[c].bad
  BY <1>1, <1>2, ProceedShape DEF ProcessRecord, Inv
<1>. HIDE DEF k
<1>7. /\ call[c] # Idle /\ batch[b] # NoBatch /\ b \in processing
      /\ batch[b].status \in {"processing", "cancelled"}
      /\ \A s \in call[c].todo : sends[b][s] = 0 /\ tx[b][s] # "none"
      /\ call[c].ok = Cardinality(accepted[b])
      /\ call[c].bad = Cardinality(Attempted(b) \ accepted[b])
      /\ t \in Attempted(b) /\ tx[b][t] # "none" /\ (t \in accepted[b] <=> ~call[c].err)
  BY <1>1, <1>2, <1>3, LoopFacts DEF Looping
<1>8. /\ tx' \in [Batches -> [Txs -> TxStatus]]
      /\ \A a \in Batches : a # b => tx'[a] = tx[a]
      /\ tx'[b][t] = verdict /\ \A s \in Txs : s # t => tx'[b][s] = tx[b][s]
  BY <1>4, <1>5 DEF Inv, TypeOK
<1>9. Attempted(b)' = Attempted(b)
  BY <1>4 DEF Attempted
<1>10. BatchInv(b)
  BY DEF Inv
<1>11. \A s \in Txs :
          /\ tx'[b][s] = "submitted" => s \in accepted[b]
          /\ tx'[b][s] = "failed" => s \in Attempted(b) \ accepted[b]
          /\ tx'[b][s] = "none" => s \notin Attempted(b)
  BY <1>5, <1>7, <1>8, <1>10 DEF BatchInv
<1>12. BatchInv(b)'
  BY <1>4, <1>7, <1>9, <1>10, <1>11 DEF BatchInv
<1>13. \A s \in Txs : tx'[b][s] = "none" <=> tx[b][s] = "none"
  BY <1>5, <1>7, <1>8
<1>14. \A s \in k.todo : sends'[b][s] = 0 /\ tx'[b][s] # "none"
  BY <1>1, <1>4, <1>6, <1>7, <1>13 DEF AfterSend
<1>15. call'[c] = k => CallInv(c)'
  BY <1>4, <1>6, <1>7, <1>9, <1>14 DEF CallInv, Claimed, Looping
<1>16. /\ call[c].at \in Claimed /\ k.at \in Claimed /\ k \in Simple \cup Sending \cup AfterSend
       /\ batch'[b] # NoBatch /\ processing' = processing
       /\ batch' \in [Batches -> BatchRow \cup {NoBatch}]
       /\ sends' \in [Batches -> [Txs -> Nat]] /\ accepted' \in [Batches -> SUBSET Txs]
  BY <1>1, <1>4, <1>6, <1>7 DEF Claimed, Inv, TypeOK
<1>17. \A a \in Batches : a # b => /\ batch'[a] = batch[a] /\ tx'[a] = tx[a]
                                  /\ sends'[a] = sends[a] /\ accepted'[a] = accepted[a]
  BY <1>4, <1>8
<1>. QED
  BY <1>2, <1>6, <1>7, <1>8, <1>12, <1>13, <1>15, <1>16, <1>17, ProcessWrites

\* Process stores the progress: what it counted is what was sent.
LEMMA ProgressStep ==
    ASSUME Inv, NEW c \in Calls, ProcessProgress(c)
    PROVE  Inv'
<1>1. call[c] \in AfterSend /\ call[c].at = "progress"
  BY CallShape DEF ProcessProgress, At, Inv
<1>2. PICK b \in Batches : b = call[c].id
  BY <1>1 DEF AfterSend
<1>. DEFINE n == call[c].ok + call[c].bad
            k == Loop(b, call[c].todo, call[c].ok, call[c].bad)
<1>3. /\ UNCHANGED <<tx, processing, sends, accepted>>
      /\ batch' = [batch EXCEPT ![b].processed = n]
  BY <1>2 DEF ProcessProgress, sent
<1>4. /\ Enter(c, k) /\ k \in Sending /\ k.at = "send" /\ k.id = b
      /\ k.todo = call[c].todo /\ k.ok = call[c].ok /\ k.bad = call[c].bad
  BY <1>1, <1>2 DEF Sending, AfterSend, Loop, NextTx, ProcessProgress
<1>. HIDE DEF k
<1>5. /\ call[c] # Idle /\ batch[b] # NoBatch /\ batch[b] \in BatchRow /\ b \in processing
      /\ batch[b].status \in {"processing", "cancelled"}
      /\ \A s \in call[c].todo : sends[b][s] = 0 /\ tx[b][s] # "none"
      /\ call[c].ok = Cardinality(accepted[b])
      /\ call[c].bad = Cardinality(Attempted(b) \ accepted[b])
  BY <1>1, <1>2, LoopFacts DEF Looping
<1>6. BatchInv(b)
  BY DEF Inv
<1>7. n \in Nat /\ n = Cardinality(Attempted(b))
  <2>1. Attempted(b) \in SUBSET Txs /\ accepted[b] \in SUBSET Attempted(b)
    BY <1>6 DEF BatchInv, Attempted
  <2>. QED  BY <1>5, <2>1, PartsAddUp
<1>8. /\ batch' \in [Batches -> BatchRow \cup {NoBatch}] /\ batch'[b] # NoBatch
      /\ batch'[b].status = batch[b].status /\ batch'[b].processed = n
      /\ \A a \in Batches : a # b => batch'[a] = batch[a]
  <2>. DEFINE r == [batch[b] EXCEPT !.processed = n]
  <2>1. r \in BatchRow /\ r.status = batch[b].status /\ r.processed = n /\ r # NoBatch
    BY <1>5, <1>7 DEF BatchRow, NoBatch
  <2>2. batch' = [batch EXCEPT ![b] = r]
    BY <1>3
  <2>. HIDE DEF r
  <2>. QED  BY <2>1, <2>2 DEF Inv, TypeOK
<1>. HIDE DEF n
<1>9. Attempted(b)' = Attempted(b)
  BY <1>3 DEF Attempted
<1>10. n <= Cardinality(Attempted(b))
  BY <1>7
<1>11. BatchInv(b)'
  BY <1>3, <1>5, <1>6, <1>8, <1>9, <1>10 DEF BatchInv
<1>12. call'[c] = k => CallInv(c)'
  <2>1. /\ batch'[b] # NoBatch /\ batch'[b].status \in {"processing", "cancelled"}
        /\ b \in processing' /\ \A s \in k.todo : sends'[b][s] = 0 /\ tx'[b][s] # "none"
    BY <1>3, <1>4, <1>5, <1>8
  <2>2. k.ok = Cardinality(accepted'[b]) /\ k.bad = Cardinality(Attempted(b)' \ accepted'[b])
    BY <1>3, <1>4, <1>5, <1>9
  <2>. QED  BY <1>4, <2>1, <2>2 DEF CallInv, Claimed, Looping
<1>. QED
  BY <1>1, <1>2, <1>3, <1>4, <1>5, <1>8, <1>11, <1>12, ProcessWrites
     DEF Claimed, Inv, TypeOK

\* Process stores the final status, from counts that are exact.
LEMMA FinishStep ==
    ASSUME Inv, NEW c \in Calls, ProcessFinish(c)
    PROVE  Inv'
<1>1. call[c] \in Sending /\ call[c].at = "send" /\ call[c].todo = {}
  BY CallShape DEF ProcessFinish, At, Inv
<1>2. PICK b \in Batches : b = call[c].id
  BY <1>1 DEF Sending
<1>. DEFINE s == FinalStatus(call[c].ok, call[c].bad)
            k == [at |-> "release", id |-> b]
<1>3. UNCHANGED <<tx, processing, sends, accepted>> /\ SetStatus(b, s)
  BY <1>2 DEF ProcessFinish, sent
<1>4. Enter(c, k) /\ k \in Simple /\ k.at = "release" /\ k.id = b
  BY <1>2 DEF Simple, ToRelease, ProcessFinish
<1>. HIDE DEF k
<1>5. /\ call[c] # Idle /\ batch[b] # NoBatch /\ batch[b] \in BatchRow /\ b \in processing
      /\ batch[b].status \in {"processing", "cancelled"}
      /\ call[c].ok = Cardinality(accepted[b])
      /\ call[c].bad = Cardinality(Attempted(b) \ accepted[b])
  BY <1>1, <1>2, LoopFacts DEF Looping
<1>6. BatchInv(b)
  BY DEF Inv
<1>7. Attempted(b) \in SUBSET Txs /\ accepted[b] \in SUBSET Attempted(b)
  BY <1>6 DEF BatchInv, Attempted
<1>8. /\ call[c].ok = 0 <=> accepted[b] = {}
      /\ call[c].bad = 0 <=> Attempted(b) \ accepted[b] = {}
  BY <1>5, <1>7, PartsAddUp
<1>9. /\ s \in {"completed", "failed", "partial"}
      /\ s = "completed" => Attempted(b) = accepted[b]
      /\ s = "failed" => accepted[b] = {} /\ Attempted(b) # {}
      /\ s = "partial" => accepted[b] # {} /\ accepted[b] # Attempted(b)
  BY <1>7, <1>8 DEF FinalStatus
<1>. HIDE DEF s
<1>10. /\ batch' \in [Batches -> BatchRow \cup {NoBatch}] /\ batch'[b] # NoBatch
       /\ batch'[b].status = s /\ batch'[b].processed = batch[b].processed
       /\ \A a \in Batches : a # b => batch'[a] = batch[a]
  <2>1. s \in BatchStatus
    BY <1>9 DEF BatchStatus
  <2>. QED  BY <1>3, <1>5, <2>1, StatusSet
<1>11. Attempted(b)' = Attempted(b)
  BY <1>3 DEF Attempted
<1>12. BatchInv(b)'
  BY <1>3, <1>5, <1>6, <1>9, <1>10, <1>11 DEF BatchInv
<1>13. call'[c] = k => CallInv(c)'
  BY <1>3, <1>4, <1>5 DEF CallInv, Claimed, Looping
<1>. QED
  BY <1>1, <1>2, <1>3, <1>4, <1>5, <1>10, <1>12, <1>13, ProcessWrites
     DEF Claimed, Inv, TypeOK

\* Cancel marks the batch, whatever Process is doing with it by now.
LEMMA CancelBatchStep ==
    ASSUME Inv, NEW c \in Calls, CancelBatch(c)
    PROVE  Inv'
<1>1. call[c] \in InCancel /\ call[c].at = "cancelBatch" /\ call[c] # Idle
  BY CallShape DEF CancelBatch, At, Inv, Idle
<1>2. PICK b \in Batches : b = call[c].id
  BY <1>1 DEF InCancel
<1>3. BatchInv(b) /\ batch[b] # NoBatch /\ batch[b] \in BatchRow
  BY <1>1, <1>2, RowShape DEF Inv, CallInv
<1>4. UNCHANGED <<tx, processing, sends, accepted>> /\ SetStatus(b, "cancelled")
  BY <1>2 DEF CancelBatch, sent
<1>5. /\ batch' \in [Batches -> BatchRow \cup {NoBatch}] /\ batch'[b] # NoBatch
      /\ batch'[b].status = "cancelled" /\ batch'[b].processed = batch[b].processed
      /\ \A a \in Batches : a # b => batch'[a] = batch[a]
  BY <1>3, <1>4, StatusSet DEF BatchStatus
<1>. DEFINE k == [call[c] EXCEPT !.at = "cancelTxs"]
<1>6. Enter(c, k) /\ k \in InCancel /\ k.at = "cancelTxs" /\ k.id = b
  BY <1>1, <1>2, ProceedShape DEF CancelBatch, Inv
<1>. HIDE DEF k
<1>7. /\ call' \in [Calls -> CallState \cup {Idle}] /\ call'[c] = k
      /\ \A d \in Calls : d # c => call'[d] = call[d]
  BY <1>6, CallTyped DEF Inv
<1>8. TypeOK'
  BY <1>4, <1>5, <1>7 DEF Inv, TypeOK
<1>9. Attempted(b)' = Attempted(b)
  BY <1>4 DEF Attempted
<1>10. BatchInv(b)'
  BY <1>3, <1>4, <1>5, <1>9 DEF BatchInv
<1>11. CallInv(c)'
  BY <1>5, <1>6, <1>7 DEF CallInv, Claimed, Looping
<1>12. ASSUME NEW d \in Calls, d # c, call[d] # Idle, call[d].id = b
       PROVE  CallInv(d)'
  <2>1. CallInv(d) /\ call'[d] = call[d]
    BY <1>7, <1>12 DEF Inv
  <2>. QED  BY <1>4, <1>5, <1>9, <1>12, <2>1 DEF CallInv
<1>13. \A d, e \in Calls : Apart(d, e)'
  BY <1>6, <1>7, AloneKept DEF Cancelling
<1>. QED
  BY <1>4, <1>5, <1>7, <1>8, <1>10, <1>11, <1>12, <1>13, WriteOne

\* Cancel marks the pending transactions; none becomes or ceases to be a row.
LEMMA CancelTxsStep ==
    ASSUME Inv, NEW c \in Calls, CancelTxs(c)
    PROVE  Inv'
<1>1. call[c] \in InCancel /\ call[c].at = "cancelTxs" /\ call[c] # Idle
  BY CallShape DEF CancelTxs, At, Inv, Idle
<1>2. PICK b \in Batches : b = call[c].id
  BY <1>1 DEF InCancel
<1>3. BatchInv(b) /\ batch[b] # NoBatch
  BY <1>1, <1>2, RowShape DEF Inv, CallInv
<1>. DEFINE row == [t \in Txs |-> IF t \in Pending(b) THEN "cancelled" ELSE tx[b][t]]
<1>4. /\ UNCHANGED <<batch, processing, sends, accepted>> /\ Return(c)
      /\ tx' = [tx EXCEPT ![b] = row]
  BY <1>2 DEF CancelTxs, sent
<1>5. /\ row \in [Txs -> TxStatus]
      /\ \A t \in Txs : row[t] = tx[b][t] \/ (tx[b][t] = "pending" /\ row[t] = "cancelled")
  BY DEF Pending, Inv, TypeOK, TxStatus
<1>. HIDE DEF row
<1>6. /\ tx' \in [Batches -> [Txs -> TxStatus]] /\ tx'[b] = row
      /\ \A a \in Batches : a # b => tx'[a] = tx[a]
  BY <1>4, <1>5 DEF Inv, TypeOK
<1>7. /\ call' \in [Calls -> CallState \cup {Idle}] /\ call'[c] = Idle
      /\ \A d \in Calls : d # c => call'[d] = call[d]
  BY <1>4, CallTyped DEF Inv, Return
<1>8. TypeOK'
  BY <1>4, <1>6, <1>7 DEF Inv, TypeOK
<1>9. Attempted(b)' = Attempted(b)
  BY <1>4 DEF Attempted
<1>10. \A t \in Txs :
          /\ tx'[b][t] = "none" <=> tx[b][t] = "none"
          /\ tx'[b][t] \in {"submitted", "failed"} => tx'[b][t] = tx[b][t]
  BY <1>5, <1>6
<1>11. BatchInv(b)'
  BY <1>3, <1>4, <1>9, <1>10 DEF BatchInv
<1>12. CallInv(c)'
  BY <1>7 DEF CallInv, Idle, Claimed, Looping
<1>13. ASSUME NEW d \in Calls, d # c, call[d] # Idle, call[d].id = b
       PROVE  CallInv(d)'
  <2>1. CallInv(d) /\ call'[d] = call[d]
    BY <1>7, <1>13 DEF Inv
  <2>2. /\ call[d].at \in Looping \cup {"insert"} => call[d].todo \subseteq Txs
        /\ call[d].at = "record" => call[d].cur \in Txs
    BY CallShape DEF Inv, Looping, Sending, AfterSend, Inserting
  <2>3. /\ call[d].at = "insert" => \A t \in call[d].todo : tx'[b][t] = "none"
        /\ call[d].at \in Looping => \A t \in call[d].todo : tx'[b][t] # "none"
        /\ call[d].at = "record" => tx'[b][call[d].cur] # "none"
    BY <1>10, <1>13, <2>1, <2>2 DEF CallInv
  <2>. QED  BY <1>4, <1>9, <1>13, <2>1, <2>3 DEF CallInv
<1>14. \A d, e \in Calls : Apart(d, e)'
  BY <1>7, AloneKept
<1>. QED
  BY <1>4, <1>6, <1>7, <1>8, <1>11, <1>12, <1>13, <1>14, WriteOne

-----------------------------------------------------------------------------
(* The invariant is inductive *)

\* The invariant holds without any batch.
LEMMA InvInit == Init => Inv
<1>. SUFFICES ASSUME Init PROVE Inv
  OBVIOUS
<1>1. TypeOK
  BY DEF Init, TypeOK, TxStatus
<1>2. ASSUME NEW b \in Batches
      PROVE  BatchInv(b)
  BY DEF Init, BatchInv, Attempted, NoBatch
<1>3. ASSUME NEW c \in Calls
      PROVE  CallInv(c)
  BY DEF Init, CallInv, Idle, Claimed, Looping
<1>4. \A c, d \in Calls : Apart(c, d)
  BY DEF Init, Apart
<1>. QED  BY <1>1, <1>2, <1>3, <1>4 DEF Inv

\* The invariant depends on the variables only.
LEMMA InvStutters ==
    ASSUME Inv, UNCHANGED vars
    PROVE  Inv'
<1>1. UNCHANGED <<batch, tx, processing, call, sends, accepted>>
  BY DEF vars
<1>2. TypeOK'
  BY <1>1 DEF Inv, TypeOK
<1>3. \A b \in Batches : BatchInv(b)'
  BY <1>1, BatchKept
<1>4. \A c \in Calls : CallInv(c)'
  BY <1>1, CallKept
<1>5. \A c, d \in Calls : Apart(c, d)'
  BY <1>1 DEF Inv, Apart
<1>. QED  BY <1>2, <1>3, <1>4, <1>5 DEF Inv

\* Every step of the specification keeps the invariant.
LEMMA InvStep == Inv /\ [Next]_vars => Inv'
<1>. SUFFICES ASSUME Inv, [Next]_vars PROVE Inv'
  OBVIOUS
<1>1. ASSUME NEW c \in Calls, Create(c) \/ Fail(c)
      PROVE  Inv'
  BY <1>1, CreateBatchStep, CreateTxStep, FailStep DEF Create
<1>2. ASSUME NEW c \in Calls, Processing(c)
      PROVE  Inv'
  BY <1>2, GetStep, MarkStep, LoadStep, SendStep, RecordStep, ProgressStep, SkipStep,
     FinishStep, ReleaseStep DEF Processing
<1>3. ASSUME NEW c \in Calls, Cancel(c)
      PROVE  Inv'
  BY <1>3, CancelReads, CancelBatchStep, CancelTxsStep DEF Cancel
<1>4. ASSUME NEW c \in Calls, NEW b \in Batches, ProcessClaim(c, b)
      PROVE  Inv'
  BY <1>4, ClaimStep
<1>5. CASE UNCHANGED vars
  BY <1>5, InvStutters
<1>. QED  BY <1>1, <1>2, <1>3, <1>4, <1>5, CrashStep DEF Next

\* Every reachable state of a batch satisfies the invariant.
THEOREM Invariant == Spec => []Inv
BY InvInit, InvStep, PTL DEF Spec

(* The rows, the processing map and the handlers of batch.go always have   *)
(* the types the code gives them.                                          *)
THEOREM TypeCorrect == Spec => []TypeOK
<1>1. Inv => TypeOK
  BY DEF Inv
<1>. QED  BY <1>1, Invariant, PTL

(* Process never hands a transaction to Provider.Send twice, with any      *)
(* number of concurrent handlers, failures of any statement and crashes.   *)
THEOREM SentAtMostOnce == Spec => []AtMostOnce
<1>1. Inv => AtMostOnce
  BY DEF Inv, BatchInv, AtMostOnce
<1>. QED  BY <1>1, Invariant, PTL

(* What a transaction row says of a send is what Send returned.            *)
THEOREM LedgerIsTruthful == Spec => []TruthfulLedger
<1>1. Inv => TruthfulLedger
  BY DEF Inv, BatchInv, TruthfulLedger
<1>. QED  BY <1>1, Invariant, PTL

(* The final status of a batch is that of the transactions sent.           *)
THEOREM VerdictIsTruthful == Spec => []TruthfulVerdict
<1>1. Inv => TruthfulVerdict
  BY DEF Inv, BatchInv, TruthfulVerdict
<1>. QED  BY <1>1, Invariant, PTL

(* The progress a batch shows is never more than what was sent.            *)
THEOREM ProgressIsHonest == Spec => []HonestProgress
<1>1. Inv => HonestProgress
  BY DEF Inv, BatchInv, HonestProgress
<1>. QED  BY <1>1, Invariant, PTL

(* Neither the transaction rows nor processed_count say more than what was *)
(* sent and answered.                                                      *)
THEOREM RecordsAreTruthful == Spec => []TruthfulRecords
<1>1. TruthfulLedger /\ HonestProgress => TruthfulRecords
  BY DEF TruthfulRecords
<1>. QED  BY <1>1, LedgerIsTruthful, ProgressIsHonest, PTL

-----------------------------------------------------------------------------
(* One handler at a time, without failures.                                *)
(*                                                                         *)
(* With one handler the claim on a batch is never contested, so what       *)
(* Cancel tested still holds when it writes, and a batch is processed only *)
(* after all its rows are in.  Without failures no UPDATE of the loop is   *)
(* lost, so the rows and processed_count keep up with what was sent.       *)

Rowed(b) == {t \in Txs : tx[b][t] # "none"}

\* The transactions Create has still to insert.
Due(b, k) == IF k.at = "insert" /\ k.id = b THEN k.todo ELSE {}

Untouched(b) ==
    batch[b].processed = 0 /\ \A t \in Txs : tx[b][t] \in {"none", "pending"}

\* A batch, next to a handler in state k.
Whole(b, k) ==
    /\ batch[b] # NoBatch => batch[b].count = Cardinality(Rowed(b) \cup Due(b, k))
    /\ batch[b].status = "pending" => Untouched(b)
    /\ batch[b].status = "completed" =>
          batch[b].processed = batch[b].count /\ Pending(b) = {}

\* What a handler in state k can rely on, nobody else being there.
Relied(k) ==
    LET b == k.id IN
    /\ k.at \in {"insert", "mark", "check", "cancelBatch"} => batch[b].status = "pending"
    /\ k.at \in {"load"} \cup Looping => batch[b].status = "processing"
    /\ k.at = "cancelTxs" => batch[b].status = "cancelled"
    /\ k.at = "load" => Untouched(b)
    /\ k.at \in Looping =>
          /\ Rowed(b) = k.todo \cup Attempted(b)
          /\ Pending(b) \subseteq k.todo \cup (IF k.at = "record" THEN {k.cur} ELSE {})
    /\ k.at = "send" => batch[b].processed = k.ok + k.bad

Solo(k) == Relied(k) /\ \A b \in Batches : Whole(b, k)

SoloInv(c) == Inv /\ Solo(call[c])

\* A batch nothing happens to, that Create is not inserting into.
LEMMA WholeKept ==
    ASSUME NEW k, NEW m, NEW b, Whole(b, k), batch'[b] = batch[b], tx'[b] = tx[b],
           Due(b, m) = Due(b, k)
    PROVE  Whole(b, m)'
<1>1. Rowed(b)' = Rowed(b) /\ Pending(b)' = Pending(b)
  BY DEF Rowed, Pending
<1>2. Untouched(b)' = Untouched(b)
  BY DEF Untouched
<1>. QED  BY <1>1, <1>2 DEF Whole

\* Steps that write nothing.
LEMMA SoloMoves ==
    ASSUME NEW k, NEW m, Solo(k), UNCHANGED rows, k.at # "insert", m.at # "insert",
           Relied(m)'
    PROVE  Solo(m)'
<1>1. \A b \in Batches : Due(b, m) = Due(b, k)
  BY DEF Due
<1>. QED  BY <1>1, WholeKept DEF Solo, rows

\* Steps that write to the batch b.
LEMMA SoloWrites ==
    ASSUME NEW k, NEW m, NEW b \in Batches, Solo(k),
           \A a \in Batches : a # b => batch'[a] = batch[a] /\ tx'[a] = tx[a],
           k.at = "insert" => k.id = b, m.at = "insert" => m.id = b,
           Whole(b, m)', Relied(m)'
    PROVE  Solo(m)'
<1>1. ASSUME NEW a \in Batches, a # b
      PROVE  Whole(a, m)'
  <2>1. Due(a, m) = Due(a, k)
    BY <1>1 DEF Due
  <2>. QED  BY <1>1, <2>1, WholeKept DEF Solo
<1>. QED  BY <1>1 DEF Solo

\* The handler stores its next state.
LEMMA Moved ==
    ASSUME Inv, NEW c \in Calls, NEW m, Enter(c, m)
    PROVE  call'[c] = m
BY DEF Inv, TypeOK, Enter

\* A handler that returned, or is to release its claim, relies on nothing.
LEMMA NothingRelied ==
    ASSUME NEW m, m = Idle \/ m.at \in {"get", "release"}
    PROVE  Relied(m)' /\ m.at # "insert"
BY DEF Relied, Idle, Looping

-----------------------------------------------------------------------------
(* One handler: the steps that write nothing *)

\* Process claims.
LEMMA SoloClaim ==
    ASSUME NEW c \in Calls, NEW b \in Batches, SoloInv(c), ProcessClaim(c, b)
    PROVE  Solo(call[c])'
<1>. DEFINE m == [at |-> "get", id |-> b]
<1>1. call'[c] = m /\ UNCHANGED rows /\ call[c].at # "insert"
  BY Moved DEF SoloInv, ProcessClaim, At
<1>2. Relied(m)' /\ m.at # "insert"
  BY NothingRelied
<1>3. Solo(m)'
  BY <1>1, <1>2, SoloMoves DEF SoloInv
<1>. QED  BY <1>1, <1>3

\* Process goes on only with a pending batch.
LEMMA SoloGet ==
    ASSUME NEW c \in Calls, SoloInv(c), ProcessGet(c)
    PROVE  Solo(call[c])'
<1>1. call[c] \in Simple /\ call[c].at = "get" /\ UNCHANGED rows
  BY CallShape DEF ProcessGet, At, SoloInv, Inv
<1>2. CASE batch[call[c].id].status = "pending" /\ Proceed(c, "mark")
  <2>1. PICK m : m = [call[c] EXCEPT !.at = "mark"]
    OBVIOUS
  <2>2. Enter(c, m) /\ m.at = "mark" /\ m.id = call[c].id
    BY <1>1, <1>2, <2>1, ProceedShape DEF SoloInv, Inv
  <2>3. Relied(m)'
    BY <1>1, <1>2, <2>2 DEF Relied, Looping, rows
  <2>4. Solo(m)'
    BY <1>1, <2>2, <2>3, SoloMoves DEF SoloInv
  <2>. QED  BY <2>2, <2>4, Moved DEF SoloInv
<1>3. CASE ToRelease(c)
  <2>1. PICK m : m = [at |-> "release", id |-> call[c].id]
    OBVIOUS
  <2>2. Enter(c, m) /\ Relied(m)' /\ m.at # "insert"
    BY <1>3, <2>1, NothingRelied DEF ToRelease
  <2>3. Solo(m)'
    BY <1>1, <2>2, SoloMoves DEF SoloInv
  <2>. QED  BY <2>2, <2>3, Moved DEF SoloInv
<1>. QED  BY <1>2, <1>3 DEF ProcessGet

\* Process reads the pending rows, which are all the rows there are.
LEMMA SoloLoad ==
    ASSUME NEW c \in Calls, SoloInv(c), ProcessLoad(c)
    PROVE  Solo(call[c])'
<1>1. call[c] \in Simple /\ call[c].at = "load" /\ UNCHANGED rows /\ UNCHANGED sent
  BY CallShape DEF ProcessLoad, At, SoloInv, Inv
<1>2. PICK b \in Batches : b = call[c].id
  BY <1>1 DEF Simple
<1>3. Attempted(b) = {} /\ Untouched(b) /\ batch[b].status = "processing"
  BY <1>1, <1>2, LoopFacts DEF SoloInv, Solo, Relied
<1>4. PICK m : m = Loop(b, Pending(b), 0, 0)
  OBVIOUS
<1>5. /\ Enter(c, m) /\ m.at = "send" /\ m.id = b /\ m.todo = Pending(b)
      /\ m.ok = 0 /\ m.bad = 0
  BY <1>2, <1>4 DEF ProcessLoad, Loop
<1>6. Rowed(b) = Pending(b)
  BY <1>3 DEF Rowed, Pending, Untouched
<1>7. Rowed(b)' = Rowed(b) /\ Pending(b)' = Pending(b) /\ Attempted(b)' = {}
  BY <1>1, <1>3 DEF rows, sent, Rowed, Pending, Attempted
<1>8. batch'[b].processed = m.ok + m.bad /\ batch'[b].status = "processing"
  BY <1>1, <1>3, <1>5 DEF rows, Untouched
<1>9. Relied(m)'
  BY <1>3, <1>5, <1>6, <1>7, <1>8 DEF Relied, Looping
<1>10. Solo(m)'
  BY <1>1, <1>5, <1>9, SoloMoves DEF SoloInv
<1>. QED  BY <1>5, <1>10, Moved DEF SoloInv

\* The deferred delete.
LEMMA SoloRelease ==
    ASSUME NEW c \in Calls, SoloInv(c), ProcessRelease(c)
    PROVE  Solo(call[c])'
<1>1. call'[c] = Idle /\ UNCHANGED rows /\ call[c].at # "insert"
  BY Moved DEF SoloInv, ProcessRelease, Return, At
<1>2. Relied(Idle)' /\ Idle.at # "insert"
  BY NothingRelied
<1>3. Solo(Idle)'
  BY <1>1, <1>2, SoloMoves DEF SoloInv
<1>. QED  BY <1>1, <1>3

\* Cancel reads the batch, and tests the processing map.
LEMMA SoloCancelReads ==
    ASSUME NEW c \in Calls, SoloInv(c),
           \/ \E b \in Batches, u \in Users : CancelGet(c, b, u)
           \/ CancelCheck(c)
    PROVE  Solo(call[c])'
<1>1. ASSUME NEW b \in Batches, NEW u \in Users, CancelGet(c, b, u)
      PROVE  Solo(call[c])'
  <2>1. PICK m : m = [at |-> "check", id |-> b]
    OBVIOUS
  <2>2. /\ Enter(c, m) /\ m.at = "check" /\ m.id = b /\ UNCHANGED rows
        /\ call[c].at # "insert" /\ batch[b].status = "pending"
    BY <1>1, <2>1 DEF CancelGet, At
  <2>3. Relied(m)'
    BY <2>2 DEF Relied, Looping, rows
  <2>4. Solo(m)'
    BY <2>2, <2>3, SoloMoves DEF SoloInv
  <2>. QED  BY <2>2, <2>4, Moved DEF SoloInv
<1>2. ASSUME CancelCheck(c), Return(c)
      PROVE  Solo(call[c])'
  <2>1. call'[c] = Idle /\ UNCHANGED rows /\ call[c].at # "insert"
    BY <1>2, Moved DEF SoloInv, CancelCheck, Return, At
  <2>2. Solo(Idle)'
    BY <2>1, NothingRelied, SoloMoves DEF SoloInv
  <2>. QED  BY <2>1, <2>2
<1>3. ASSUME CancelCheck(c), Proceed(c, "cancelBatch")
      PROVE  Solo(call[c])'
  <2>1. call[c] \in InCancel /\ call[c].at = "check" /\ UNCHANGED rows
    BY <1>3, CallShape DEF CancelCheck, At, SoloInv, Inv
  <2>2. PICK m : m = [call[c] EXCEPT !.at = "cancelBatch"]
    OBVIOUS
  <2>3. Enter(c, m) /\ m.at = "cancelBatch" /\ m.id = call[c].id
    BY <1>3, <2>1, <2>2, ProceedShape DEF SoloInv, Inv
  <2>4. batch[call[c].id].status = "pending"
    BY <2>1 DEF SoloInv, Solo, Relied
  <2>5. Relied(m)'
    BY <2>1, <2>3, <2>4 DEF Relied, Looping, rows
  <2>6. Solo(m)'
    BY <2>1, <2>3, <2>5, SoloMoves DEF SoloInv
  <2>. QED  BY <2>3, <2>6, Moved DEF SoloInv
<1>. QED  BY <1>1, <1>2, <1>3 DEF CancelCheck

-----------------------------------------------------------------------------
(* One handler: the steps that write *)

\* Create inserts the batch row, with nothing of it sent or inserted.
LEMMA SoloCreateBatch ==
    ASSUME NEW c \in Calls, NEW b \in Batches, SoloInv(c), CreateBatch(c, b)
    PROVE  Solo(call[c])'
<1>1. PICK S \in SUBSET Txs, u \in Users :
         /\ batch' = [batch EXCEPT ![b] = [status |-> "pending", user |-> u,
                                           count |-> Cardinality(S), processed |-> 0]]
         /\ Enter(c, [at |-> "insert", id |-> b, todo |-> S])
  BY DEF CreateBatch
<1>2. PICK m : m = [at |-> "insert", id |-> b, todo |-> S]
  OBVIOUS
<1>3. Enter(c, m) /\ m.at = "insert" /\ m.id = b /\ m.todo = S
  BY <1>1, <1>2
<1>4. batch[b] = NoBatch /\ tx' = tx /\ call[c].at # "insert"
  BY DEF CreateBatch, At
<1>5. /\ batch'[b].status = "pending" /\ batch'[b].processed = 0
      /\ batch'[b].count = Cardinality(S)
      /\ \A a \in Batches : a # b => batch'[a] = batch[a]
  BY <1>1 DEF SoloInv, Inv, TypeOK
<1>6. \A t \in Txs : tx'[b][t] = "none"
  BY <1>4 DEF SoloInv, Inv, BatchInv
<1>7. Rowed(b)' \cup Due(b, m) = S /\ Untouched(b)'
  BY <1>3, <1>5, <1>6 DEF Rowed, Due, Untouched
<1>8. Whole(b, m)'
  BY <1>5, <1>7 DEF Whole
<1>9. Relied(m)'
  BY <1>3, <1>5 DEF Relied, Looping
<1>10. Solo(m)'
  BY <1>3, <1>4, <1>5, <1>8, <1>9, SoloWrites DEF SoloInv
<1>. QED  BY <1>3, <1>10, Moved DEF SoloInv

\* Create inserts one row more: one is due less.
LEMMA SoloCreateTx ==
    ASSUME NEW c \in Calls, NEW t \in Txs, SoloInv(c), CreateTx(c, t)
    PROVE  Solo(call[c])'
<1>1. call[c] \in Inserting /\ call[c].at = "insert" /\ t \in call[c].todo
  BY CallShape DEF CreateTx, At, SoloInv, Inv
<1>2. PICK b \in Batches : b = call[c].id
  BY <1>1 DEF Inserting
<1>3. batch' = batch /\ tx' = [tx EXCEPT ![b][t] = "pending"]
  BY <1>2 DEF CreateTx
<1>4. Whole(b, call[c]) /\ batch[b].status = "pending" /\ batch[b] # NoBatch
  BY <1>1, <1>2 DEF SoloInv, Solo, Relied, NoBatch
<1>5. /\ tx'[b][t] = "pending" /\ \A s \in Txs : s # t => tx'[b][s] = tx[b][s]
      /\ \A a \in Batches : a # b => tx'[a] = tx[a]
  BY <1>3 DEF SoloInv, Inv, TypeOK
<1>6. PICK m : /\ Enter(c, m) /\ (m.at = "insert" => m.id = b)
               /\ Due(b, m) = call[c].todo \ {t} /\ Relied(m)'
  <2>1. CASE call[c].todo = {t} /\ Return(c)
    <3>1. Due(b, Idle) = {}
      BY DEF Due, Idle
    <3>2. Idle.at # "insert" /\ Relied(Idle)' /\ Enter(c, Idle)
      BY <2>1, NothingRelied DEF Return
    <3>. QED  BY <2>1, <3>1, <3>2
  <2>2. CASE call' = [call EXCEPT ![c].todo = @ \ {t}]
    <3>0. PICK l : l = [call[c] EXCEPT !.todo = @ \ {t}]
      OBVIOUS
    <3>1. l.at = "insert" /\ l.id = b /\ l.todo = call[c].todo \ {t} /\ Enter(c, l)
      BY <1>1, <1>2, <2>2, <3>0 DEF Inserting, Enter
    <3>2. Due(b, l) = call[c].todo \ {t}
      BY <3>1 DEF Due
    <3>3. Relied(l)'
      BY <1>3, <1>4, <3>1 DEF Relied, Looping
    <3>. QED  BY <3>1, <3>2, <3>3
  <2>. QED  BY <2>1, <2>2 DEF CreateTx
<1>7. Due(b, call[c]) = call[c].todo
  BY <1>1, <1>2 DEF Due
<1>8. Rowed(b)' = Rowed(b) \cup {t}
  BY <1>5 DEF Rowed
<1>9. Rowed(b)' \cup Due(b, m) = Rowed(b) \cup Due(b, call[c])
  BY <1>1, <1>6, <1>7, <1>8
<1>10. Untouched(b)'
  BY <1>3, <1>4, <1>5 DEF Whole, Untouched
<1>11. Whole(b, m)'
  BY <1>3, <1>4, <1>9, <1>10 DEF Whole
<1>12. Solo(m)'
  BY <1>2, <1>3, <1>5, <1>6, <1>11, SoloWrites DEF SoloInv
<1>. QED  BY <1>6, <1>12, Moved DEF SoloInv

\* Process marks a batch that is still pending.
LEMMA SoloMark ==
    ASSUME NEW c \in Calls, SoloInv(c), ProcessMark(c)
    PROVE  Solo(call[c])'
<1>1. call[c] \in Simple /\ call[c].at = "mark" /\ tx' = tx
  BY CallShape DEF ProcessMark, At, SoloInv, Inv
<1>2. PICK b \in Batches : b = call[c].id
  BY <1>1 DEF Simple
<1>3. /\ Whole(b, call[c]) /\ batch[b].status = "pending" /\ batch[b] \in BatchRow
      /\ batch[b] # NoBatch
  BY <1>1, <1>2, LoopFacts DEF SoloInv, Solo, Relied
<1>4. SetStatus(b, "processing") /\ Proceed(c, "load")
  BY <1>2 DEF ProcessMark
<1>5. /\ batch'[b].status = "processing" /\ batch'[b].processed = batch[b].processed
      /\ batch'[b].count = batch[b].count
      /\ \A a \in Batches : a # b => batch'[a] = batch[a]
  BY <1>3, <1>4, StatusSet DEF BatchStatus, SoloInv
<1>6. PICK m : m = [call[c] EXCEPT !.at = "load"]
  OBVIOUS
<1>7. Enter(c, m) /\ m.at = "load" /\ m.id = b
  BY <1>1, <1>2, <1>4, <1>6, ProceedShape DEF SoloInv, Inv
<1>8. Rowed(b)' \cup Due(b, m) = Rowed(b) \cup Due(b, call[c])
  BY <1>1, <1>7 DEF Rowed, Due
<1>9. Untouched(b)'
  BY <1>1, <1>3, <1>5 DEF Whole, Untouched
<1>10. Whole(b, m)'
  BY <1>3, <1>5, <1>8 DEF Whole
<1>11. Relied(m)'
  BY <1>5, <1>7, <1>9 DEF Relied, Looping
<1>12. Solo(m)'
  BY <1>1, <1>5, <1>7, <1>10, <1>11, SoloWrites DEF SoloInv
<1>. QED  BY <1>7, <1>12, Moved DEF SoloInv

\* Process sends: the transaction goes from those to visit to those sent.
LEMMA SoloSend ==
    ASSUME NEW c \in Calls, NEW t \in Txs, SoloInv(c), ProcessSend(c, t)
    PROVE  Solo(call[c])'
<1>1. call[c] \in Sending /\ call[c].at = "send" /\ t \in call[c].todo /\ UNCHANGED rows
  BY CallShape DEF ProcessSend, At, SoloInv, Inv
<1>2. PICK b \in Batches : b = call[c].id
  BY <1>1 DEF Sending
<1>3. PICK err \in BOOLEAN :
        Enter(c, [at |-> "record", id |-> b, todo |-> call[c].todo \ {t},
                  ok |-> call[c].ok + (IF err THEN 0 ELSE 1),
                  bad |-> call[c].bad + (IF err THEN 1 ELSE 0),
                  cur |-> t, err |-> err])
  BY <1>2 DEF ProcessSend
<1>4. PICK m : m = [at |-> "record", id |-> b, todo |-> call[c].todo \ {t},
                    ok |-> call[c].ok + (IF err THEN 0 ELSE 1),
                    bad |-> call[c].bad + (IF err THEN 1 ELSE 0),
                    cur |-> t, err |-> err]
  OBVIOUS
<1>5. Enter(c, m) /\ m.at = "record" /\ m.id = b /\ m.todo = call[c].todo \ {t} /\ m.cur = t
  BY <1>3, <1>4
<1>6. sends' = [sends EXCEPT ![b][t] = @ + 1]
  BY <1>2 DEF ProcessSend
<1>7. Attempted(b)' = Attempted(b) \cup {t}
  <2>1. sends \in [Batches -> [Txs -> Nat]] /\ sends[b][t] \in Nat
    BY DEF SoloInv, Inv, TypeOK
  <2>2. sends'[b][t] > 0 /\ \A s \in Txs : s # t => sends'[b][s] = sends[b][s]
    BY <1>6, <2>1
  <2>. QED  BY <2>2 DEF Attempted
<1>8. /\ batch[b].status = "processing" /\ Rowed(b) = call[c].todo \cup Attempted(b)
      /\ Pending(b) \subseteq call[c].todo
  BY <1>1, <1>2 DEF SoloInv, Solo, Relied, Looping
<1>9. Rowed(b)' = Rowed(b) /\ Pending(b)' = Pending(b) /\ batch' = batch
  BY <1>1 DEF rows, Rowed, Pending
<1>10. Rowed(b)' = m.todo \cup Attempted(b)' /\ Pending(b)' \subseteq m.todo \cup {m.cur}
  BY <1>1, <1>5, <1>7, <1>8, <1>9
<1>11. Relied(m)'
  BY <1>5, <1>8, <1>9, <1>10 DEF Relied, Looping
<1>12. Solo(m)'
  BY <1>1, <1>5, <1>11, SoloMoves DEF SoloInv
<1>. QED  BY <1>5, <1>12, Moved DEF SoloInv

\* Process stores what Send returned: that row is no longer pending.
LEMMA SoloRecord ==
    ASSUME NEW c \in Calls, SoloInv(c), ProcessRecord(c)
    PROVE  Solo(call[c])'
<1>1. call[c] \in AfterSend /\ call[c].at = "record" /\ batch' = batch /\ sends' = sends
  BY CallShape DEF ProcessRecord, At, SoloInv, Inv, sent
<1>2. PICK b \in Batches : b = call[c].id
  BY <1>1 DEF AfterSend
<1>3. PICK t \in Txs : t = call[c].cur
  BY <1>1 DEF AfterSend
<1>4. tx' = [tx EXCEPT ![b][t] = IF call[c].err THEN "failed" ELSE "submitted"]
  BY <1>2, <1>3 DEF ProcessRecord
<1>5. /\ tx'[b][t] \in {"failed", "submitted"}
      /\ \A s \in Txs : s # t => tx'[b][s] = tx[b][s]
      /\ \A a \in Batches : a # b => tx'[a] = tx[a]
  BY <1>4 DEF SoloInv, Inv, TypeOK
<1>6. PICK m : m = [call[c] EXCEPT !.at = "progress"]
  OBVIOUS
<1>7. Enter(c, m) /\ m.at = "progress" /\ m.id = b /\ m.todo = call[c].todo
  BY <1>1, <1>2, <1>6, ProceedShape DEF ProcessRecord, SoloInv, Inv
<1>8. tx[b][t] # "none" /\ batch[b] # NoBatch
  BY <1>1, <1>2, <1>3, LoopFacts DEF SoloInv, Looping
<1>9. /\ batch[b].status = "processing" /\ Rowed(b) = call[c].todo \cup Attempted(b)
      /\ Pending(b) \subseteq call[c].todo \cup {t} /\ Whole(b, call[c])
  BY <1>1, <1>2, <1>3 DEF SoloInv, Solo, Relied, Looping
<1>10. Rowed(b)' = Rowed(b) /\ Pending(b)' = Pending(b) \ {t} /\ Attempted(b)' = Attempted(b)
  BY <1>1, <1>5, <1>8 DEF Rowed, Pending, Attempted
<1>11. Relied(m)'
  BY <1>1, <1>7, <1>9, <1>10 DEF Relied, Looping
<1>12. Rowed(b)' \cup Due(b, m) = Rowed(b) \cup Due(b, call[c])
  BY <1>1, <1>7, <1>10 DEF Due
<1>13. Whole(b, m)'
  BY <1>1, <1>8, <1>9, <1>12 DEF Whole
<1>14. Solo(m)'
  BY <1>1, <1>5, <1>7, <1>11, <1>13, SoloWrites DEF SoloInv
<1>. QED  BY <1>7, <1>14, Moved DEF SoloInv

\* Process stores the progress.
LEMMA SoloProgress ==
    ASSUME NEW c \in Calls, SoloInv(c), ProcessProgress(c)
    PROVE  Solo(call[c])'
<1>1. call[c] \in AfterSend /\ call[c].at = "progress" /\ tx' = tx /\ sends' = sends
  BY CallShape DEF ProcessProgress, At, SoloInv, Inv, sent
<1>2. PICK b \in Batches : b = call[c].id
  BY <1>1 DEF AfterSend
<1>3. PICK m : m = Loop(b, call[c].todo, call[c].ok, call[c].bad)
  OBVIOUS
<1>4. /\ Enter(c, m) /\ m.at = "send" /\ m.id = b /\ m.todo = call[c].todo
      /\ m.ok = call[c].ok /\ m.bad = call[c].bad
  BY <1>2, <1>3 DEF ProcessProgress, NextTx, Loop
<1>5. /\ batch[b].status = "processing" /\ Rowed(b) = call[c].todo \cup Attempted(b)
      /\ Pending(b) \subseteq call[c].todo /\ Whole(b, call[c])
  BY <1>1, <1>2 DEF SoloInv, Solo, Relied, Looping
<1>6. batch[b] \in BatchRow /\ batch[b] # NoBatch
  BY <1>1, <1>2, LoopFacts DEF SoloInv, Looping
<1>7. /\ batch'[b].status = "processing" /\ batch'[b].count = batch[b].count
      /\ batch'[b].processed = m.ok + m.bad
      /\ \A a \in Batches : a # b => batch'[a] = batch[a]
  <2>1. batch' = [batch EXCEPT ![b].processed = m.ok + m.bad]
    BY <1>2, <1>4 DEF ProcessProgress
  <2>. QED  BY <1>5, <1>6, <2>1 DEF SoloInv, Inv, TypeOK, BatchRow
<1>8. Rowed(b)' = Rowed(b) /\ Pending(b)' = Pending(b) /\ Attempted(b)' = Attempted(b)
  BY <1>1 DEF Rowed, Pending, Attempted
<1>9. Relied(m)'
  BY <1>4, <1>5, <1>7, <1>8 DEF Relied, Looping
<1>10. Rowed(b)' \cup Due(b, m) = Rowed(b) \cup Due(b, call[c])
  BY <1>1, <1>4, <1>8 DEF Due
<1>11. Whole(b, m)'
  BY <1>5, <1>6, <1>7, <1>10 DEF Whole
<1>12. Solo(m)'
  BY <1>1, <1>4, <1>7, <1>9, <1>11, SoloWrites DEF SoloInv
<1>. QED  BY <1>4, <1>12, Moved DEF SoloInv

\* Process finishes: a completed batch has every row sent and counted.
LEMMA SoloFinish ==
    ASSUME NEW c \in Calls, SoloInv(c), ProcessFinish(c)
    PROVE  Solo(call[c])'
<1>1. /\ call[c] \in Sending /\ call[c].at = "send" /\ call[c].todo = {}
      /\ tx' = tx
  BY CallShape DEF ProcessFinish, At, SoloInv, Inv, sent
<1>2. PICK b \in Batches : b = call[c].id
  BY <1>1 DEF Sending
<1>3. PICK s : s = FinalStatus(call[c].ok, call[c].bad)
  OBVIOUS
<1>4. SetStatus(b, s) /\ ToRelease(c) /\ s \in BatchStatus /\ s # "pending"
  BY <1>2, <1>3 DEF ProcessFinish, FinalStatus, BatchStatus
<1>5. /\ batch[b] \in BatchRow /\ batch[b] # NoBatch
      /\ call[c].ok = Cardinality(accepted[b])
      /\ call[c].bad = Cardinality(Attempted(b) \ accepted[b])
  BY <1>1, <1>2, LoopFacts DEF SoloInv, Looping
<1>6. /\ batch'[b].status = s /\ batch'[b].processed = batch[b].processed
      /\ batch'[b].count = batch[b].count
      /\ \A a \in Batches : a # b => batch'[a] = batch[a]
  BY <1>4, <1>5, StatusSet DEF SoloInv
<1>7. /\ Rowed(b) = Attempted(b) /\ Pending(b) = {} /\ Whole(b, call[c])
      /\ batch[b].processed = call[c].ok + call[c].bad
  BY <1>1, <1>2 DEF SoloInv, Solo, Relied, Looping
<1>8. batch[b].processed = batch[b].count
  <2>1. Attempted(b) \in SUBSET Txs /\ accepted[b] \in SUBSET Attempted(b)
    BY DEF SoloInv, Inv, BatchInv, Attempted
  <2>2. call[c].ok + call[c].bad = Cardinality(Attempted(b))
    BY <1>5, <2>1, PartsAddUp
  <2>3. Rowed(b) \cup Due(b, call[c]) = Attempted(b)
    BY <1>1, <1>7 DEF Due
  <2>. QED  BY <1>5, <1>7, <2>2, <2>3 DEF Whole
<1>9. PICK m : m = [at |-> "release", id |-> b]
  OBVIOUS
<1>10. Enter(c, m) /\ m.at # "insert" /\ Relied(m)'
  BY <1>2, <1>4, <1>9, NothingRelied DEF ToRelease
<1>11. Rowed(b)' \cup Due(b, m) = Rowed(b) \cup Due(b, call[c]) /\ Pending(b)' = {}
  BY <1>1, <1>7, <1>10 DEF Rowed, Due, Pending
<1>12. Whole(b, m)'
  BY <1>4, <1>5, <1>6, <1>7, <1>8, <1>11 DEF Whole
<1>13. Solo(m)'
  BY <1>1, <1>6, <1>10, <1>12, SoloWrites DEF SoloInv
<1>. QED  BY <1>10, <1>13, Moved DEF SoloInv

\* Cancel marks a batch that is still pending.
LEMMA SoloCancelBatch ==
    ASSUME NEW c \in Calls, SoloInv(c), CancelBatch(c)
    PROVE  Solo(call[c])'
<1>1. call[c] \in InCancel /\ call[c].at = "cancelBatch" /\ tx' = tx /\ call[c] # Idle
  BY CallShape DEF CancelBatch, At, SoloInv, Inv, Idle
<1>2. PICK b \in Batches : b = call[c].id
  BY <1>1 DEF InCancel
<1>3. Whole(b, call[c]) /\ batch[b] \in BatchRow /\ batch[b] # NoBatch
  BY <1>1, <1>2, RowShape DEF SoloInv, Solo, Inv, CallInv
<1>4. SetStatus(b, "cancelled") /\ Proceed(c, "cancelTxs")
  BY <1>2 DEF CancelBatch
<1>5. /\ batch'[b].status = "cancelled" /\ batch'[b].count = batch[b].count
      /\ \A a \in Batches : a # b => batch'[a] = batch[a]
  BY <1>3, <1>4, StatusSet DEF BatchStatus, SoloInv
<1>6. PICK m : m = [call[c] EXCEPT !.at = "cancelTxs"]
  OBVIOUS
<1>7. Enter(c, m) /\ m.at = "cancelTxs" /\ m.id = b
  BY <1>1, <1>2, <1>4, <1>6, ProceedShape DEF SoloInv, Inv
<1>8. Rowed(b)' \cup Due(b, m) = Rowed(b) \cup Due(b, call[c])
  BY <1>1, <1>7 DEF Rowed, Due
<1>9. Whole(b, m)'
  BY <1>3, <1>5, <1>8 DEF Whole
<1>10. Relied(m)'
  BY <1>5, <1>7 DEF Relied, Looping
<1>11. Solo(m)'
  BY <1>1, <1>5, <1>7, <1>9, <1>10, SoloWrites DEF SoloInv
<1>. QED  BY <1>7, <1>11, Moved DEF SoloInv

\* Cancel marks the pending rows; they stay rows.
LEMMA SoloCancelTxs ==
    ASSUME NEW c \in Calls, SoloInv(c), CancelTxs(c)
    PROVE  Solo(call[c])'
<1>1. call[c] \in InCancel /\ call[c].at = "cancelTxs" /\ batch' = batch
  BY CallShape DEF CancelTxs, At, SoloInv, Inv
<1>2. PICK b \in Batches : b = call[c].id
  BY <1>1 DEF InCancel
<1>3. Whole(b, call[c]) /\ batch[b].status = "cancelled"
  BY <1>1, <1>2 DEF SoloInv, Solo, Relied, Looping
<1>4. call'[c] = Idle
  BY Moved DEF SoloInv, CancelTxs, Return
<1>5. /\ \A t \in Txs : tx'[b][t] = IF t \in Pending(b) THEN "cancelled" ELSE tx[b][t]
      /\ \A a \in Batches : a # b => tx'[a] = tx[a]
  BY <1>2 DEF CancelTxs, SoloInv, Inv, TypeOK
<1>6. Rowed(b)' = Rowed(b)
  BY <1>5 DEF Rowed, Pending
<1>7. Rowed(b)' \cup Due(b, Idle) = Rowed(b) \cup Due(b, call[c])
  BY <1>1, <1>6 DEF Due, Idle
<1>8. Whole(b, Idle)'
  BY <1>1, <1>3, <1>7 DEF Whole
<1>9. Idle.at # "insert" /\ Relied(Idle)'
  BY NothingRelied
<1>10. Solo(Idle)'
  BY <1>1, <1>5, <1>8, <1>9, SoloWrites DEF SoloInv
<1>. QED  BY <1>4, <1>10

-----------------------------------------------------------------------------
(* One handler: what holds *)

\* One handler, no failures: the invariant is inductive.
LEMMA SoloNext ==
    ASSUME NEW c \in Calls, Calls = {c}, ~MayFail, SoloInv(c), [Next]_vars
    PROVE  SoloInv(c)'
<1>1. Inv'
  BY InvStep DEF SoloInv
<1>2. CASE Create(c)
  BY <1>1, <1>2, SoloCreateBatch, SoloCreateTx DEF Create, SoloInv
<1>3. CASE Processing(c)
  <2>1. ~ProcessSkip(c)
    BY DEF ProcessSkip
  <2>. QED
    BY <1>1, <1>3, <2>1, SoloGet, SoloMark, SoloLoad, SoloSend, SoloRecord, SoloProgress,
       SoloFinish, SoloRelease DEF Processing, SoloInv
<1>4. CASE Cancel(c)
  BY <1>1, <1>4, SoloCancelReads, SoloCancelBatch, SoloCancelTxs DEF Cancel, SoloInv
<1>5. ASSUME NEW b \in Batches, ProcessClaim(c, b)
      PROVE  SoloInv(c)'
  BY <1>1, <1>5, SoloClaim DEF SoloInv
<1>6. CASE UNCHANGED vars
  <2>1. /\ UNCHANGED <<batch, tx, sends>> /\ call'[c] = call[c]
    BY <1>6 DEF vars
  <2>2. \A b \in Batches : Rowed(b)' = Rowed(b) /\ Pending(b)' = Pending(b)
                            /\ Attempted(b)' = Attempted(b)
    BY <2>1 DEF Rowed, Pending, Attempted
  <2>3. PICK k : k = call[c]
    OBVIOUS
  <2>4. Relied(k)'
    BY <2>1, <2>3 DEF SoloInv, Solo, Relied, Rowed, Pending, Attempted, Untouched
  <2>5. \A b \in Batches : Whole(b, k)'
    BY <2>1, <2>3, WholeKept DEF SoloInv, Solo
  <2>6. Solo(k)'
    BY <2>4, <2>5 DEF Solo
  <2>. QED  BY <1>1, <2>1, <2>3, <2>6 DEF SoloInv
<1>7. ~Fail(c) /\ ~Crash
  BY DEF Fail, Crash
<1>. QED  BY <1>2, <1>3, <1>4, <1>5, <1>6, <1>7 DEF Next

\* It holds without any batch.
LEMMA SoloInit ==
    ASSUME NEW c \in Calls, Init
    PROVE  SoloInv(c)
<1>1. call[c] = Idle /\ \A b \in Batches : batch[b] = NoBatch
  BY DEF Init
<1>2. Relied(Idle)
  BY DEF Relied, Idle, Looping
<1>3. \A b \in Batches : Whole(b, Idle)
  BY <1>1 DEF Whole, NoBatch
<1>. QED  BY <1>1, <1>2, <1>3, InvInit DEF SoloInv, Solo

(* One handler at a time and without failures, a completed batch was       *)
(* processed as a whole: Create has inserted all tx_count rows, Process    *)
(* has sent and counted every one, and none is left pending.               *)
THEOREM CompletedIsWholeOneByOne ==
    ASSUME NEW c, Calls = {c}, ~MayFail
    PROVE  Spec => []CompletedIsWholeAlone
<1>1. c \in Calls
  OBVIOUS
<1>2. Init => SoloInv(c)
  BY <1>1, SoloInit
<1>3. SoloInv(c) /\ [Next]_vars => SoloInv(c)'
  BY <1>1, SoloNext
<1>4. SoloInv(c) => CompletedIsWholeAlone
  BY DEF SoloInv, Solo, Whole, CompletedIsWhole, CompletedIsWholeAlone
<1>. QED  BY <1>2, <1>3, <1>4, PTL DEF Spec

\* One handler never touches a cancelled batch, nor sends anything of it.
LEMMA CancelledLeftAlone ==
    ASSUME NEW c \in Calls, Calls = {c}, ~MayFail, SoloInv(c), [Next]_vars,
           NEW b \in Batches, batch[b].status = "cancelled"
    PROVE  batch'[b] = batch[b] /\ sends'[b] = sends[b]
<1>1. Inv /\ batch \in [Batches -> BatchRow \cup {NoBatch}]
      /\ sends \in [Batches -> [Txs -> Nat]]
  BY DEF SoloInv, Inv, TypeOK
<1>2. /\ call[c].at \in {"mark", "cancelBatch"} => batch[call[c].id].status = "pending"
      /\ call[c].at \in {"send", "record", "progress"} =>
            batch[call[c].id].status = "processing"
  BY DEF SoloInv, Solo, Relied, Looping
<1>3. ASSUME NEW a \in Batches, CreateBatch(c, a)
      PROVE  batch'[b] = batch[b] /\ sends' = sends
  <2>1. a # b
    BY <1>3 DEF CreateBatch, NoBatch
  <2>. QED  BY <1>1, <1>3, <2>1 DEF CreateBatch, sent
<1>4. CASE ProcessMark(c) \/ ProcessProgress(c) \/ ProcessFinish(c) \/ CancelBatch(c)
  <2>1. call[c].id # b
    BY <1>2, <1>4
       DEF ProcessMark, ProcessProgress, ProcessFinish, CancelBatch, At
  <2>. QED
    BY <1>1, <1>4, <2>1
       DEF ProcessMark, ProcessProgress, ProcessFinish, CancelBatch, SetStatus, sent
<1>5. ASSUME NEW t \in Txs, ProcessSend(c, t)
      PROVE  batch' = batch /\ sends'[b] = sends[b]
  <2>1. call[c].id # b
    BY <1>2, <1>5 DEF ProcessSend, At
  <2>. QED  BY <1>1, <1>5, <2>1 DEF ProcessSend, rows
<1>6. CASE \/ \E t \in Txs : CreateTx(c, t)
           \/ \E a \in Batches : ProcessClaim(c, a)
           \/ ProcessGet(c) \/ ProcessLoad(c) \/ ProcessRecord(c) \/ ProcessRelease(c)
           \/ \E a \in Batches, u \in Users : CancelGet(c, a, u)
           \/ CancelCheck(c) \/ CancelTxs(c) \/ UNCHANGED vars
  BY <1>6 DEF CreateTx, ProcessClaim, ProcessGet, ProcessLoad, ProcessRecord,
              ProcessRelease, CancelGet, CancelCheck, CancelTxs, rows, sent, vars
<1>7. ~Fail(c) /\ ~Crash /\ ~ProcessSkip(c)
  BY DEF Fail, Crash, ProcessSkip
<1>. QED
  BY <1>3, <1>4, <1>5, <1>6, <1>7 DEF Next, Create, Processing, Cancel

(* One handler at a time and without failures, Cancel is what it promises: *)
(* a cancelled batch stays cancelled and nothing more of it is sent.  With *)
(* two handlers it is not (the run batch_cancel).                          *)
THEOREM CancelStandsOneByOne ==
    ASSUME NEW c, Calls = {c}, ~MayFail
    PROVE  Spec => CancelStands
<1>1. c \in Calls
  OBVIOUS
<1>2. Init => SoloInv(c)
  BY <1>1, SoloInit
<1>3. SoloInv(c) /\ [Next]_vars => SoloInv(c)'
  BY <1>1, SoloNext
<1>4. SoloInv(c) /\ [Next]_vars => [CancelledStays]_vars
  BY <1>1, CancelledLeftAlone DEF CancelledStays
<1>. QED  BY <1>2, <1>3, <1>4, PTL DEF Spec, CancelStands
=============================================================================
