----------------------------- MODULE JobsProofs -----------------------------
(***************************************************************************)
(* Proofs about Jobs, for any jobs, workers, administrators, priorities,   *)
(* delays, numbers of attempts and faults.                                 *)
(*                                                                         *)
(* The argument: the count of attempts is copied from the row to a worker  *)
(* and back over whatever others wrote meanwhile, but no copy ever exceeds *)
(* the number of times the handler has been called for that job, which     *)
(* never falls; so whoever finds its copy at the maximum is right about    *)
(* it.  Who is about to write completed has seen the handler succeed.      *)
(***************************************************************************)
EXTENDS MCJobsModes, TLAPS

\* n is a number of attempts job j has really had.
Earned(rs, j, n) == n <= rs[j] \/ rs[j] = MaxAttempts

RowTrue(rs, done, j, row) ==
    \/ row \in {NoJob, Deleted}
    \/ /\ row \in JobRow
       /\ Earned(rs, j, row.attempts)
       /\ row.status = "completed" => j \in done
       /\ row.status = "failed" => rs[j] = MaxAttempts

WorkerTrue(rs, done, s) ==
    \/ s = Idle
    \/ s \in [at : {"fetch"}, took : JobIds]
    \/ /\ s \in [at : {"start", "run", "complete", "fail"}, took : JobIds,
                 id : JobIds, attempts : 0..MaxAttempts + 1]
       /\ Earned(rs, s.id, s.attempts)
       /\ s.at = "complete" => s.id \in done

RowsTrue == \A j \in JobIds : RowTrue(runs, succeeded, j, job[j])

WorkersTrue == \A w \in Workers : WorkerTrue(runs, succeeded, worker[w])

Inv == TypeOK /\ RowsTrue /\ WorkersTrue

\* What is observed only grows.
Growing ==
    /\ runs' \in [JobIds -> 0..MaxAttempts]
    /\ \A j \in JobIds : runs[j] <= runs'[j]
    /\ succeeded \subseteq succeeded' /\ succeeded' \subseteq JobIds

\* Everything but the rows and the workers is in order, too.
RestTyped ==
    /\ retry' \in [Admins -> [at : {"write"}, id : JobIds] \cup {Idle}]
    /\ running' \in BOOLEAN
    /\ now' \in Clock
    /\ faults' \in 0..MaxFaults

-----------------------------------------------------------------------------
(* Helpers *)

LEMMA AfterTyped ==
    ASSUME now \in Clock, NEW d \in Nat
    PROVE  After(d) \in Clock
BY ConstantsOK DEF After, Clock

LEMMA AttemptTyped ==
    ASSUME NEW n \in 0..MaxAttempts + 1
    PROVE  Attempt(n) \in 0..MaxAttempts + 1 /\ Attempt(n) <= n + 1
BY ConstantsOK DEF Attempt

LEMMA RowStays ==
    ASSUME TypeOK, Growing, NEW j \in JobIds, NEW row, RowTrue(runs, succeeded, j, row)
    PROVE  RowTrue(runs', succeeded', j, row)
<1>1. runs[j] \in 0..MaxAttempts /\ runs'[j] \in 0..MaxAttempts /\ runs[j] <= runs'[j]
  BY DEF TypeOK, Growing
<1>2. runs[j] = MaxAttempts => runs'[j] = MaxAttempts
  BY <1>1, ConstantsOK
<1>3. ASSUME row \in JobRow, Earned(runs, j, row.attempts) PROVE Earned(runs', j, row.attempts)
  <2>1. row.attempts \in 0..MaxAttempts + 1
    BY <1>3 DEF JobRow
  <2>. QED  BY <1>1, <1>2, <1>3, <2>1, ConstantsOK DEF Earned
<1>. QED  BY <1>2, <1>3 DEF RowTrue, Growing

LEMMA WorkerStays ==
    ASSUME TypeOK, Growing, NEW s, WorkerTrue(runs, succeeded, s)
    PROVE  WorkerTrue(runs', succeeded', s)
<1>. SUFFICES ASSUME s # Idle, s \notin [at : {"fetch"}, took : JobIds]
              PROVE  WorkerTrue(runs', succeeded', s)
  BY DEF WorkerTrue
<1>1. /\ s \in [at : {"start", "run", "complete", "fail"}, took : JobIds,
                id : JobIds, attempts : 0..MaxAttempts + 1]
      /\ Earned(runs, s.id, s.attempts)
      /\ s.at = "complete" => s.id \in succeeded
  BY DEF WorkerTrue
<1>2. s.id \in JobIds /\ s.attempts \in 0..MaxAttempts + 1
  BY <1>1
<1>3. /\ runs[s.id] \in 0..MaxAttempts /\ runs'[s.id] \in 0..MaxAttempts
      /\ runs[s.id] <= runs'[s.id]
  BY <1>2 DEF TypeOK, Growing
<1>4. Earned(runs', s.id, s.attempts)
  BY <1>1, <1>2, <1>3, ConstantsOK DEF Earned
<1>. QED  BY <1>1, <1>4 DEF WorkerTrue, Growing

\* Where a row of the right shape comes from.
LEMMA RowShape ==
    ASSUME Inv, NEW j \in JobIds, Exists(j)
    PROVE  /\ job[j] \in JobRow /\ Earned(runs, j, job[j].attempts)
           /\ job[j].status = "completed" => j \in succeeded
           /\ job[j].status = "failed" => runs[j] = MaxAttempts
BY DEF Inv, RowsTrue, RowTrue, Exists

LEMMA StatusExists ==
    ASSUME NEW j \in JobIds, NEW s \in {"pending", "running", "completed", "failed"},
           job[j].status = s
    PROVE  Exists(j)
BY DEF Exists, NoJob, Deleted

\* Each row stays or is a true one, and so does each worker.
LEMMA StepKeeps ==
    ASSUME Inv, Growing, RestTyped,
           job' = [j \in JobIds |-> job'[j]], worker' = [w \in Workers |-> worker'[w]],
           \A j \in JobIds : job'[j] = job[j] \/ RowTrue(runs', succeeded', j, job'[j]),
           \A w \in Workers : worker'[w] = worker[w] \/ WorkerTrue(runs', succeeded', worker'[w])
    PROVE  Inv'
<1>1. RowsTrue'
  BY RowStays DEF Inv, RowsTrue
<1>2. WorkersTrue'
  BY WorkerStays DEF Inv, WorkersTrue
<1>3. /\ job' \in [JobIds -> JobRow \cup {NoJob, Deleted}]
      /\ worker' \in [Workers -> WorkerState \cup {Idle}]
  <2>1. \A j \in JobIds : job'[j] \in JobRow \cup {NoJob, Deleted}
    BY <1>1 DEF RowsTrue, RowTrue
  <2>2. \A w \in Workers : worker'[w] \in WorkerState \cup {Idle}
    BY <1>2 DEF WorkersTrue, WorkerTrue, WorkerState
  <2>. QED  BY <2>1, <2>2
<1>. QED  BY <1>1, <1>2, <1>3 DEF Inv, TypeOK, Growing, RestTyped

\* A statement has written row over that of job j, if there is one.
LEMMA UpdateKeeps ==
    ASSUME Inv, NEW j \in JobIds, NEW row, Update(j, row),
           Exists(j) => RowTrue(runs', succeeded', j, row)
    PROVE  /\ job' = [i \in JobIds |-> job'[i]]
           /\ \A i \in JobIds : job'[i] = job[i] \/ RowTrue(runs', succeeded', i, job'[i])
BY DEF Update, Inv, TypeOK

\* A worker is in another state.
LEMMA EnterKeeps ==
    ASSUME Inv, NEW w \in Workers, NEW s, worker' = [worker EXCEPT ![w] = s],
           WorkerTrue(runs', succeeded', s)
    PROVE  /\ worker' = [v \in Workers |-> worker'[v]]
           /\ \A v \in Workers :
                 worker'[v] = worker[v] \/ WorkerTrue(runs', succeeded', worker'[v])
BY DEF Inv, TypeOK

\* Rows or workers that stay as they are.
LEMMA Still ==
    ASSUME Inv
    PROVE  /\ UNCHANGED job =>
                 /\ job' = [i \in JobIds |-> job'[i]]
                 /\ \A i \in JobIds : job'[i] = job[i] \/ RowTrue(runs', succeeded', i, job'[i])
           /\ UNCHANGED worker =>
                 /\ worker' = [v \in Workers |-> worker'[v]]
                 /\ \A v \in Workers :
                       worker'[v] = worker[v] \/ WorkerTrue(runs', succeeded', worker'[v])
           /\ UNCHANGED observed => Growing
           /\ UNCHANGED <<retry, running, now, faults>> => RestTyped
BY ConstantsOK DEF Inv, TypeOK, observed, Growing, RestTyped

LEMMA InvInit == Init => Inv
<1>. SUFFICES ASSUME Init PROVE Inv
  OBVIOUS
<1>1. RowsTrue /\ WorkersTrue
  BY DEF Init, RowsTrue, RowTrue, WorkersTrue, WorkerTrue
<1>. QED  BY <1>1, ConstantsOK DEF Init, Inv, TypeOK, Clock

-----------------------------------------------------------------------------
(* The administrator *)

LEMMA AdminKeeps ==
    ASSUME Inv, Admin
    PROVE  Inv'
<1>1. CASE \E j \in JobIds : Enqueue(j)
  <2>1. PICK j \in JobIds, p \in Priorities, d \in Delays :
           /\ job[j] = NoJob
           /\ job' = [job EXCEPT ![j] =
                [status |-> "pending", priority |-> p, attempts |-> 0,
                 scheduledAt |-> After(d), startedAt |-> 0, completedAt |-> 0]]
    BY <1>1 DEF Enqueue
  <2>. DEFINE row == [status |-> "pending", priority |-> p, attempts |-> 0,
                      scheduledAt |-> After(d), startedAt |-> 0, completedAt |-> 0]
  <2>2. UNCHANGED <<worker, retry, running, now, faults, observed>>
    BY <1>1 DEF Enqueue
  <2>3. After(d) \in Clock /\ 0 \in Clock /\ 0 \in 0..MaxAttempts + 1
    BY AfterTyped, ConstantsOK DEF Inv, TypeOK, Clock
  <2>4. row \in JobRow
    BY <2>3 DEF JobRow
  <2>5. Earned(runs', j, 0)
    BY <2>2 DEF Earned, Inv, TypeOK, observed
  <2>6. RowTrue(runs', succeeded', j, row)
    BY <2>4, <2>5 DEF RowTrue
  <2>. HIDE DEF row
  <2>7. /\ job' = [i \in JobIds |-> job'[i]]
        /\ \A i \in JobIds : job'[i] = job[i] \/ RowTrue(runs', succeeded', i, job'[i])
    BY <2>1, <2>6 DEF row, Inv, TypeOK
  <2>. QED  BY <2>2, <2>7, Still, StepKeeps
<1>2. CASE \E a \in Admins : RetryWrite(a)
  <2>1. PICK a \in Admins : RetryWrite(a)
    BY <1>2
  <2>. DEFINE j == retry[a].id
              row == [job[j] EXCEPT !.status = "pending", !.attempts = 0, !.scheduledAt = now]
  <2>2. /\ UNCHANGED <<worker, running, now, faults, observed>> /\ Update(j, row)
        /\ retry[a].at = "write" /\ retry' = [retry EXCEPT ![a] = Idle]
    BY <2>1 DEF RetryWrite
  <2>3. j \in JobIds /\ RestTyped
    BY <2>2 DEF Inv, TypeOK, Idle, RestTyped
  <2>4. Exists(j) => RowTrue(runs', succeeded', j, row)
    <3>1. Earned(runs', j, 0)
      BY <2>2, <2>3 DEF Earned, Inv, TypeOK, observed
    <3>2. ASSUME Exists(j) PROVE row \in JobRow /\ row.status = "pending" /\ row.attempts = 0
      <4>1. job[j] \in JobRow /\ now \in Clock
        BY <2>3, <3>2, RowShape DEF Inv, TypeOK
      <4>2. 0 \in 0..MaxAttempts + 1
        BY ConstantsOK
      <4>. HIDE DEF j
      <4>. QED  BY <4>1, <4>2 DEF JobRow
    <3>. QED  BY <3>1, <3>2 DEF RowTrue
  <2>. HIDE DEF row, j
  <2>. QED  BY <2>2, <2>3, <2>4, UpdateKeeps, Still, StepKeeps
<1>3. CASE \E a \in Admins, j \in JobIds : RetryRead(a, j)
  <2>1. UNCHANGED <<job, worker, running, now, faults, observed>> /\ RestTyped
    BY <1>3 DEF RetryRead, Inv, TypeOK, RestTyped
  <2>. QED  BY <2>1, Still, StepKeeps
<1>4. CASE \E cutoff \in 0..now : Cleanup(cutoff)
  <2>1. /\ UNCHANGED <<worker, retry, running, now, faults, observed>>
        /\ job' = [j \in JobIds |-> job'[j]]
        /\ \A j \in JobIds : job'[j] \in {job[j], Deleted}
    BY <1>4 DEF Cleanup
  <2>2. \A j \in JobIds : job'[j] = job[j] \/ RowTrue(runs', succeeded', j, job'[j])
    BY <2>1 DEF RowTrue
  <2>. QED  BY <2>1, <2>2, Still, StepKeeps
<1>. QED  BY <1>1, <1>2, <1>3, <1>4 DEF Admin

-----------------------------------------------------------------------------
(* The workers *)

LEMMA ClaimKeeps ==
    ASSUME Inv, NEW w \in Workers, Claim(w) \/ Fetch(w)
    PROVE  Inv'
<1>1. CASE Claim(w)
  <2>1. PICK j \in Claimable :
           /\ job' = [job EXCEPT ![j].status = "running", ![j].startedAt = now]
           /\ worker' = [worker EXCEPT ![w] = [at |-> "fetch", took |-> j]]
    BY <1>1 DEF Claim, Enter
  <2>. DEFINE row == [job[j] EXCEPT !.status = "running", !.startedAt = now]
  <2>2. UNCHANGED <<retry, running, now, faults, observed>>
    BY <1>1 DEF Claim
  <2>3. j \in JobIds /\ Exists(j)
    BY <2>1, StatusExists DEF Claimable, WithStatus
  <2>4. job[j] \in JobRow /\ Earned(runs, j, job[j].attempts) /\ now \in Clock
    BY <2>3, RowShape DEF Inv, TypeOK
  <2>5. row \in JobRow /\ row.attempts = job[j].attempts /\ row.status = "running"
    BY <2>4 DEF JobRow
  <2>6. RowTrue(runs', succeeded', j, row)
    BY <2>2, <2>4, <2>5 DEF RowTrue, observed
  <2>7. job' = [job EXCEPT ![j] = row]
    BY <2>1
  <2>. HIDE DEF row
  <2>8. /\ job' = [i \in JobIds |-> job'[i]]
        /\ \A i \in JobIds : job'[i] = job[i] \/ RowTrue(runs', succeeded', i, job'[i])
    BY <2>3, <2>6, <2>7 DEF Inv, TypeOK
  <2>9. WorkerTrue(runs', succeeded', [at |-> "fetch", took |-> j])
    BY <2>3 DEF WorkerTrue
  <2>. QED  BY <2>1, <2>2, <2>8, <2>9, EnterKeeps, Still, StepKeeps
<1>2. CASE Fetch(w)
  <2>1. UNCHANGED <<job, retry, running, now, faults, observed>>
    BY <1>2 DEF Fetch
  <2>2. \E s : worker' = [worker EXCEPT ![w] = s] /\ WorkerTrue(runs', succeeded', s)
    <3>1. CASE \E j \in LatestStarted :
                 worker' = [worker EXCEPT ![w] = [at |-> "start", took |-> worker[w].took,
                              id |-> j, attempts |-> job[j].attempts]]
      <4>1. PICK j \in LatestStarted :
               worker' = [worker EXCEPT ![w] = [at |-> "start", took |-> worker[w].took,
                            id |-> j, attempts |-> job[j].attempts]]
        BY <3>1
      <4>. DEFINE s == [at |-> "start", took |-> worker[w].took,
                        id |-> j, attempts |-> job[j].attempts]
      <4>2. j \in JobIds /\ Exists(j)
        BY <4>1, StatusExists DEF LatestStarted, WithStatus
      <4>3. Earned(runs', j, job[j].attempts) /\ job[j].attempts \in 0..MaxAttempts + 1
        BY <2>1, <4>2, RowShape DEF JobRow, observed
      <4>4. worker[w].took \in JobIds
        BY <1>2 DEF Fetch, At, Inv, TypeOK, WorkerState, Idle
      <4>5. WorkerTrue(runs', succeeded', s)
        BY <4>2, <4>3, <4>4 DEF WorkerTrue
      <4>. QED  BY <4>1, <4>5
    <3>2. CASE worker' = [worker EXCEPT ![w] = Idle]
      BY <3>2 DEF WorkerTrue
    <3>. QED  BY <1>2, <3>1, <3>2 DEF Fetch, Enter
  <2>. QED  BY <2>1, <2>2, EnterKeeps, Still, StepKeeps
<1>. QED  BY <1>1, <1>2

\* What is known of a worker that has a job.
LEMMA AtWork ==
    ASSUME Inv, NEW w \in Workers, worker[w].at \in {"start", "run", "complete", "fail"}
    PROVE  /\ worker[w] \in [at : {"start", "run", "complete", "fail"}, took : JobIds,
                             id : JobIds, attempts : 0..MaxAttempts + 1]
           /\ worker[w].id \in JobIds /\ worker[w].attempts \in 0..MaxAttempts + 1
           /\ Earned(runs, worker[w].id, worker[w].attempts)
           /\ worker[w].at = "complete" => worker[w].id \in succeeded
<1>1. worker[w] # Idle /\ worker[w] \notin [at : {"fetch"}, took : JobIds]
  BY DEF Idle
<1>. QED  BY <1>1 DEF Inv, WorkersTrue, WorkerTrue

LEMMA RunKeeps ==
    ASSUME Inv, NEW w \in Workers, RunHandler(w), UNCHANGED succeeded
    PROVE  /\ Growing
           /\ worker' = [v \in Workers |-> worker'[v]]
           /\ \A v \in Workers :
                 worker'[v] = worker[v] \/ WorkerTrue(runs', succeeded', worker'[v])
           /\ Attempt(worker[w].attempts) \in 0..MaxAttempts + 1
           /\ Earned(runs', worker[w].id, Attempt(worker[w].attempts))
<1>. DEFINE r == worker[w]
            n == Attempt(r.attempts)
            s == [r EXCEPT !.at = "run", !.attempts = n]
<1>1. /\ r.at = "start"
      /\ worker' = [worker EXCEPT ![w].at = "run", ![w].attempts = Attempt(@)]
      /\ runs' = [runs EXCEPT ![r.id] = IF @ < MaxAttempts THEN @ + 1 ELSE @]
  BY DEF RunHandler, At
<1>2. /\ r \in [at : {"start", "run", "complete", "fail"}, took : JobIds,
                id : JobIds, attempts : 0..MaxAttempts + 1]
      /\ r.id \in JobIds /\ r.attempts \in 0..MaxAttempts + 1
      /\ Earned(runs, r.id, r.attempts)
  BY <1>1, AtWork
<1>3. n \in 0..MaxAttempts + 1 /\ n <= r.attempts + 1
  BY <1>2, AttemptTyped
<1>4. worker' = [worker EXCEPT ![w] = s]
  BY <1>1
<1>. HIDE DEF n
<1>5. s.id = r.id /\ s.attempts = n /\ s.at = "run"
      /\ s \in [at : {"start", "run", "complete", "fail"}, took : JobIds,
                id : JobIds, attempts : 0..MaxAttempts + 1]
  BY <1>2, <1>3
<1>. HIDE DEF r, s
<1>6. /\ runs \in [JobIds -> 0..MaxAttempts] /\ MaxAttempts \in Nat \ {0}
      /\ succeeded \subseteq JobIds
  BY ConstantsOK DEF Inv, TypeOK
<1>7. Growing
  BY <1>1, <1>2, <1>6 DEF Growing
<1>8. Earned(runs', r.id, n)
  <2>1. runs'[r.id] = IF runs[r.id] < MaxAttempts THEN runs[r.id] + 1 ELSE runs[r.id]
    BY <1>1, <1>2, <1>6
  <2>2. runs[r.id] \in 0..MaxAttempts
    BY <1>2, <1>6
  <2>. QED  BY <1>2, <1>3, <1>6, <2>1, <2>2 DEF Earned
<1>9. WorkerTrue(runs', succeeded', s)
  BY <1>5, <1>8 DEF WorkerTrue
<1>10. /\ worker' = [v \in Workers |-> worker'[v]]
       /\ \A v \in Workers :
             worker'[v] = worker[v] \/ WorkerTrue(runs', succeeded', worker'[v])
  BY <1>4, <1>9, EnterKeeps
<1>. QED  BY <1>3, <1>7, <1>8, <1>10 DEF r, n

\* processJob up to the handler's return.
LEMMA HandlerKeeps ==
    ASSUME Inv, NEW w \in Workers, NoHandler(w) \/ CallHandler(w) \/ HandlerReturns(w)
    PROVE  Inv'
<1>. DEFINE r == worker[w]
            j == r.id
<1>1. /\ r \in [at : {"start", "run", "complete", "fail"}, took : JobIds,
                id : JobIds, attempts : 0..MaxAttempts + 1]
      /\ j \in JobIds /\ Earned(runs, r.id, r.attempts)
  BY AtWork DEF NoHandler, CallHandler, RunHandler, HandlerReturns, At
<1>2. ASSUME NEW stage \in {"complete", "fail"}, Proceed(w, stage), UNCHANGED runs,
             stage = "complete" => j \in succeeded'
      PROVE  /\ worker' = [v \in Workers |-> worker'[v]]
             /\ \A v \in Workers :
                   worker'[v] = worker[v] \/ WorkerTrue(runs', succeeded', worker'[v])
  <2>. DEFINE s == [r EXCEPT !.at = stage]
  <2>1. worker' = [worker EXCEPT ![w] = s]
    BY <1>2 DEF Proceed
  <2>2. /\ s.id = r.id /\ s.attempts = r.attempts /\ s.at = stage
        /\ s \in [at : {"start", "run", "complete", "fail"}, took : JobIds,
                  id : JobIds, attempts : 0..MaxAttempts + 1]
    BY <1>1
  <2>. HIDE DEF s
  <2>3. WorkerTrue(runs', succeeded', s)
    BY <1>1, <1>2, <2>2 DEF WorkerTrue
  <2>. QED  BY <2>1, <2>3, EnterKeeps
<1>3. CASE NoHandler(w)
  <2>1. /\ UNCHANGED <<job, retry, running, now, faults, observed>> /\ Proceed(w, "fail")
        /\ UNCHANGED runs
    BY <1>3 DEF NoHandler, observed
  <2>. QED  BY <1>2, <2>1, Still, StepKeeps
<1>4. CASE CallHandler(w)
  <2>. DEFINE n == Attempt(r.attempts)
              row == [job[j] EXCEPT !.attempts = n]
  <2>1. /\ RunHandler(w) /\ UNCHANGED <<retry, running, now, faults, succeeded>>
        /\ Update(j, row)
    BY <1>4 DEF CallHandler
  <2>2. Growing /\ n \in 0..MaxAttempts + 1 /\ Earned(runs', j, n)
    BY <2>1, RunKeeps
  <2>. HIDE DEF n
  <2>3. ASSUME Exists(j) PROVE RowTrue(runs', succeeded', j, row)
    <3>1. job[j] \in JobRow /\ RowTrue(runs, succeeded, j, job[j])
      BY <1>1, <2>3, RowShape DEF Inv, RowsTrue
    <3>2. RowTrue(runs', succeeded', j, job[j])
      BY <1>1, <2>2, <3>1, RowStays DEF Inv
    <3>3. row \in JobRow /\ row.attempts = n /\ row.status = job[j].status
      BY <2>2, <3>1 DEF JobRow
    <3>4. job[j] \notin {NoJob, Deleted}
      BY <2>3 DEF Exists
    <3>. QED  BY <2>2, <3>2, <3>3, <3>4 DEF RowTrue
  <2>. HIDE DEF row, j, r
  <2>4. /\ job' = [i \in JobIds |-> job'[i]]
        /\ \A i \in JobIds : job'[i] = job[i] \/ RowTrue(runs', succeeded', i, job'[i])
    BY <1>1, <2>1, <2>3, UpdateKeeps
  <2>. QED  BY <2>1, <2>2, <2>4, RunKeeps, Still, StepKeeps
<1>5. CASE HandlerReturns(w)
  <2>1. /\ UNCHANGED <<job, retry, running, now, faults, runs>>
        /\ \/ Proceed(w, "complete") /\ succeeded' = succeeded \cup {j}
           \/ Proceed(w, "fail") /\ UNCHANGED succeeded
    BY <1>5 DEF HandlerReturns
  <2>2. Growing
    BY <1>1, <2>1, ConstantsOK DEF Growing, Inv, TypeOK
  <2>3. /\ worker' = [v \in Workers |-> worker'[v]]
        /\ \A v \in Workers :
              worker'[v] = worker[v] \/ WorkerTrue(runs', succeeded', worker'[v])
    <3>1. CASE Proceed(w, "complete") /\ succeeded' = succeeded \cup {j}
      <4>1. j \in succeeded'
        BY <3>1
      <4>. HIDE DEF j, r
      <4>. QED  BY <1>2, <2>1, <3>1, <4>1
    <3>2. CASE Proceed(w, "fail")
      BY <1>2, <2>1, <3>2
    <3>. QED  BY <2>1, <3>1, <3>2
  <2>. QED  BY <2>1, <2>2, <2>3, Still, StepKeeps
<1>. QED  BY <1>3, <1>4, <1>5

\* The outcome is written: completed by who saw success, failed by who
\* holds an earned count of MaxAttempts.
LEMMA OutcomeKeeps ==
    ASSUME Inv, NEW w \in Workers, completeJob(w) \/ failJob(w)
    PROVE  Inv'
<1>. DEFINE r == worker[w]
            j == r.id
            again == [job[j] EXCEPT !.status = "pending",
                         !.scheduledAt = After(RetryDelay * r.attempts)]
            ended(st) == [job[j] EXCEPT !.status = st, !.completedAt = now]
<1>1. /\ j \in JobIds /\ r.attempts \in 0..MaxAttempts + 1 /\ Earned(runs, j, r.attempts)
      /\ r.at = "complete" => j \in succeeded
  BY AtWork DEF completeJob, failJob, EndAttempt, At
<1>2. /\ worker' = [worker EXCEPT ![w] = Idle]
      /\ UNCHANGED <<retry, running, now, faults, observed>> /\ UNCHANGED runs /\ UNCHANGED succeeded
  BY DEF completeJob, failJob, EndAttempt, Enter, observed
<1>3. WorkerTrue(runs', succeeded', Idle)
  BY DEF WorkerTrue
<1>4. \/ r.at = "complete" /\ Update(j, ended("completed"))
      \/ r.attempts < MaxAttempts /\ Update(j, again)
      \/ ~(r.attempts < MaxAttempts) /\ Update(j, ended("failed"))
  BY DEF completeJob, failJob, EndAttempt, At
<1>5. now \in Clock /\ After(RetryDelay * r.attempts) \in Clock
  <2>1. RetryDelay * r.attempts \in Nat
    BY <1>1, ConstantsOK
  <2>. QED  BY <2>1, AfterTyped DEF Inv, TypeOK
<1>6. ~(r.attempts < MaxAttempts) => runs[j] = MaxAttempts
  <2>1. runs[j] \in 0..MaxAttempts
    BY <1>1 DEF Inv, TypeOK
  <2>. QED  BY <1>1, <2>1, ConstantsOK DEF Earned
<1>7. \E row : Update(j, row) /\ (Exists(j) => RowTrue(runs', succeeded', j, row))
  <2>1. CASE r.at = "complete" /\ Update(j, ended("completed"))
    <3>1. ASSUME Exists(j) PROVE RowTrue(runs', succeeded', j, ended("completed"))
      <4>1. job[j] \in JobRow /\ Earned(runs, j, job[j].attempts)
        BY <1>1, <3>1, RowShape
      <4>2. /\ ended("completed") \in JobRow /\ ended("completed").attempts = job[j].attempts
            /\ ended("completed").status = "completed"
        BY <1>5, <4>1 DEF JobRow
      <4>. HIDE DEF ended
      <4>. QED  BY <1>1, <1>2, <2>1, <4>1, <4>2 DEF RowTrue
    <3>. QED  BY <2>1, <3>1
  <2>2. CASE r.attempts < MaxAttempts /\ Update(j, again)
    <3>1. ASSUME Exists(j) PROVE RowTrue(runs', succeeded', j, again)
      <4>1. job[j] \in JobRow /\ Earned(runs, j, job[j].attempts)
        BY <1>1, <3>1, RowShape
      <4>2. again \in JobRow /\ again.attempts = job[j].attempts /\ again.status = "pending"
        BY <1>5, <4>1 DEF JobRow
      <4>. HIDE DEF again
      <4>. QED  BY <1>2, <4>1, <4>2 DEF RowTrue
    <3>. QED  BY <2>2, <3>1
  <2>3. CASE ~(r.attempts < MaxAttempts) /\ Update(j, ended("failed"))
    <3>1. ASSUME Exists(j) PROVE RowTrue(runs', succeeded', j, ended("failed"))
      <4>1. job[j] \in JobRow /\ Earned(runs, j, job[j].attempts)
        BY <1>1, <3>1, RowShape
      <4>2. /\ ended("failed") \in JobRow /\ ended("failed").attempts = job[j].attempts
            /\ ended("failed").status = "failed"
        BY <1>5, <4>1 DEF JobRow
      <4>. HIDE DEF ended
      <4>. QED  BY <1>2, <1>6, <2>3, <4>1, <4>2 DEF RowTrue
    <3>. QED  BY <2>3, <3>1
  <2>. QED  BY <1>4, <2>1, <2>2, <2>3
<1>. HIDE DEF r, j, again, ended
<1>8. /\ job' = [i \in JobIds |-> job'[i]]
      /\ \A i \in JobIds : job'[i] = job[i] \/ RowTrue(runs', succeeded', i, job'[i])
  BY <1>1, <1>7, UpdateKeeps
<1>. QED  BY <1>2, <1>3, <1>8, EnterKeeps, Still, StepKeeps

-----------------------------------------------------------------------------
(* Stopping, restarting, faults and time *)

LEMMA FaultKeeps ==
    ASSUME Inv, NEW w \in Workers, StatementFails(w)
    PROVE  Inv'
<1>1. UNCHANGED <<job, retry, running, now, succeeded>> /\ RestTyped
  BY ConstantsOK DEF StatementFails, RestTyped, Inv, TypeOK
<1>2. CASE worker' = [worker EXCEPT ![w] = Idle] /\ UNCHANGED runs
  <2>1. WorkerTrue(runs', succeeded', Idle) /\ UNCHANGED observed
    BY <1>1, <1>2 DEF WorkerTrue, observed
  <2>. QED  BY <1>1, <1>2, <2>1, EnterKeeps, Still, StepKeeps
<1>3. CASE RunHandler(w)
  BY <1>1, <1>3, RunKeeps, Still, StepKeeps
<1>. QED  BY <1>2, <1>3 DEF StatementFails, Enter

LEMMA WorldKeeps ==
    ASSUME Inv, Stop \/ Restart \/ Tick
    PROVE  Inv'
<1>1. UNCHANGED <<job, observed>>
  BY DEF Stop, Restart, Tick
<1>2. RestTyped
  <2>1. CASE Stop
    BY <2>1 DEF Stop, RestTyped, Inv, TypeOK
  <2>2. CASE Restart
    <3>1. faults' \in 0..MaxFaults
      BY <2>2, ConstantsOK DEF Restart, Inv, TypeOK
    <3>2. retry' \in [Admins -> [at : {"write"}, id : JobIds] \cup {Idle}]
      BY <2>2 DEF Restart
    <3>. QED  BY <2>2, <3>1, <3>2 DEF Restart, RestTyped, Inv, TypeOK
  <2>3. CASE Tick
    <3>1. now' \in Clock
      BY <2>3, ConstantsOK DEF Tick, Inv, TypeOK, Clock
    <3>. QED  BY <2>3, <3>1 DEF Tick, RestTyped, Inv, TypeOK
  <2>. QED  BY <2>1, <2>2, <2>3
<1>3. /\ worker' = [v \in Workers |-> worker'[v]]
      /\ \A v \in Workers :
            worker'[v] = worker[v] \/ WorkerTrue(runs', succeeded', worker'[v])
  <2>1. CASE UNCHANGED worker
    BY <2>1, Still
  <2>2. CASE worker' = [v \in Workers |-> Idle]
    BY <2>2 DEF WorkerTrue
  <2>. QED  BY <2>1, <2>2 DEF Stop, Restart, Tick
<1>. QED  BY <1>1, <1>2, <1>3, Still, StepKeeps

LEMMA InvNext == Inv /\ [Next]_vars => Inv'
<1>. SUFFICES ASSUME Inv, [Next]_vars PROVE Inv'
  OBVIOUS
<1>1. CASE UNCHANGED vars
  <2>1. UNCHANGED <<job, worker, retry, running, now, faults, observed>>
    BY <1>1 DEF vars, observed
  <2>. QED  BY <2>1, Still, StepKeeps
<1>2. CASE Admin
  BY <1>2, AdminKeeps
<1>3. ASSUME NEW w \in Workers, Work(w) PROVE Inv'
  BY <1>3, ClaimKeeps, HandlerKeeps, OutcomeKeeps DEF Work
<1>4. ASSUME NEW w \in Workers, StatementFails(w) PROVE Inv'
  BY <1>4, FaultKeeps
<1>5. CASE Stop \/ Restart \/ Tick
  BY <1>5, WorldKeeps
<1>. QED  BY <1>1, <1>2, <1>3, <1>4, <1>5 DEF Next

\* Inv holds in every reachable state.
THEOREM Invariant == Spec => []Inv
<1>. QED  BY InvInit, InvNext, PTL DEF Spec

-----------------------------------------------------------------------------
(* The theorems *)

(* Rows and workers are well typed: times stay on the clock and no count   *)
(* of attempts is negative or lost, whatever copies are written back.      *)
THEOREM TypeCorrect == Spec => []TypeOK
<1>1. Inv => TypeOK
  BY DEF Inv
<1>. QED  BY <1>1, Invariant, PTL

(* A job says completed only if its handler returned nil, and failed only  *)
(* if the handler ran max_attempts times, for any number of workers and    *)
(* RetryJob calls, and any failing statements and restarts (processJob).   *)
THEOREM OutcomesAreTruthful == Spec => []TruthfulOutcome
<1>1. Inv => TruthfulOutcome
  <2>. SUFFICES ASSUME Inv PROVE TruthfulOutcome
    OBVIOUS
  <2>1. ASSUME NEW j \in JobIds, job[j].status = "completed" PROVE j \in succeeded
    BY <2>1, StatusExists, RowShape
  <2>2. ASSUME NEW j \in JobIds, job[j].status = "failed" PROVE runs[j] = MaxAttempts
    BY <2>2, StatusExists, RowShape
  <2>. QED  BY <2>1, <2>2 DEF TruthfulOutcome, WithStatus
<1>. QED  BY <1>1, Invariant, PTL

-----------------------------------------------------------------------------
(* One worker, no faults.                                                  *)
(*                                                                         *)
(* With one worker the only running row is the one it has claimed, so the  *)
(* SELECT for the latest start finds it; nobody else writes the count of   *)
(* attempts but RetryJob, which starts it again at 0.  This holds for any  *)
(* number of RetryJob calls, whatever they overwrite, and with or without  *)
(* a handler for the type of the job.                                      *)

Held(k, j) == k # Idle /\ k.took = j

\* The row of job j, next to a worker in state k.
RowFits(row, j, k) ==
    row \notin {NoJob, Deleted} =>
        /\ row.attempts <= MaxAttempts
        /\ row.status = "running" => Held(k, j)
        /\ Held(k, j) /\ k.at = "fetch" => row.attempts < MaxAttempts
        /\ Held(k, j) /\ k.at # "fetch" => row.attempts <= k.attempts
        /\ ~Held(k, j) /\ row.status = "pending" => row.attempts < MaxAttempts

HandFits(k) ==
    k # Idle /\ k.at # "fetch" =>
        /\ k.id = k.took
        /\ k.attempts <= MaxAttempts
        /\ k.at = "start" => k.attempts < MaxAttempts

AllFits(k) == HandFits(k) /\ \A j \in JobIds : RowFits(job[j], j, k)

LoneInv(w) == Inv /\ AllFits(worker[w])

\* A row the worker neither had nor has.
LEMMA FitsElsewhere ==
    ASSUME NEW row, NEW j, NEW k, NEW m, RowFits(row, j, k), ~Held(k, j), ~Held(m, j)
    PROVE  RowFits(row, j, m)
BY DEF RowFits

\* The states of a worker, by stage.
LEMMA WorkerShape ==
    ASSUME TypeOK, NEW w \in Workers
    PROVE  /\ worker[w].at = "idle" <=> worker[w] = Idle
           /\ worker[w].at = "fetch" => worker[w] \in [at : {"fetch"}, took : JobIds]
           /\ worker[w].at \in {"start", "run", "complete", "fail"} =>
                 worker[w] \in [at : {"start", "run", "complete", "fail"}, took : JobIds,
                                id : JobIds, attempts : 0..MaxAttempts + 1]
           /\ worker[w].at \in {"idle", "fetch", "start", "run", "complete", "fail"}
BY DEF TypeOK, WorkerState, Idle

LEMMA RowTyped ==
    ASSUME TypeOK, NEW j \in JobIds
    PROVE  /\ Exists(j) <=> job[j] \notin {NoJob, Deleted}
           /\ Exists(j) => job[j] \in JobRow
BY DEF TypeOK, Exists

LEMMA Entered ==
    ASSUME TypeOK, NEW w \in Workers, NEW m, Enter(w, m)
    PROVE  worker'[w] = m
BY DEF TypeOK, Enter

-----------------------------------------------------------------------------
(* One worker: the administrator *)

\* Whatever the administrator does to a row, the worker can cope with it.
LEMMA LoneAdmin ==
    ASSUME NEW w \in Workers, LoneInv(w), Admin
    PROVE  AllFits(worker[w])'
<1>1. worker' = worker /\ TypeOK
  BY DEF Admin, Enqueue, RetryWrite, RetryRead, Cleanup, LoneInv, Inv
<1>2. PICK k : k = worker[w]
  OBVIOUS
<1>3. HandFits(k) /\ \A j \in JobIds : RowFits(job[j], j, k)
  BY <1>2 DEF LoneInv, AllFits
<1>4. Held(k, k.took) /\ k.at # "fetch" => k.attempts \in Nat
  BY <1>1, <1>2, WorkerShape, ConstantsOK DEF Held
<1>5. ASSUME NEW j, NEW row, row.attempts = 0, row.status = "pending"
      PROVE  RowFits(row, j, k)
  BY <1>4, <1>5, ConstantsOK DEF RowFits, Held
<1>6. ASSUME NEW j \in JobIds
      PROVE  RowFits(job[j], j, k)'
  <2>1. CASE \E i \in JobIds : Enqueue(i)
    <3>1. PICK i \in JobIds, p \in Priorities, d \in Delays :
             job' = [job EXCEPT ![i] =
                [status |-> "pending", priority |-> p, attempts |-> 0,
                 scheduledAt |-> After(d), startedAt |-> 0, completedAt |-> 0]]
      BY <2>1 DEF Enqueue
    <3>2. i # j => job'[j] = job[j]
      BY <1>1, <3>1 DEF TypeOK
    <3>3. i = j => job'[j].attempts = 0 /\ job'[j].status = "pending"
      BY <1>1, <3>1 DEF TypeOK
    <3>. QED  BY <1>3, <1>5, <3>2, <3>3
  <2>2. CASE \E a \in Admins : RetryWrite(a)
    <3>1. PICK a \in Admins : RetryWrite(a)
      BY <2>2
    <3>2. PICK i \in JobIds : i = retry[a].id
      BY <1>1, <3>1 DEF RetryWrite, TypeOK, Idle
    <3>3. Update(i, [job[i] EXCEPT !.status = "pending", !.attempts = 0,
                                   !.scheduledAt = now])
      BY <3>1, <3>2 DEF RetryWrite
    <3>4. i # j \/ ~Exists(i) => job'[j] = job[j]
      BY <1>1, <3>3 DEF TypeOK, Update
    <3>5. i = j /\ Exists(i) => job'[j].attempts = 0 /\ job'[j].status = "pending"
      BY <1>1, <3>3, RowTyped DEF TypeOK, Update, JobRow
    <3>. QED  BY <1>3, <1>5, <3>4, <3>5
  <2>3. CASE \E a \in Admins, i \in JobIds : RetryRead(a, i)
    BY <1>3, <2>3 DEF RetryRead
  <2>4. CASE \E cutoff \in 0..now : Cleanup(cutoff)
    <3>1. job'[j] = job[j] \/ job'[j] = Deleted
      BY <2>4 DEF Cleanup
    <3>. QED  BY <1>3, <3>1 DEF RowFits
  <2>. QED  BY <2>1, <2>2, <2>3, <2>4 DEF Admin
<1>7. HandFits(k)'
  BY <1>3 DEF HandFits
<1>. QED  BY <1>1, <1>2, <1>6, <1>7 DEF AllFits

-----------------------------------------------------------------------------
(* One worker: its own steps *)

\* It claims when no row is running.
LEMMA LoneClaim ==
    ASSUME NEW w \in Workers, LoneInv(w), Claim(w)
    PROVE  AllFits(worker[w])'
<1>1. worker[w] = Idle /\ TypeOK /\ \A j \in JobIds : RowFits(job[j], j, Idle)
  BY WorkerShape DEF Claim, At, LoneInv, Inv, AllFits
<1>2. PICK j \in Claimable :
         /\ job' = [job EXCEPT ![j].status = "running", ![j].startedAt = now]
         /\ Enter(w, [at |-> "fetch", took |-> j])
  BY DEF Claim
<1>3. j \in JobIds /\ Exists(j) /\ job[j].status = "pending" /\ job[j] \in JobRow
  BY <1>1, <1>2, StatusExists, RowTyped DEF Claimable, WithStatus
<1>4. PICK m : m = [at |-> "fetch", took |-> j]
  OBVIOUS
<1>5. m.at = "fetch" /\ m.took = j /\ m # Idle /\ worker'[w] = m
  BY <1>1, <1>2, <1>4, Entered DEF Idle
<1>6. /\ job'[j].status = "running" /\ job'[j].attempts = job[j].attempts
      /\ \A i \in JobIds : i # j => job'[i] = job[i]
  BY <1>1, <1>2, <1>3 DEF TypeOK, JobRow
<1>7. job[j].attempts < MaxAttempts /\ job[j].attempts <= MaxAttempts
  BY <1>1, <1>3 DEF RowFits, Held, Exists
<1>8. ASSUME NEW i \in JobIds
      PROVE  RowFits(job'[i], i, m)
  <2>1. CASE i = j
    BY <1>5, <1>6, <1>7, <2>1 DEF RowFits, Held
  <2>2. CASE i # j
    BY <1>1, <1>5, <1>6, <2>2, FitsElsewhere DEF Held
  <2>. QED  BY <2>1, <2>2
<1>9. HandFits(m)
  BY <1>5 DEF HandFits
<1>. QED  BY <1>5, <1>8, <1>9 DEF AllFits, HandFits

\* It finds what it claimed, or nothing when RetryJob has made it pending.
LEMMA LoneFetch ==
    ASSUME NEW w \in Workers, LoneInv(w), Fetch(w)
    PROVE  AllFits(worker[w])'
<1>1. PICK k : k = worker[w]
  OBVIOUS
<1>2. /\ TypeOK /\ job' = job /\ k.at = "fetch" /\ k # Idle
      /\ \A j \in JobIds : RowFits(job[j], j, k)
  BY <1>1 DEF Fetch, At, LoneInv, Inv, AllFits, Idle
<1>3. ASSUME NEW j \in LatestStarted,
             Enter(w, [at |-> "start", took |-> worker[w].took, id |-> j,
                       attempts |-> job[j].attempts])
      PROVE  AllFits(worker[w])'
  <2>1. j \in JobIds /\ job[j].status = "running" /\ Exists(j) /\ job[j] \in JobRow
    BY <1>2, StatusExists, RowTyped DEF LatestStarted, WithStatus
  <2>2. k.took = j /\ job[j].attempts < MaxAttempts /\ job[j].attempts <= MaxAttempts
    BY <1>2, <2>1 DEF RowFits, Held, Exists
  <2>3. PICK m : m = [at |-> "start", took |-> worker[w].took, id |-> j,
                      attempts |-> job[j].attempts]
    OBVIOUS
  <2>4. /\ m.at = "start" /\ m.took = j /\ m.id = j /\ m.attempts = job[j].attempts
        /\ m # Idle /\ worker'[w] = m
    BY <1>1, <1>2, <1>3, <2>2, <2>3, Entered DEF Idle
  <2>5. ASSUME NEW i \in JobIds
        PROVE  RowFits(job[i], i, m)
    <3>1. CASE i = j
      <4>1. job[j].attempts \in Int
        BY <2>1, ConstantsOK DEF JobRow
      <4>. QED  BY <2>2, <2>4, <3>1, <4>1 DEF RowFits, Held
    <3>2. CASE i # j
      BY <1>2, <2>2, <2>4, <3>2, FitsElsewhere DEF Held
    <3>. QED  BY <3>1, <3>2
  <2>6. HandFits(m)
    BY <2>2, <2>4 DEF HandFits
  <2>. QED  BY <1>2, <2>4, <2>5, <2>6 DEF AllFits, HandFits
<1>4. ASSUME LatestStarted = {}, Enter(w, Idle)
      PROVE  AllFits(worker[w])'
  <2>1. ASSUME NEW j \in JobIds, job[j].status = "running"
        PROVE  FALSE
    <3>1. /\ Exists(j) /\ job[j] \in JobRow
          /\ \A i \in JobIds : job[i].status = "running" => i = k.took
      BY <1>2, <2>1, StatusExists, RowTyped DEF RowFits, Held, Exists
    <3>2. job[j].startedAt <= job[j].startedAt
      BY <3>1, ConstantsOK DEF JobRow, Clock
    <3>. QED  BY <1>4, <2>1, <3>1, <3>2 DEF LatestStarted, WithStatus
  <2>2. ASSUME NEW i \in JobIds
        PROVE  RowFits(job[i], i, Idle)
    <3>1. ~Held(Idle, i)
      BY DEF Held
    <3>2. Held(k, i) => k.at = "fetch"
      BY <1>2
    <3>. QED  BY <1>2, <2>1, <3>1, <3>2 DEF RowFits
  <2>3. HandFits(Idle)
    BY DEF HandFits
  <2>. QED  BY <1>2, <1>4, <2>2, <2>3, Entered DEF AllFits, HandFits
<1>. QED  BY <1>3, <1>4 DEF Fetch

\* What one worker knows of the job it works on.
LEMMA LoneFacts ==
    ASSUME NEW w \in Workers, LoneInv(w),
           worker[w].at \in {"start", "run", "complete", "fail"}
    PROVE  \E k, j :
              /\ k = worker[w] /\ j = k.took /\ j = k.id /\ j \in JobIds /\ k # Idle
              /\ k \in [at : {"start", "run", "complete", "fail"}, took : JobIds,
                        id : JobIds, attempts : 0..MaxAttempts + 1]
              /\ k.attempts <= MaxAttempts
              /\ k.at = "start" => k.attempts < MaxAttempts
              /\ Exists(j) => job[j] \in JobRow /\ job[j].attempts <= k.attempts
<1>1. PICK k : k = worker[w]
  OBVIOUS
<1>2. /\ k \in [at : {"start", "run", "complete", "fail"}, took : JobIds,
                id : JobIds, attempts : 0..MaxAttempts + 1]
      /\ TypeOK /\ HandFits(k) /\ k # Idle /\ k.at # "fetch"
  BY <1>1, WorkerShape DEF LoneInv, Inv, AllFits, Idle
<1>3. PICK j \in JobIds : j = k.took
  BY <1>2
<1>4. j = k.id /\ k.attempts <= MaxAttempts /\ (k.at = "start" => k.attempts < MaxAttempts)
  BY <1>2, <1>3 DEF HandFits
<1>5. Exists(j) => job[j] \in JobRow /\ job[j].attempts <= k.attempts
  BY <1>1, <1>2, <1>3, RowTyped DEF LoneInv, AllFits, RowFits, Held
<1>. QED  BY <1>1, <1>2, <1>3, <1>4, <1>5

\* A step of the worker changes the row of its job only.
LEMMA LoneWork ==
    ASSUME NEW w \in Workers, LoneInv(w), NEW k, k = worker[w],
           NEW m, worker'[w] = m, m = Idle \/ m.took = k.took,
           \A i \in JobIds : i # k.took => job'[i] = job[i],
           RowFits(job'[k.took], k.took, m), HandFits(m)
    PROVE  AllFits(worker[w])'
<1>1. ASSUME NEW i \in JobIds, i # k.took
      PROVE  RowFits(job'[i], i, m)
  <2>1. ~Held(k, i) /\ ~Held(m, i)
    BY <1>1 DEF Held
  <2>. QED  BY <1>1, <2>1, FitsElsewhere DEF LoneInv, AllFits
<1>. QED  BY <1>1 DEF AllFits, HandFits

\* The handler is missing, or has returned: the row is as it was.
LEMMA LoneMoves ==
    ASSUME NEW w \in Workers, LoneInv(w), NoHandler(w) \/ HandlerReturns(w)
    PROVE  AllFits(worker[w])'
<1>1. worker[w].at \in {"start", "run", "complete", "fail"} /\ job' = job
  BY DEF NoHandler, HandlerReturns, At
<1>2. PICK k, j :
         /\ k = worker[w] /\ j = k.took /\ j = k.id /\ j \in JobIds /\ k # Idle
         /\ k \in [at : {"start", "run", "complete", "fail"}, took : JobIds,
                   id : JobIds, attempts : 0..MaxAttempts + 1]
         /\ k.attempts <= MaxAttempts
         /\ k.at = "start" => k.attempts < MaxAttempts
         /\ Exists(j) => job[j] \in JobRow /\ job[j].attempts <= k.attempts
  BY <1>1, LoneFacts
<1>3. PICK stage \in {"complete", "fail"} : Proceed(w, stage)
  BY DEF NoHandler, HandlerReturns
<1>4. PICK m : m = [k EXCEPT !.at = stage]
  OBVIOUS
<1>5. /\ m.at = stage /\ m.took = j /\ m.id = j /\ m.attempts = k.attempts /\ m # Idle
      /\ worker'[w] = m
  BY <1>2, <1>3, <1>4, Entered DEF Proceed, Enter, Idle, LoneInv, Inv
<1>6. HandFits(m)
  BY <1>2, <1>5 DEF HandFits
<1>7. RowFits(job[j], j, k)
  BY <1>2 DEF LoneInv, AllFits
<1>8. RowFits(job'[j], j, m)
  BY <1>1, <1>2, <1>5, <1>7 DEF RowFits, Held
<1>9. k = worker[w] /\ j = k.took /\ m.took = k.took
  BY <1>2, <1>5
<1>10. worker'[w] = m /\ \A i \in JobIds : i # k.took => job'[i] = job[i]
  BY <1>1, <1>5
<1>. QED  BY <1>6, <1>8, <1>9, <1>10, LoneWork

\* The attempt is counted in the row and in the worker alike.
LEMMA LoneCall ==
    ASSUME NEW w \in Workers, LoneInv(w), CallHandler(w)
    PROVE  AllFits(worker[w])'
<1>1. worker[w].at = "start"
  BY DEF CallHandler, RunHandler, At
<1>2. PICK k, j :
         /\ k = worker[w] /\ j = k.took /\ j = k.id /\ j \in JobIds /\ k # Idle
         /\ k \in [at : {"start", "run", "complete", "fail"}, took : JobIds,
                   id : JobIds, attempts : 0..MaxAttempts + 1]
         /\ k.attempts <= MaxAttempts
         /\ k.at = "start" => k.attempts < MaxAttempts
         /\ Exists(j) => job[j] \in JobRow /\ job[j].attempts <= k.attempts
  BY <1>1, LoneFacts
<1>3. PICK n : n = Attempt(k.attempts)
  OBVIOUS
<1>4. n = k.attempts + 1 /\ n \in Nat /\ n <= MaxAttempts
  BY <1>1, <1>2, <1>3, ConstantsOK DEF Attempt
<1>5. PICK m : m = [k EXCEPT !.at = "run", !.attempts = n]
  OBVIOUS
<1>6. /\ m.at = "run" /\ m.took = j /\ m.id = j /\ m.attempts = n /\ m # Idle
      /\ worker'[w] = m
  <2>1. worker' = [worker EXCEPT ![w] = m]
    BY <1>2, <1>3, <1>5 DEF CallHandler, RunHandler
  <2>2. worker'[w] = m
    BY <2>1, Entered DEF Enter, LoneInv, Inv
  <2>. QED  BY <1>2, <1>5, <2>2 DEF Idle
<1>7. Update(j, [job[j] EXCEPT !.attempts = n])
  BY <1>2, <1>3 DEF CallHandler
<1>8. \A i \in JobIds : i # j => job'[i] = job[i]
  BY <1>7 DEF Update, LoneInv, Inv, TypeOK
<1>9. HandFits(m)
  BY <1>4, <1>6 DEF HandFits
<1>10. RowFits(job'[j], j, m)
  <2>1. CASE Exists(j)
    <3>1. job'[j].attempts = n
      BY <1>2, <1>7, <2>1 DEF Update, LoneInv, Inv, TypeOK, JobRow
    <3>2. n <= n
      BY <1>4
    <3>. QED  BY <1>2, <1>4, <1>6, <3>1, <3>2 DEF RowFits, Held
  <2>2. CASE ~Exists(j)
    <3>1. job'[j] = job[j]
      BY <1>7, <2>2 DEF Update
    <3>. QED  BY <2>2, <3>1 DEF RowFits, Exists
  <2>. QED  BY <2>1, <2>2
<1>. QED  BY <1>2, <1>6, <1>8, <1>9, <1>10, LoneWork

\* The outcome is stored: a job pending again has attempts left.
LEMMA LoneEnd ==
    ASSUME NEW w \in Workers, LoneInv(w), completeJob(w) \/ failJob(w)
    PROVE  AllFits(worker[w])'
<1>1. worker[w].at \in {"start", "run", "complete", "fail"} /\ Enter(w, Idle)
  BY DEF completeJob, failJob, EndAttempt, At
<1>2. PICK k, j :
         /\ k = worker[w] /\ j = k.took /\ j = k.id /\ j \in JobIds /\ k # Idle
         /\ k \in [at : {"start", "run", "complete", "fail"}, took : JobIds,
                   id : JobIds, attempts : 0..MaxAttempts + 1]
         /\ k.attempts <= MaxAttempts
         /\ k.at = "start" => k.attempts < MaxAttempts
         /\ Exists(j) => job[j] \in JobRow /\ job[j].attempts <= k.attempts
  BY <1>1, LoneFacts
<1>3. worker'[w] = Idle
  BY <1>1, Entered DEF LoneInv, Inv
<1>4. \/ \E t : /\ Update(j, [job[j] EXCEPT !.status = "pending", !.scheduledAt = t])
                /\ k.attempts < MaxAttempts
      \/ \E s \in {"completed", "failed"} :
            Update(j, [job[j] EXCEPT !.status = s, !.completedAt = now])
  BY <1>2 DEF completeJob, failJob, EndAttempt
<1>5. \A i \in JobIds : i # j => job'[i] = job[i]
  BY <1>4 DEF Update, LoneInv, Inv, TypeOK
<1>6. RowFits(job'[j], j, Idle)
  <2>1. CASE ~Exists(j)
    <3>1. job'[j] = job[j]
      BY <1>4, <2>1 DEF Update
    <3>. QED  BY <2>1, <3>1 DEF RowFits, Exists
  <2>2. CASE Exists(j)
    <3>1. job[j] \in JobRow /\ job[j].attempts <= k.attempts
      BY <1>2, <2>2
    <3>2. /\ job'[j].attempts = job[j].attempts
          /\ \/ job'[j].status = "pending" /\ k.attempts < MaxAttempts
             \/ job'[j].status \in {"completed", "failed"}
      <4>1. PICK row : /\ Update(j, row)
                       /\ row.attempts = job[j].attempts
                       /\ \/ row.status = "pending" /\ k.attempts < MaxAttempts
                          \/ row.status \in {"completed", "failed"}
        <5>1. ASSUME NEW t, k.attempts < MaxAttempts, NEW r,
                     r = [job[j] EXCEPT !.status = "pending", !.scheduledAt = t],
                     Update(j, r)
              PROVE  r.attempts = job[j].attempts /\ r.status = "pending"
          BY <3>1, <5>1 DEF JobRow
        <5>2. ASSUME NEW v \in {"completed", "failed"}, NEW r,
                     r = [job[j] EXCEPT !.status = v, !.completedAt = now],
                     Update(j, r)
              PROVE  r.attempts = job[j].attempts /\ r.status = v
          BY <3>1, <5>2 DEF JobRow
        <5>. QED  BY <1>4, <5>1, <5>2
      <4>2. job'[j] = row
        BY <1>2, <2>2, <4>1 DEF Update, LoneInv, Inv, TypeOK
      <4>. QED  BY <4>1, <4>2
    <3>3. job[j].attempts \in Int /\ k.attempts \in Int /\ MaxAttempts \in Int
      BY <1>2, <3>1, ConstantsOK DEF JobRow
    <3>4. /\ job'[j].attempts <= MaxAttempts
          /\ job'[j].status = "pending" => job'[j].attempts < MaxAttempts
      BY <1>2, <3>1, <3>2, <3>3
    <3>. QED  BY <3>2, <3>4 DEF RowFits, Held
  <2>. QED  BY <2>1, <2>2
<1>7. HandFits(Idle)
  BY DEF HandFits
<1>. QED  BY <1>2, <1>3, <1>5, <1>6, <1>7, LoneWork

-----------------------------------------------------------------------------
(* One worker: what holds *)

\* One worker, no faults: the invariant is inductive.
LEMMA LoneNext ==
    ASSUME NEW w \in Workers, Workers = {w}, MaxFaults = 0, LoneInv(w), [Next]_vars
    PROVE  LoneInv(w)'
<1>1. Inv'
  BY InvNext DEF LoneInv
<1>2. faults = 0
  BY DEF LoneInv, Inv, TypeOK
<1>3. ~Stop /\ ~Restart /\ ~StatementFails(w)
  BY <1>2 DEF Stop, Restart, StatementFails
<1>4. CASE Admin
  BY <1>1, <1>4, LoneAdmin DEF LoneInv
<1>5. CASE Work(w)
  BY <1>1, <1>5, LoneClaim, LoneFetch, LoneMoves, LoneCall, LoneEnd DEF Work, LoneInv
<1>6. CASE Tick \/ UNCHANGED vars
  <2>1. job' = job /\ worker' = worker
    BY <1>6 DEF Tick, vars
  <2>. QED  BY <1>1, <2>1 DEF LoneInv, AllFits, HandFits
<1>. QED  BY <1>3, <1>4, <1>5, <1>6 DEF Next

LEMMA LoneInit ==
    ASSUME NEW w \in Workers, Init
    PROVE  LoneInv(w)
<1>1. worker[w] = Idle /\ \A j \in JobIds : job[j] = NoJob
  BY DEF Init
<1>. QED  BY <1>1, InvInit DEF LoneInv, AllFits, HandFits, RowFits

(* fetchJob returns the job it has claimed if there is one worker and no   *)
(* statement fails nor the process restarts, whatever the administrator    *)
(* does between its two statements.                                        *)
THEOREM FetchedIsClaimedByOne ==
    ASSUME NEW w, Workers = {w}, MaxFaults = 0
    PROVE  Spec => []FetchedIsClaimedAlone
<1>1. w \in Workers
  OBVIOUS
<1>2. Init => LoneInv(w)
  BY <1>1, LoneInit
<1>3. LoneInv(w) /\ [Next]_vars => LoneInv(w)'
  BY <1>1, LoneNext
<1>4. LoneInv(w) => FetchedIsClaimedAlone
  BY DEF LoneInv, AllFits, HandFits, FetchedIsClaimed, FetchedIsClaimedAlone, Idle
<1>. QED  BY <1>2, <1>3, <1>4, PTL DEF Spec

(* One worker and no faults: no job is left running with nobody to end it, *)
(* and none is run more than max_attempts times between two RetryJob       *)
(* calls, also when RetryJob writes over the row of the job being run.     *)
THEOREM AccountedForByOne ==
    ASSUME NEW w, Workers = {w}, MaxFaults = 0
    PROVE  Spec => []AccountedForAlone
<1>1. w \in Workers
  OBVIOUS
<1>2. Init => LoneInv(w)
  BY <1>1, LoneInit
<1>3. LoneInv(w) /\ [Next]_vars => LoneInv(w)'
  BY <1>1, LoneNext
<1>4. LoneInv(w) => AccountedForAlone
  <2>. SUFFICES ASSUME LoneInv(w) PROVE NoOrphan /\ AttemptsBounded
    BY DEF AccountedForAlone
  <2>1. ASSUME NEW j \in JobIds, job[j].status = "running"
        PROVE  worker[w] # Idle /\ worker[w].took = j
    BY <2>1, StatusExists DEF LoneInv, AllFits, RowFits, Held, Exists
  <2>2. NoOrphan
    BY <2>1 DEF NoOrphan, WithStatus
  <2>3. AttemptsBounded
    BY DEF LoneInv, AllFits, RowFits, AttemptsBounded, Exists
  <2>. QED  BY <2>2, <2>3
<1>. QED  BY <1>2, <1>3, <1>4, PTL DEF Spec
=============================================================================
