-------------------------------- MODULE Jobs --------------------------------
(***************************************************************************)
(* The background job queue (internal/jobs/jobs.go): job rows in the       *)
(* database, WorkerCount workers that claim, fetch and run them, and the   *)
(* administrator's Enqueue, RetryJob and Cleanup.                          *)
(*                                                                         *)
(* Each SQL statement is one step, so is the start and the end of a job    *)
(* handler.  Rows survive a restart, workers do not.  A statement on a row *)
(* that was deleted has no effect.                                         *)
(***************************************************************************)
EXTENDS Integers, FiniteSets

CONSTANTS
    JobIds,       \* job ids, each enqueued once
    Registered,   \* the jobs whose type has a handler
    Workers,      \* the worker goroutines
    Admins,       \* RetryJob calls that may be running at the same time
    Priorities,   \* priorities Enqueue is given
    Delays,       \* delays, in seconds, Enqueue is given
    MaxAttempts,  \* max_attempts of every job
    RetryDelay,   \* Config.RetryDelay, in seconds
    Horizon,      \* bound on the clock; it stands for every later second too
    MaxFaults     \* bound on failing statements and restarts

ASSUME ConstantsOK ==
    /\ Registered \subseteq JobIds
    /\ IsFiniteSet(Priorities) /\ Priorities \subseteq Int
    /\ Delays \subseteq Nat
    /\ MaxAttempts \in Nat \ {0}
    /\ RetryDelay \in Nat
    /\ Horizon \in Nat
    /\ MaxFaults \in Nat

VARIABLES
    job,      \* rows of jobs
    worker,   \* what each worker is doing
    retry,    \* the RetryJob calls in flight
    running,  \* Queue.running
    now,      \* time.Now().Unix()
    faults,   \* faults so far
    (* Observations, read by no action. *)
    runs,       \* runs[j]: how often the handler was called for j, up to MaxAttempts
    succeeded   \* jobs for which the handler ever returned nil

observed == <<runs, succeeded>>
vars == <<job, worker, retry, running, now, faults, runs, succeeded>>

NoJob == [status |-> "none"]
Deleted == [status |-> "deleted"]
Idle == [at |-> "idle"]

Clock == 0..Horizon

\* started_at matters in running rows only and completed_at in finished ones,
\* where they are never NULL.
JobRow ==
    [status : {"pending", "running", "completed", "failed"}, priority : Priorities,
     attempts : 0..MaxAttempts + 1, scheduledAt : Clock, startedAt : Clock, completedAt : Clock]

\* took is the job the worker's UPDATE claimed (an observation), id the job it
\* then read and attempts its copy of Job.Attempts.
WorkerState ==
    [at : {"fetch"}, took : JobIds]
        \cup [at : {"start", "run", "complete", "fail"}, took : JobIds,
              id : JobIds, attempts : 0..MaxAttempts + 1]

(* The one type invariant. *)
TypeOK ==
    /\ job \in [JobIds -> JobRow \cup {NoJob, Deleted}]
    /\ worker \in [Workers -> WorkerState \cup {Idle}]
    /\ retry \in [Admins -> [at : {"write"}, id : JobIds] \cup {Idle}]
    /\ running \in BOOLEAN
    /\ now \in Clock
    /\ faults \in 0..MaxFaults
    /\ runs \in [JobIds -> 0..MaxAttempts]
    /\ succeeded \subseteq JobIds

Init ==
    /\ job = [j \in JobIds |-> NoJob]
    /\ worker = [w \in Workers |-> Idle]
    /\ retry = [a \in Admins |-> Idle]
    /\ running = TRUE
    /\ now = 0
    /\ faults = 0
    /\ runs = [j \in JobIds |-> 0]
    /\ succeeded = {}

-----------------------------------------------------------------------------
(* Helpers *)

After(delay) == IF now + delay > Horizon THEN Horizon ELSE now + delay

\* Counting stops one above MaxAttempts: the code only asks whether it is below.
Attempt(n) == IF n <= MaxAttempts THEN n + 1 ELSE n

WithStatus(s) == {j \in JobIds : job[j].status = s}

Exists(j) == job[j] \notin {NoJob, Deleted}

\* UPDATE jobs SET ... WHERE id = j
Update(j, row) == job' = IF Exists(j) THEN [job EXCEPT ![j] = row] ELSE job

At(w, stage) == worker[w].at = stage

Enter(w, state) == worker' = [worker EXCEPT ![w] = state]

Proceed(w, stage) == worker' = [worker EXCEPT ![w].at = stage]

\* What fetchJob's subquery may return: due, highest priority, longest due.
Claimable ==
    LET due == {j \in WithStatus("pending") : job[j].scheduledAt <= now}
        first(i, j) == \/ job[i].priority > job[j].priority
                       \/ /\ job[i].priority = job[j].priority
                          /\ job[i].scheduledAt < job[j].scheduledAt
    IN  {j \in due : \A i \in due : ~first(i, j)}

\* Bug: the SELECT has no condition on the status.
LatestStarted_AnyStatus ==
    {j \in JobIds : Exists(j) /\
        \A i \in JobIds : Exists(i) => job[i].startedAt <= job[j].startedAt}

\* What fetchJob's SELECT may return: a running row with the latest started_at.
LatestStarted ==
    {j \in WithStatus("running") :
        \A i \in WithStatus("running") : job[i].startedAt <= job[j].startedAt}

-----------------------------------------------------------------------------
(* The administrator's operations *)

Enqueue(j) ==
    /\ job[j] = NoJob
    /\ \E p \in Priorities, d \in Delays :
          job' = [job EXCEPT ![j] =
             [status |-> "pending", priority |-> p, attempts |-> 0,
              scheduledAt |-> After(d), startedAt |-> 0, completedAt |-> 0]]
    /\ UNCHANGED <<worker, retry, running, now, faults, observed>>

RetryRead(a, j) ==
    /\ retry[a] = Idle
    /\ job[j].status = "failed"
    /\ retry' = [retry EXCEPT ![a] = [at |-> "write", id |-> j]]
    /\ UNCHANGED <<job, worker, running, now, faults, observed>>

\* The UPDATE does not test the status again.
RetryWrite(a) ==
    LET j == retry[a].id IN
    /\ retry[a].at = "write"
    /\ Update(j, [job[j] EXCEPT !.status = "pending", !.attempts = 0,
                                !.scheduledAt = now])
    /\ retry' = [retry EXCEPT ![a] = Idle]
    /\ UNCHANGED <<worker, running, now, faults, observed>>

Cleanup(cutoff) ==
    LET old == {j \in WithStatus("completed") \cup WithStatus("failed") :
                   job[j].completedAt < cutoff} IN
    /\ old # {}
    /\ job' = [j \in JobIds |-> IF j \in old THEN Deleted ELSE job[j]]
    /\ UNCHANGED <<worker, retry, running, now, faults, observed>>

-----------------------------------------------------------------------------
(* fetchJob: claim one job, then read the job claimed *)

Claim(w) ==
    /\ running
    /\ At(w, "idle")
    /\ \E j \in Claimable :
          /\ job' = [job EXCEPT ![j].status = "running", ![j].startedAt = now]
          /\ Enter(w, [at |-> "fetch", took |-> j])
    /\ UNCHANGED <<retry, running, now, faults, observed>>

\* The SELECT does not know which row the UPDATE changed.
Fetch(w) ==
    /\ At(w, "fetch")
    /\ \/ \E j \in LatestStarted :
             Enter(w, [at |-> "start", took |-> worker[w].took, id |-> j,
                       attempts |-> job[j].attempts])
       \/ LatestStarted = {} /\ Enter(w, Idle)
    /\ UNCHANGED <<job, retry, running, now, faults, observed>>

-----------------------------------------------------------------------------
(* processJob *)

\* No handler for the type: straight to failJob, the attempt is not counted.
NoHandler(w) ==
    /\ At(w, "start")
    /\ worker[w].id \notin Registered
    /\ Proceed(w, "fail")
    /\ UNCHANGED <<job, retry, running, now, faults, observed>>

RunHandler(w) ==
    /\ At(w, "start")
    /\ worker[w].id \in Registered
    /\ worker' = [worker EXCEPT ![w].at = "run", ![w].attempts = Attempt(@)]
    /\ runs' = [runs EXCEPT ![worker[w].id] = IF @ < MaxAttempts THEN @ + 1 ELSE @]

CallHandler(w) ==
    LET j == worker[w].id IN
    /\ RunHandler(w)
    /\ Update(j, [job[j] EXCEPT !.attempts = Attempt(worker[w].attempts)])
    /\ UNCHANGED <<retry, running, now, faults, succeeded>>

\* The handler returns nil, or an error, which its five minutes may be.
HandlerReturns(w) ==
    /\ At(w, "run")
    /\ \/ /\ Proceed(w, "complete")
          /\ succeeded' = succeeded \cup {worker[w].id}
       \/ Proceed(w, "fail") /\ UNCHANGED succeeded
    /\ UNCHANGED <<job, retry, running, now, faults, runs>>

\* Bug: the outcome is not written back.
completeJob_NotStored(w) ==
    /\ At(w, "complete")
    /\ Enter(w, Idle)
    /\ UNCHANGED <<job, retry, running, now, faults, observed>>

completeJob(w) ==
    LET j == worker[w].id IN
    /\ At(w, "complete")
    /\ Update(j, [job[j] EXCEPT !.status = "completed", !.completedAt = now])
    /\ Enter(w, Idle)
    /\ UNCHANGED <<retry, running, now, faults, observed>>

\* The job of worker w is scheduled again or given up.
EndAttempt(w, again, retryStatus) ==
    LET j == worker[w].id IN
    /\ At(w, "fail")
    /\ IF again
       THEN Update(j, [job[j] EXCEPT !.status = retryStatus,
                          !.scheduledAt = After(RetryDelay * worker[w].attempts)])
       ELSE Update(j, [job[j] EXCEPT !.status = "failed", !.completedAt = now])
    /\ Enter(w, Idle)
    /\ UNCHANGED <<retry, running, now, faults, observed>>

\* Bugs: one attempt too many, one too few, no end, and the unused JobStatusRetrying.
failJob_OneMore(w) == EndAttempt(w, worker[w].attempts <= MaxAttempts, "pending")
failJob_OneLess(w) == EndAttempt(w, worker[w].attempts + 1 < MaxAttempts, "pending")
failJob_Always(w) == EndAttempt(w, TRUE, "pending")
failJob_Retrying(w) == EndAttempt(w, worker[w].attempts < MaxAttempts, "retrying")

failJob(w) == EndAttempt(w, worker[w].attempts < MaxAttempts, "pending")

-----------------------------------------------------------------------------
(* Stopping, restarting, faults and time *)

\* Workers finish what they are doing and claim nothing more.
\* (Modelled when a restart may follow.)
Stop ==
    /\ running
    /\ faults < MaxFaults
    /\ running' = FALSE
    /\ UNCHANGED <<job, worker, retry, now, faults, observed>>

\* The process ends, after Stop or by a crash, and is started again.  No row is
\* touched: what was running stays so.
Restart ==
    /\ faults < MaxFaults
    /\ faults' = faults + 1
    /\ worker' = [w \in Workers |-> Idle]
    /\ retry' = [a \in Admins |-> Idle]
    /\ running' = TRUE
    /\ UNCHANGED <<job, now, observed>>

\* A statement fails: fetchJob gives up on the job it claimed, and processJob
\* ignores the errors of its UPDATEs.
StatementFails(w) ==
    /\ faults < MaxFaults
    /\ faults' = faults + 1
    /\ \/ /\ worker[w].at \in {"fetch", "complete", "fail"}
          /\ Enter(w, Idle)
          /\ UNCHANGED runs
       \/ RunHandler(w)
    /\ UNCHANGED <<job, retry, running, now, succeeded>>

Tick ==
    /\ now < Horizon
    /\ now' = now + 1
    /\ UNCHANGED <<job, worker, retry, running, faults, observed>>

\* One turn of the worker's loop.
Work(w) ==
    \/ Claim(w) \/ Fetch(w)
    \/ NoHandler(w) \/ CallHandler(w) \/ HandlerReturns(w)
    \/ completeJob(w) \/ failJob(w)

Admin ==
    \/ \E j \in JobIds : Enqueue(j)
    \/ \E a \in Admins : RetryWrite(a) \/ \E j \in JobIds : RetryRead(a, j)
    \/ \E cutoff \in 0..now : Cleanup(cutoff)

Next ==
    \/ Admin
    \/ \E w \in Workers : Work(w) \/ StatementFails(w)
    \/ Stop \/ Restart \/ Tick

Spec == Init /\ [][Next]_vars

\* The workers' goroutines and the clock keep going, and handlers return: their
\* context ends after five minutes.
FairSpec ==
    Spec /\ WF_vars(Tick) /\ \A w \in Workers : WF_vars(Work(w))

-----------------------------------------------------------------------------
(* Properties *)

(* fetchJob returns the job it has claimed ("Fetch the claimed job"),      *)
(* although it finds it again by its start time only.                      *)
FetchedIsClaimed ==
    \A w \in Workers : worker[w].at \in {"start", "run", "complete", "fail"} =>
        worker[w].id = worker[w].took

(* A running row is the row some worker claimed and has not finished with: *)
(* no job is left running with nobody to end it.                           *)
NoOrphan ==
    \A j \in WithStatus("running") :
        \E w \in Workers : worker[w] # Idle /\ worker[w].took = j

(* max_attempts is a maximum: no job is run more often between two         *)
(* RetryJob calls, though the count is kept in copies of the row.          *)
AttemptsBounded ==
    \A j \in JobIds : Exists(j) => job[j].attempts <= MaxAttempts

(* A job says completed only if its handler returned nil once, and failed  *)
(* only if the handler really ran max_attempts times, whatever number of   *)
(* workers ran it at once and whatever was lost.                           *)
TruthfulOutcome ==
    /\ WithStatus("completed") \subseteq succeeded
    /\ \A j \in WithStatus("failed") : runs[j] = MaxAttempts

(* A job does not stay pending or running for ever: retries run out.       *)
JobEnds ==
    \A j \in JobIds :
        job[j].status \in {"pending", "running"}
            ~> job[j].status \in {"completed", "failed", "deleted"}
=============================================================================
