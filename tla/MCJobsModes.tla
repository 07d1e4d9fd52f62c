----------------------------- MODULE MCJobsModes -----------------------------
(* One instance of Jobs run in two ways: two workers, an administrator and    *)
(* faults, or one worker and no faults.  alone tells which, for the whole     *)
(* behaviour.                                                                 *)
EXTENDS MCJobs

CONSTANT w1

VARIABLE alone

Alone == INSTANCE Jobs WITH
    Workers <- {w1}, Admins <- {}, MaxFaults <- 0, Registered <- JobIds

ModesInit == Init /\ alone \in BOOLEAN

ModesNext ==
    /\ IF alone THEN Alone!Next ELSE Next
    /\ UNCHANGED alone

\* The worker's goroutine and the clock keep going, and handlers return.
ModesSpec ==
    /\ ModesInit /\ [][ModesNext]_<<vars, alone>>
    /\ WF_vars(alone /\ Alone!Tick /\ UNCHANGED alone)
    /\ WF_vars(alone /\ Alone!Work(w1) /\ UNCHANGED alone)

(* A single worker runs the job it has claimed.                               *)
FetchedIsClaimedAlone == alone => FetchedIsClaimed

(* A single worker leaves no job running with nobody to end it, and keeps the *)
(* attempts of each within their maximum.                                     *)
AccountedForAlone == alone => NoOrphan /\ AttemptsBounded

(* With a single worker, handlers for all types and no faults, every job ends.*)
JobEndsAlone == alone => JobEnds
=============================================================================
