----------------------------- MODULE MCBatchModes -----------------------------
(* One instance of Batch run in two ways: the handlers interleave, fail and   *)
(* crash, or they run one at a time without failures.  alone tells which, for *)
(* the whole behaviour.                                                       *)
EXTENDS MCBatch

CONSTANT c1

VARIABLE alone

Alone == INSTANCE Batch WITH Calls <- {c1}, MayFail <- FALSE

ModesInit == Init /\ alone \in BOOLEAN

ModesNext ==
    /\ IF alone THEN Alone!Next ELSE Next
    /\ UNCHANGED alone

\* The goroutine of a running Process is scheduled, and Send returns.
ModesSpec ==
    /\ ModesInit /\ [][ModesNext]_<<vars, alone>>
    /\ WF_vars(alone /\ Alone!Processing(c1) /\ UNCHANGED alone)

(* One at a time, a completed batch was processed as a whole.                 *)
CompletedIsWholeAlone == alone => CompletedIsWhole

(* One at a time and without failures, processing reaches another status, and *)
(* a cancelled batch stays so with nothing more of it sent.                   *)
BatchEndsAlone == (alone => ProcessingEnds) /\ [][alone => CancelledStays]_vars
=============================================================================
