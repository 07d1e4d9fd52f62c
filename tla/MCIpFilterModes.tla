--------------------------- MODULE MCIpFilterModes ---------------------------
(* One instance of IpFilter run in two ways: calls interleave, queries fail   *)
(* and the process restarts, or calls run one at a time without failures.     *)
(* alone tells which, for the whole behaviour.                                *)
EXTENDS MCIpFilter

CONSTANT c1

VARIABLE alone

Alone == INSTANCE IpFilter WITH Calls <- {c1}, MayFail <- FALSE

ModesInit == Init /\ alone \in BOOLEAN

ModesNext ==
    /\ IF alone THEN Alone!Next ELSE Next
    /\ UNCHANGED alone

ModesSpec == ModesInit /\ [][ModesNext]_<<vars, alone>>

(* One call at a time, a Check answers as it would without a cache.           *)
AnswersByTableAlone == [][alone => AnswersByTable]_vars
=============================================================================
