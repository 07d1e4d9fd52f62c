--------------------------- MODULE MCMultisigModes ---------------------------
(* One instance of Multisig run in two ways: the handlers interleave and     *)
(* fail, or they run one at a time without failures.  alone tells which, for *)
(* the whole behaviour.                                                      *)
EXTENDS MCMultisig

CONSTANT c1

VARIABLE alone

Alone == INSTANCE Multisig WITH
    Calls <- {c1}, MayFail <- FALSE, SignerLists <- MCThree, Lifetimes <- MCNoExpiry

ModesInit == Init /\ alone \in BOOLEAN

ModesNext ==
    /\ IF alone THEN Alone!Next ELSE Next
    /\ UNCHANGED alone

ModesSpec == ModesInit /\ [][ModesNext]_<<vars, alone>>

(* One at a time, a quorum of approvals decides (Approve's last step).       *)
QuorumDecidesAlone == alone => QuorumDecides

(* One at a time, a status only moves forward, whichever handlers run, and   *)
(* what Execute executes is an approved proposal at that moment.             *)
StatusForwardAlone == [][alone => ForwardStep /\ ApprovedWhenExecuted]_vars
=============================================================================
