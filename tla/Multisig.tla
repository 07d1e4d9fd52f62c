------------------------------ MODULE Multisig ------------------------------
(***************************************************************************)
(* The multi-signature wallets of internal/multisig/multisig.go: wallets,  *)
(* proposals and the handlers that vote on, decide and execute them.       *)
(*                                                                         *)
(* Every handler is a sequence of separate SQL statements with no          *)
(* transaction around them.  A statement is one step here, and any number  *)
(* of handlers run at once: call[c] is what handler c has read so far and  *)
(* the statement it is about to issue.  A call that returns an error       *)
(* without writing anything is not a step.                                 *)
(***************************************************************************)
EXTENDS Integers, Sequences, FiniteSets, Functions

CONSTANTS
    Users,        \* user ids
    Wallets,      \* wallet addresses (UNIQUE in the schema)
    Proposals,    \* proposal ids
    Calls,        \* handlers that may be running at the same time
    TxHashes,     \* transaction hashes Execute is given
    SignerLists,  \* the signer lists CreateWallet is given
    Lifetimes,    \* the expiresIn values CreateProposal is given, Never for nil
    Never,        \* a NULL expires_at
    NoTx,         \* a NULL tx_hash
    MaxTime,      \* bound on the clock
    MayFail       \* whether a statement may fail or the process crash

ASSUME ConstantsOK ==
    /\ SignerLists \subseteq Seq(Users)
    /\ Never \notin Nat
    /\ Lifetimes \subseteq Nat \cup {Never}
    /\ NoTx \notin TxHashes
    /\ MaxTime \in Nat
    /\ MayFail \in BOOLEAN

VARIABLES
    wallet,    \* rows of multisig_wallets
    proposal,  \* rows of multisig_proposals
    call,      \* the handlers in flight
    now,       \* time.Now().Unix()
    (* Observations, read by no action. *)
    endorsed,  \* endorsed[p]: users whose approval of p was ever written
    opposed    \* opposed[p]: users whose rejection of p was ever written

vars == <<wallet, proposal, call, now, endorsed, opposed>>

NoWallet == [threshold |-> 0]
NoProposal == [status |-> "none"]
Idle == [at |-> "idle"]

Statuses == {"pending", "approved", "rejected", "executed", "expired"}

WalletRow == [threshold : Nat \ {0}, signers : Seq(Users)]

ProposalRow ==
    [status : Statuses, wallet : Wallets, approvals : Seq(Users),
     rejections : Seq(Users), expiresAt : Nat \cup {Never},
     txHash : TxHashes \cup {NoTx}]

Voting == {"approveRead", "expireWrite", "approveWrite", "approveMark",
           "rejectWrite", "rejectMark"}

CallState ==
    [at : Voting, prop : Proposals, user : Users, seen : Seq(Users)]
        \cup [at : {"executeWrite"}, prop : Proposals]

(* The one type invariant. *)
TypeOK ==
    /\ wallet \in [Wallets -> WalletRow \cup {NoWallet}]
    /\ proposal \in [Proposals -> ProposalRow \cup {NoProposal}]
    /\ call \in [Calls -> CallState \cup {Idle}]
    /\ now \in Nat
    /\ endorsed \in [Proposals -> SUBSET Users]
    /\ opposed \in [Proposals -> SUBSET Users]

Init ==
    /\ wallet = [w \in Wallets |-> NoWallet]
    /\ proposal = [p \in Proposals |-> NoProposal]
    /\ call = [c \in Calls |-> Idle]
    /\ now = 0
    /\ endorsed = [p \in Proposals |-> {}]
    /\ opposed = [p \in Proposals |-> {}]

-----------------------------------------------------------------------------
(* Helpers *)

WalletOf(p) == wallet[proposal[p].wallet]

isSigner(w, u) == u \in Range(w.signers)

\* Bug: the deadline itself already counts as expired.
PastExpiry_Inclusive(p) ==
    /\ proposal[p].expiresAt # Never
    /\ now >= proposal[p].expiresAt

\* Both expiry tests of the code, now > expires_at.
PastExpiry(p) ==
    /\ proposal[p].expiresAt # Never
    /\ now > proposal[p].expiresAt

\* updateProposalStatus: the WHERE clause names the id only.
updateProposalStatus(p, s) == proposal' = [proposal EXCEPT ![p].status = s]

At(c, stage) == call[c].at = stage

Proceed(c, stage) == call' = [call EXCEPT ![c].at = stage]

Return(c) == call' = [call EXCEPT ![c] = Idle]

-----------------------------------------------------------------------------
(* Wallets and proposals come into being *)

\* The existence check is implied by the UNIQUE address of the INSERT.
CreateWallet(w) ==
    /\ wallet[w] = NoWallet
    /\ \E s \in SignerLists : \E t \in 1..Len(s) :
          wallet' = [wallet EXCEPT ![w] = [threshold |-> t, signers |-> s]]
    /\ UNCHANGED <<proposal, call, now, endorsed, opposed>>

\* A wallet row never changes, so reading it and the INSERT are one step.
CreateProposal(p, w, u) ==
    /\ proposal[p] = NoProposal
    /\ wallet[w] # NoWallet
    /\ isSigner(wallet[w], u)
    /\ \E life \in Lifetimes :
          proposal' = [proposal EXCEPT ![p] =
             [status |-> "pending", wallet |-> w, approvals |-> <<>>,
              rejections |-> <<>>, txHash |-> NoTx,
              expiresAt |-> IF life = Never THEN Never ELSE now + life]]
    /\ UNCHANGED <<wallet, call, now, endorsed, opposed>>

-----------------------------------------------------------------------------
(* Approve: read the row, check it, write the approvals, write the status *)

\* Bug: the status of the row is not tested.
ApproveRead_AnyStatus(c, p, u) ==
    /\ At(c, "idle")
    /\ proposal[p] # NoProposal
    /\ call' = [call EXCEPT ![c] = [at |-> "approveRead", prop |-> p, user |-> u,
                                    seen |-> proposal[p].approvals]]
    /\ UNCHANGED <<wallet, proposal, now, endorsed, opposed>>

ApproveRead(c, p, u) ==
    /\ At(c, "idle")
    /\ proposal[p].status = "pending"
    /\ call' = [call EXCEPT ![c] = [at |-> "approveRead", prop |-> p, user |-> u,
                                    seen |-> proposal[p].approvals]]
    /\ UNCHANGED <<wallet, proposal, now, endorsed, opposed>>

\* Bug: the test for an earlier approval by the same user is missing.
ApproveCheck_NoDuplicateTest(c) ==
    LET p == call[c].prop  u == call[c].user IN
    /\ At(c, "approveRead")
    /\ \/ PastExpiry(p) /\ Proceed(c, "expireWrite")
       \/ ~PastExpiry(p) /\ isSigner(WalletOf(p), u) /\ Proceed(c, "approveWrite")
       \/ ~PastExpiry(p) /\ ~isSigner(WalletOf(p), u) /\ Return(c)
    /\ UNCHANGED <<wallet, proposal, now, endorsed, opposed>>

\* The expiry test comes first, then the signer, then the duplicate.
ApproveCheck(c) ==
    LET p == call[c].prop  u == call[c].user IN
    /\ At(c, "approveRead")
    /\ \/ PastExpiry(p) /\ Proceed(c, "expireWrite")
       \/ /\ ~PastExpiry(p)
          /\ isSigner(WalletOf(p), u) /\ u \notin Range(call[c].seen)
          /\ Proceed(c, "approveWrite")
       \/ /\ ~PastExpiry(p)
          /\ ~isSigner(WalletOf(p), u) \/ u \in Range(call[c].seen)
          /\ Return(c)
    /\ UNCHANGED <<wallet, proposal, now, endorsed, opposed>>

ApproveExpire(c) ==
    /\ At(c, "expireWrite")
    /\ updateProposalStatus(call[c].prop, "expired")
    /\ Return(c)
    /\ UNCHANGED <<wallet, now, endorsed, opposed>>

\* Bug: the threshold has to be exceeded.
ApproveWrite_MoreThanThreshold(c) ==
    LET p == call[c].prop
        votes == Append(call[c].seen, call[c].user) IN
    /\ At(c, "approveWrite")
    /\ proposal' = [proposal EXCEPT ![p].approvals = votes]
    /\ endorsed' = [endorsed EXCEPT ![p] = @ \cup {call[c].user}]
    /\ IF Len(votes) > WalletOf(p).threshold
       THEN Proceed(c, "approveMark") ELSE Return(c)
    /\ UNCHANGED <<wallet, now, opposed>>

\* What is written is the list read before, whatever the row holds by now.
ApproveWrite(c) ==
    LET p == call[c].prop
        votes == Append(call[c].seen, call[c].user) IN
    /\ At(c, "approveWrite")
    /\ proposal' = [proposal EXCEPT ![p].approvals = votes]
    /\ endorsed' = [endorsed EXCEPT ![p] = @ \cup {call[c].user}]
    /\ IF Len(votes) >= WalletOf(p).threshold
       THEN Proceed(c, "approveMark") ELSE Return(c)
    /\ UNCHANGED <<wallet, now, opposed>>

ApproveMark(c) ==
    /\ At(c, "approveMark")
    /\ updateProposalStatus(call[c].prop, "approved")
    /\ Return(c)
    /\ UNCHANGED <<wallet, now, endorsed, opposed>>

-----------------------------------------------------------------------------
(* Reject: no expiry test; a user may reject what they approved *)

\* Bug: the status of the row is not tested.
RejectRead_AnyStatus(c, p, u) ==
    /\ At(c, "idle")
    /\ proposal[p] # NoProposal
    /\ isSigner(WalletOf(p), u)
    /\ u \notin Range(proposal[p].rejections)
    /\ call' = [call EXCEPT ![c] = [at |-> "rejectWrite", prop |-> p, user |-> u,
                                    seen |-> proposal[p].rejections]]
    /\ UNCHANGED <<wallet, proposal, now, endorsed, opposed>>

RejectRead(c, p, u) ==
    /\ At(c, "idle")
    /\ proposal[p].status = "pending"
    /\ isSigner(WalletOf(p), u)
    /\ u \notin Range(proposal[p].rejections)
    /\ call' = [call EXCEPT ![c] = [at |-> "rejectWrite", prop |-> p, user |-> u,
                                    seen |-> proposal[p].rejections]]
    /\ UNCHANGED <<wallet, proposal, now, endorsed, opposed>>

\* Bug: as many rejections as the wallet can spare already block.
Blocking_OneEarly(n, w) == n >= Len(w.signers) - w.threshold

\* The number of rejections after which Threshold approvals are impossible.
Blocking(n, w) == n > Len(w.signers) - w.threshold

RejectWrite(c) ==
    LET p == call[c].prop
        votes == Append(call[c].seen, call[c].user) IN
    /\ At(c, "rejectWrite")
    /\ proposal' = [proposal EXCEPT ![p].rejections = votes]
    /\ opposed' = [opposed EXCEPT ![p] = @ \cup {call[c].user}]
    /\ IF Blocking(Len(votes), WalletOf(p))
       THEN Proceed(c, "rejectMark") ELSE Return(c)
    /\ UNCHANGED <<wallet, now, endorsed>>

RejectMark(c) ==
    /\ At(c, "rejectMark")
    /\ updateProposalStatus(call[c].prop, "rejected")
    /\ Return(c)
    /\ UNCHANGED <<wallet, now, endorsed, opposed>>

-----------------------------------------------------------------------------
(* Execute and ExpireProposals *)

\* Bug: the status of the row is not tested.
ExecuteRead_AnyStatus(c, p) ==
    /\ At(c, "idle")
    /\ proposal[p] # NoProposal
    /\ call' = [call EXCEPT ![c] = [at |-> "executeWrite", prop |-> p]]
    /\ UNCHANGED <<wallet, proposal, now, endorsed, opposed>>

ExecuteRead(c, p) ==
    /\ At(c, "idle")
    /\ proposal[p].status = "approved"
    /\ call' = [call EXCEPT ![c] = [at |-> "executeWrite", prop |-> p]]
    /\ UNCHANGED <<wallet, proposal, now, endorsed, opposed>>

ExecuteWrite(c) ==
    /\ At(c, "executeWrite")
    /\ \E h \in TxHashes :
          proposal' = [proposal EXCEPT ![call[c].prop].status = "executed",
                                       ![call[c].prop].txHash = h]
    /\ Return(c)
    /\ UNCHANGED <<wallet, now, endorsed, opposed>>

\* One UPDATE with its condition in the WHERE clause.
ExpireProposals ==
    LET late == {p \in Proposals : proposal[p].status = "pending" /\ PastExpiry(p)} IN
    /\ late # {}
    /\ proposal' = [p \in Proposals |->
          IF p \in late THEN [proposal[p] EXCEPT !.status = "expired"]
                        ELSE proposal[p]]
    /\ UNCHANGED <<wallet, call, now, endorsed, opposed>>

-----------------------------------------------------------------------------
(* The environment *)

\* A statement of the call fails, or the process dies, before it takes effect.
Abort(c) ==
    /\ MayFail
    /\ ~At(c, "idle")
    /\ Return(c)
    /\ UNCHANGED <<wallet, proposal, now, endorsed, opposed>>

Tick ==
    /\ now < MaxTime
    /\ now' = now + 1
    /\ UNCHANGED <<wallet, proposal, call, endorsed, opposed>>

Vote(c) ==
    \/ \E p \in Proposals, u \in Users : ApproveRead(c, p, u) \/ RejectRead(c, p, u)
    \/ ApproveCheck(c) \/ ApproveExpire(c) \/ ApproveWrite(c) \/ ApproveMark(c)
    \/ RejectWrite(c) \/ RejectMark(c)

Execute(c) == ExecuteWrite(c) \/ \E p \in Proposals : ExecuteRead(c, p)

Next ==
    \/ \E w \in Wallets : CreateWallet(w)
    \/ \E p \in Proposals, w \in Wallets, u \in Users : CreateProposal(p, w, u)
    \/ \E c \in Calls : Vote(c) \/ Execute(c) \/ Abort(c)
    \/ ExpireProposals
    \/ Tick

Spec == Init /\ [][Next]_vars

-----------------------------------------------------------------------------
(* Properties *)

Signers(p) == Range(WalletOf(p).signers)

InFlight(p) == {c \in Calls : call[c] # Idle /\ call[c].prop = p}

(* A proposal stands as approved or executed only if at least Threshold    *)
(* different signers of its wallet each had an approval written.  Approve  *)
(* decides on the length of a list read before other handlers wrote theirs *)
(* and the list is stored blindly, so votes get lost; none is invented or  *)
(* counted twice.                                                          *)
ApprovalQuorum ==
    \A p \in Proposals : proposal[p].status \in {"approved", "executed"} =>
        Cardinality(endorsed[p] \cap Signers(p)) >= WalletOf(p).threshold

(* A proposal stands as rejected only if more signers than the wallet can  *)
(* spare each had a rejection written (Reject).                            *)
RejectionQuorum ==
    \A p \in Proposals : proposal[p].status = "rejected" =>
        Cardinality(opposed[p] \cap Signers(p))
            > Len(WalletOf(p).signers) - WalletOf(p).threshold

(* A proposal is marked expired only when its deadline has passed, by the  *)
(* stale test of Approve as by the sweep of ExpireProposals.               *)
NoEarlyExpiry ==
    \A p \in Proposals : proposal[p].status = "expired" =>
        proposal[p].expiresAt # Never /\ now > proposal[p].expiresAt

(* No status a proposal can end in is unearned, whichever handlers overtake *)
(* each other: the three above together.                                   *)
VerdictsEarned == ApprovalQuorum /\ RejectionQuorum /\ NoEarlyExpiry

(* Once a proposal is rejected, expired or executed and the handlers that  *)
(* had read it before have returned, no later call changes its row.        *)
Settled(p) ==
    proposal[p].status \in {"rejected", "expired", "executed"} /\ InFlight(p) = {}

SettledForGood ==
    [][\A p \in Proposals : Settled(p) =>
          Settled(p)' /\ proposal'[p] = proposal[p]]_vars

(* Execute's own description: it executes an approved proposal, that is,   *)
(* the row it turns into executed is an approved one at that moment.       *)
ApprovedWhenExecuted ==
    \A p \in Proposals :
        proposal[p] # NoProposal /\ proposal'[p].txHash # proposal[p].txHash
            => proposal[p].status = "approved"

(* What Approve's last step is for: when no handler is running, a proposal *)
(* that Threshold signers approved is no longer pending.                   *)
QuorumDecides ==
    \A p \in Proposals :
        proposal[p].status = "pending" /\ InFlight(p) = {} =>
            Cardinality(endorsed[p]) < WalletOf(p).threshold

(* Between two steps a status only moves forward: pending to a decision,   *)
(* approved to executed.  True of handlers that run one at a time.         *)
ForwardStep ==
    \A p \in Proposals : LET s == proposal[p].status  t == proposal'[p].status IN
        s # t => \/ s = "none"
                 \/ s = "pending" /\ t # "executed"
                 \/ s = "approved" /\ t = "executed"
=============================================================================
