--------------------------- MODULE MultisigProofs ---------------------------
(***************************************************************************)
(* Proofs about Multisig, for any set of users, wallets, proposals and     *)
(* handlers.                                                               *)
(*                                                                         *)
(* A decision is taken on the length of a list, and the list is written    *)
(* back over whatever other handlers stored meanwhile.  The argument is    *)
(* that a list, stored or in a handler's hands, never holds a user twice   *)
(* and never one whose vote was not written, so its length is at most the  *)
(* number of voters; that number never falls; and a handler or a row that  *)
(* has passed the threshold test carries the bound with it.                *)
(***************************************************************************)
EXTENDS MCMultisigModes, FiniteSetTheorems, TLAPS

\* A list of distinct users, all of them in E.
Votes(s, E) == IsInjective(s) /\ Range(s) \subseteq E

Quorum(p) == Cardinality(endorsed[p]) >= WalletOf(p).threshold

Blocked(p) ==
    Cardinality(opposed[p]) > Len(WalletOf(p).signers) - WalletOf(p).threshold

RowInv(p) ==
    /\ proposal[p] = NoProposal => endorsed[p] = {} /\ opposed[p] = {}
    /\ proposal[p] # NoProposal =>
          /\ WalletOf(p) # NoWallet
          /\ Votes(proposal[p].approvals, endorsed[p])
          /\ Votes(proposal[p].rejections, opposed[p])
          /\ endorsed[p] \subseteq Signers(p)
          /\ opposed[p] \subseteq Signers(p)
    /\ proposal[p].status \in {"approved", "executed"} => Quorum(p)
    /\ proposal[p].status = "rejected" => Blocked(p)
    /\ proposal[p].status = "expired" => PastExpiry(p)

CallInv(c) ==
    call[c] # Idle =>
        /\ proposal[call[c].prop] # NoProposal
        /\ call[c].at \in {"approveRead", "approveWrite"} =>
              Votes(call[c].seen, endorsed[call[c].prop])
        /\ call[c].at = "rejectWrite" =>
              Votes(call[c].seen, opposed[call[c].prop])
        /\ call[c].at \in {"approveWrite", "rejectWrite"} =>
              call[c].user \in Signers(call[c].prop) \ Range(call[c].seen)
        /\ call[c].at \in {"approveMark", "executeWrite"} => Quorum(call[c].prop)
        /\ call[c].at = "rejectMark" => Blocked(call[c].prop)
        /\ call[c].at = "expireWrite" => PastExpiry(call[c].prop)

Inv ==
    /\ TypeOK
    /\ \A p \in Proposals : RowInv(p)
    /\ \A c \in Calls : CallInv(c)

-----------------------------------------------------------------------------
(* Lists and their voters *)

\* The members of a list are finitely many.
LEMMA RangeFinite ==
    ASSUME NEW S, NEW s \in Seq(S)
    PROVE  IsFiniteSet(Range(s)) /\ Range(s) \subseteq S
<1>1. IsFiniteSet(1..Len(s))
  BY FS_Interval
<1>2. s \in Surjection(1..Len(s), Range(s))
  BY DEF Surjection, Range
<1>. QED  BY <1>1, <1>2, FS_Surjection DEF Range

\* The length of a list of distinct users is at most the number of voters.
LEMMA VotesCounted ==
    ASSUME NEW S, NEW s \in Seq(S), NEW E, IsFiniteSet(E), Votes(s, E)
    PROVE  Len(s) <= Cardinality(E)
<1>1. s \in Injection(1..Len(s), E)
  BY DEF Votes, Injection, Range
<1>2. Len(s) \in Nat /\ 1 \in Int /\ Len(s) \in Int
  OBVIOUS
<1>3. Cardinality(1..Len(s)) = IF 1 > Len(s) THEN 0 ELSE Len(s) - 1 + 1
  BY ONLY <1>2, FS_Interval, Zenon
<1>4. Cardinality(1..Len(s)) <= Cardinality(E)
  BY <1>1, FS_Injection
<1>. QED  BY <1>2, <1>3, <1>4

\* Appending a voter who is not in the list yet.
LEMMA VotesAppend ==
    ASSUME NEW S, NEW s \in Seq(S), NEW u \in S, NEW E, Votes(s, E), u \notin Range(s)
    PROVE  Append(s, u) \in Seq(S) /\ Votes(Append(s, u), E \cup {u})
<1>. DEFINE t == Append(s, u)
<1>1. /\ t \in Seq(S) /\ Len(t) = Len(s) + 1 /\ DOMAIN t = 1..Len(s) + 1
      /\ \A i \in 1..Len(s) : t[i] = s[i] 
      /\ t[Len(s) + 1] = u
  OBVIOUS
<1>2. \A i \in 1..Len(s) : t[i] # u
  BY <1>1 DEF Range
<1>3. IsInjective(t)
  BY <1>1, <1>2 DEF Votes, IsInjective
<1>4. Range(t) \subseteq E \cup {u}
  BY <1>1 DEF Votes, Range
<1>. QED  BY <1>1, <1>3, <1>4 DEF Votes

\* More voters are as good a bound as fewer.
LEMMA MoreVoters ==
    ASSUME NEW F, IsFiniteSet(F), NEW E \in SUBSET F
    PROVE  /\ IsFiniteSet(E)
           /\ Cardinality(E) \in Nat /\ Cardinality(F) \in Nat
           /\ Cardinality(E) <= Cardinality(F)
           /\ \A s : Votes(s, E) => Votes(s, F)
BY FS_Subset, FS_CardinalityType DEF Votes

-----------------------------------------------------------------------------
(* What the type invariant says of one row and one handler *)

VoteCall == [at : Voting, prop : Proposals, user : Users, seen : Seq(Users)]

\* What the type invariant says of a handler, by the statement it is at.
LEMMA CallShape ==
    ASSUME TypeOK, NEW c \in Calls
    PROVE  /\ call[c].at = "idle" <=> call[c] = Idle
           /\ call[c].at \in Voting => call[c] \in VoteCall
           /\ call[c].at = "executeWrite" => call[c].prop \in Proposals
           /\ call[c] # Idle => call[c].prop \in Proposals
           /\ call[c] # Idle => call[c].at \in Voting \cup {"executeWrite"}
BY DEF TypeOK, CallState, VoteCall, Voting, Idle

\* A proposal row that exists is complete.
LEMMA RowShape ==
    ASSUME TypeOK, NEW p \in Proposals
    PROVE  /\ proposal[p].status # "none" <=> proposal[p] # NoProposal
           /\ proposal[p] # NoProposal => proposal[p] \in ProposalRow
BY DEF TypeOK, ProposalRow, NoProposal, Statuses

\* A wallet row that exists has a positive threshold.
LEMMA WalletShape ==
    ASSUME Inv, NEW p \in Proposals, proposal[p] # NoProposal
    PROVE  /\ proposal[p] \in ProposalRow
           /\ WalletOf(p) \in WalletRow
           /\ IsFiniteSet(Signers(p))
           /\ Signers(p) \subseteq Users
<1>1. proposal[p] \in ProposalRow /\ RowInv(p)
  BY RowShape DEF Inv
<1>2. WalletOf(p) \in WalletRow
  BY <1>1 DEF Inv, TypeOK, RowInv, WalletOf, ProposalRow
<1>3. WalletOf(p).signers \in Seq(Users)
  BY <1>2 DEF WalletRow
<1>. QED  BY <1>1, <1>2, <1>3, RangeFinite DEF Signers

\* The UPDATEs of the handlers keep a proposal row a row.
LEMMA RowUpdates ==
    ASSUME NEW r \in ProposalRow
    PROVE  /\ \A s \in Statuses : [r EXCEPT !.status = s] \in ProposalRow
           /\ \A v \in Seq(Users) : /\ [r EXCEPT !.approvals = v] \in ProposalRow
                                    /\ [r EXCEPT !.rejections = v] \in ProposalRow
           /\ \A h \in TxHashes :
                 [r EXCEPT !.status = "executed", !.txHash = h] \in ProposalRow
BY DEF ProposalRow, Statuses

\* A handler stays the same but for the statement it is at.
LEMMA CallUpdates ==
    ASSUME NEW k \in VoteCall
    PROVE  \A s \in Voting : [k EXCEPT !.at = s] \in VoteCall
BY DEF VoteCall

\* What an UPDATE by id and a step of a handler leave of the types.
LEMMA TypeFrame ==
    ASSUME TypeOK, NEW c \in Calls, NEW p \in Proposals,
           NEW r \in ProposalRow, NEW k \in VoteCall \cup {Idle},
           proposal' = [proposal EXCEPT ![p] = r] \/ proposal' = proposal,
           call' = [call EXCEPT ![c] = k],
           wallet' = wallet, now' = now,
           endorsed' \in [Proposals -> SUBSET Users],
           opposed' \in [Proposals -> SUBSET Users]
    PROVE  TypeOK'
<1>1. k \in CallState \cup {Idle}
  BY DEF VoteCall, CallState
<1>2. call' \in [Calls -> CallState \cup {Idle}]
  BY <1>1 DEF TypeOK
<1>3. proposal' \in [Proposals -> ProposalRow \cup {NoProposal}]
  BY DEF TypeOK
<1>. QED  BY <1>2, <1>3 DEF TypeOK

-----------------------------------------------------------------------------
(* Type correctness of every step *)

\* Every step keeps the types.
LEMMA TypeStep ==
    ASSUME Inv, [Next]_vars
    PROVE  TypeOK'
<1>. USE ConstantsOK
<1>1. ASSUME NEW w \in Wallets, CreateWallet(w)
      PROVE  TypeOK'
  <2>1. PICK s \in SignerLists : \E t \in 1..Len(s) :
           wallet' = [wallet EXCEPT ![w] = [threshold |-> t, signers |-> s]]
    BY <1>1 DEF CreateWallet
  <2>4. PICK t \in 1..Len(s) :
           wallet' = [wallet EXCEPT ![w] = [threshold |-> t, signers |-> s]]
    BY <2>1
  <2>2. s \in Seq(Users) /\ t \in Nat \ {0}
    OBVIOUS
  <2>3. [threshold |-> t, signers |-> s] \in WalletRow
    BY <2>2 DEF WalletRow
  <2>. QED  BY <1>1, <2>4, <2>3 DEF CreateWallet, Inv, TypeOK
<1>2. ASSUME NEW p \in Proposals, NEW w \in Wallets, NEW u \in Users,
             CreateProposal(p, w, u)
      PROVE  TypeOK'
  <2>1. PICK life \in Lifetimes : proposal' = [proposal EXCEPT ![p] =
             [status |-> "pending", wallet |-> w, approvals |-> <<>>,
              rejections |-> <<>>, txHash |-> NoTx,
              expiresAt |-> IF life = Never THEN Never ELSE now + life]]
    BY <1>2 DEF CreateProposal
  <2>2. (IF life = Never THEN Never ELSE now + life) \in Nat \cup {Never}
    BY DEF Inv, TypeOK
  <2>3. proposal'[p] \in ProposalRow
    BY <2>1, <2>2 DEF ProposalRow, Statuses, Inv, TypeOK
  <2>. QED  BY <1>2, <2>1, <2>3 DEF CreateProposal, Inv, TypeOK
<1>3. ASSUME NEW c \in Calls, Vote(c)
      PROVE  TypeOK'
  <2>1. ASSUME NEW p \in Proposals, NEW u \in Users, ApproveRead(c, p, u)
        PROVE  TypeOK'
    BY <2>1, RowShape DEF ApproveRead, Inv, TypeOK, ProposalRow, CallState, Voting
  <2>2. ASSUME NEW p \in Proposals, NEW u \in Users, RejectRead(c, p, u)
        PROVE  TypeOK'
    BY <2>2, RowShape DEF RejectRead, Inv, TypeOK, ProposalRow, CallState, Voting
  <2>3. ASSUME ApproveCheck(c)
        PROVE  TypeOK'
    BY <2>3, CallShape
       DEF ApproveCheck, Inv, TypeOK, VoteCall, CallState, Voting, At, Proceed, Return
  <2>4. ASSUME NEW s \in Statuses, NEW stage \in Voting, At(c, stage),
               updateProposalStatus(call[c].prop, s), Return(c),
               UNCHANGED <<wallet, now, endorsed, opposed>>
        PROVE  TypeOK'
    <3>. DEFINE p == call[c].prop
                r == [proposal[p] EXCEPT !.status = s]
    <3>1. call[c] # Idle /\ p \in Proposals
      BY <2>4, CallShape DEF At, Inv, Voting, Idle
    <3>2. proposal[p] \in ProposalRow
      BY <3>1, RowShape DEF Inv, CallInv
    <3>3. r \in ProposalRow
      BY <3>2, RowUpdates
    <3>4. proposal' = [proposal EXCEPT ![p] = r]
      BY <2>4 DEF updateProposalStatus
    <3>. QED
      BY <2>4, <3>1, <3>3, <3>4, TypeFrame DEF Return, Inv, TypeOK
  <2>5. ASSUME ApproveExpire(c) \/ ApproveMark(c) \/ RejectMark(c)
        PROVE  TypeOK'
    BY <2>4, <2>5 DEF ApproveExpire, ApproveMark, RejectMark, Voting, Statuses
  <2>6. ASSUME ApproveWrite(c) \/ RejectWrite(c)
        PROVE  TypeOK'
    <3>. DEFINE p == call[c].prop
                v == Append(call[c].seen, call[c].user)
    <3>1. call[c] \in VoteCall /\ call[c] # Idle
      BY <2>6, CallShape DEF ApproveWrite, RejectWrite, At, Voting, Inv, Idle
    <3>2. p \in Proposals /\ proposal[p] \in ProposalRow /\ v \in Seq(Users)
      BY <3>1, RowShape DEF Inv, CallInv, VoteCall
    <3>3. \E r \in ProposalRow : proposal' = [proposal EXCEPT ![p] = r]
      BY <2>6, <3>2, RowUpdates DEF ApproveWrite, RejectWrite
    <3>4. \E l \in VoteCall \cup {Idle} : call' = [call EXCEPT ![c] = l]
      BY <2>6, <3>1, CallUpdates DEF ApproveWrite, RejectWrite, Proceed, Return, Voting
    <3>5. /\ wallet' = wallet /\ now' = now
          /\ endorsed' \in [Proposals -> SUBSET Users]
          /\ opposed' \in [Proposals -> SUBSET Users]
      BY <2>6, <3>1, <3>2 DEF ApproveWrite, RejectWrite, Inv, TypeOK, VoteCall
    <3>. QED  BY <3>2, <3>3, <3>4, <3>5, TypeFrame DEF Inv
  <2>. QED  BY <1>3, <2>1, <2>2, <2>3, <2>5, <2>6 DEF Vote
<1>4. ASSUME NEW c \in Calls, NEW p \in Proposals, ExecuteRead(c, p)
      PROVE  TypeOK'
  BY <1>4 DEF ExecuteRead, Inv, TypeOK, CallState
<1>5. ASSUME NEW c \in Calls, ExecuteWrite(c)
      PROVE  TypeOK'
  <2>1. /\ call[c].prop \in Proposals
        /\ proposal[call[c].prop] \in ProposalRow
    BY <1>5, CallShape, RowShape DEF ExecuteWrite, At, Inv, CallInv, Idle
  <2>2. PICK h \in TxHashes :
           proposal' = [proposal EXCEPT ![call[c].prop].status = "executed",
                                        ![call[c].prop].txHash = h]
    BY <1>5 DEF ExecuteWrite
  <2>. QED
    BY <1>5, <2>1, <2>2 DEF ExecuteWrite, Return, Inv, TypeOK, ProposalRow, Statuses
<1>6. ASSUME NEW c \in Calls, Abort(c)
      PROVE  TypeOK'
  BY <1>6 DEF Abort, Return, Inv, TypeOK
<1>7. ASSUME ExpireProposals
      PROVE  TypeOK'
  <2>1. ASSUME NEW p \in Proposals
        PROVE  proposal'[p] \in ProposalRow \cup {NoProposal}
    BY <1>7, RowShape DEF ExpireProposals, Inv, TypeOK, ProposalRow, Statuses
  <2>2. proposal' = [p \in Proposals |-> proposal'[p]]
    BY <1>7 DEF ExpireProposals
  <2>. QED  BY <1>7, <2>1, <2>2 DEF ExpireProposals, Inv, TypeOK
<1>8. ASSUME Tick
      PROVE  TypeOK'
  BY <1>8 DEF Tick, Inv, TypeOK
<1>9. ASSUME UNCHANGED vars
      PROVE  TypeOK'
  BY <1>9 DEF vars, Inv, TypeOK
<1>. QED
  BY <1>1, <1>2, <1>3, <1>4, <1>5, <1>6, <1>7, <1>8, <1>9 DEF Next, Execute

-----------------------------------------------------------------------------
(* What a step keeps *)

\* The row of p and the votes on it after a step, against those before it.
Grows(p) ==
    /\ WalletOf(p)' = WalletOf(p)
    /\ proposal'[p] # NoProposal
    /\ proposal'[p].expiresAt = proposal[p].expiresAt
    /\ now <= now'
    /\ endorsed[p] \subseteq endorsed'[p] /\ endorsed'[p] \subseteq Signers(p)
    /\ opposed[p] \subseteq opposed'[p] /\ opposed'[p] \subseteq Signers(p)

\* The bounds survive, because the sets of voters only grow.
LEMMA GrowsKeeps ==
    ASSUME Inv, TypeOK', NEW p \in Proposals, proposal[p] # NoProposal, Grows(p)
    PROVE  /\ Signers(p)' = Signers(p)
           /\ Quorum(p) => Quorum(p)'
           /\ Blocked(p) => Blocked(p)'
           /\ PastExpiry(p) => PastExpiry(p)'
           /\ \A s : Votes(s, endorsed[p]) => Votes(s, endorsed'[p])
           /\ \A s : Votes(s, opposed[p]) => Votes(s, opposed'[p])
<1>1. /\ proposal[p] \in ProposalRow /\ WalletOf(p) \in WalletRow
      /\ IsFiniteSet(Signers(p))
  BY WalletShape
<1>2. Signers(p)' = Signers(p)
  BY DEF Grows, Signers
<1>3. IsFiniteSet(endorsed'[p]) /\ IsFiniteSet(opposed'[p])
  BY <1>1, MoreVoters DEF Grows
<1>4. /\ Cardinality(endorsed[p]) \in Nat /\ Cardinality(endorsed'[p]) \in Nat
      /\ Cardinality(endorsed[p]) <= Cardinality(endorsed'[p])
      /\ Cardinality(opposed[p]) \in Nat /\ Cardinality(opposed'[p]) \in Nat
      /\ Cardinality(opposed[p]) <= Cardinality(opposed'[p])
      /\ \A s : Votes(s, endorsed[p]) => Votes(s, endorsed'[p])
      /\ \A s : Votes(s, opposed[p]) => Votes(s, opposed'[p])
  BY <1>3, MoreVoters DEF Grows
<1>5. WalletOf(p).threshold \in Nat /\ Len(WalletOf(p).signers) \in Nat
  BY <1>1 DEF WalletRow
<1>6. Quorum(p) => Quorum(p)'
  BY <1>4, <1>5 DEF Quorum, Grows
<1>7. Blocked(p) => Blocked(p)'
  BY <1>4, <1>5 DEF Blocked, Grows
<1>8. PastExpiry(p) => PastExpiry(p)'
  BY <1>1 DEF PastExpiry, Grows, ProposalRow, Inv, TypeOK
<1>. QED  BY <1>2, <1>4, <1>6, <1>7, <1>8

\* A handler that does not move keeps its invariant, whatever the others do.
LEMMA OthersKeep ==
    ASSUME Inv, TypeOK', NEW c \in Calls, call'[c] = call[c],
           \A p \in Proposals : proposal[p] # NoProposal => Grows(p)
    PROVE  CallInv(c)'
<1>. SUFFICES ASSUME call[c] # Idle
              PROVE  CallInv(c)'
  BY DEF CallInv
<1>. DEFINE p == call[c].prop
<1>1. p \in Proposals /\ proposal[p] # NoProposal /\ CallInv(c)
  BY CallShape DEF Inv, CallInv
<1>2. Grows(p)
  BY <1>1
<1>3. /\ Signers(p)' = Signers(p)
      /\ Quorum(p) => Quorum(p)'
      /\ Blocked(p) => Blocked(p)'
      /\ PastExpiry(p) => PastExpiry(p)'
      /\ \A s : Votes(s, endorsed[p]) => Votes(s, endorsed'[p])
      /\ \A s : Votes(s, opposed[p]) => Votes(s, opposed'[p])
  BY <1>1, <1>2, GrowsKeeps
<1>. QED  BY <1>1, <1>2, <1>3 DEF CallInv, Grows, Signers, Quorum, Blocked, PastExpiry, WalletOf

\* A row the step does not change keeps its invariant.
LEMMA RowKeeps ==
    ASSUME Inv, TypeOK', NEW p \in Proposals, proposal'[p] = proposal[p],
           endorsed'[p] = endorsed[p], opposed'[p] = opposed[p],
           proposal[p] # NoProposal => Grows(p)
    PROVE  RowInv(p)'
<1>1. RowInv(p)
  BY DEF Inv
<1>2. CASE proposal[p] = NoProposal
  BY <1>1, <1>2 DEF RowInv, NoProposal
<1>3. CASE proposal[p] # NoProposal
  <2>1. /\ Signers(p)' = Signers(p)
        /\ Quorum(p) => Quorum(p)'
        /\ Blocked(p) => Blocked(p)'
        /\ PastExpiry(p) => PastExpiry(p)'
    BY <1>3, GrowsKeeps
  <2>2. WalletOf(p)' = WalletOf(p)
    BY <1>3 DEF Grows
  <2>. QED  BY <1>1, <1>3, <2>1, <2>2 DEF RowInv
<1>. QED  BY <1>2, <1>3

-----------------------------------------------------------------------------
(* Steps by their effect *)

\* Reads and returns: one handler moves, the rows stay.
LEMMA MoveOnly ==
    ASSUME Inv, TypeOK', NEW c \in Calls,
           \A d \in Calls : d # c => call'[d] = call[d],
           UNCHANGED <<wallet, proposal, now, endorsed, opposed>>,
           CallInv(c)'
    PROVE  Inv'
<1>1. ASSUME NEW p \in Proposals, proposal[p] # NoProposal
      PROVE  Grows(p)
  BY <1>1 DEF Inv, RowInv, Grows, WalletOf, TypeOK
<1>2. ASSUME NEW p \in Proposals
      PROVE  RowInv(p)'
  BY <1>1, RowKeeps
<1>3. ASSUME NEW d \in Calls
      PROVE  CallInv(d)'
  BY <1>1, OthersKeep
<1>. QED  BY <1>2, <1>3 DEF Inv

\* One row is written, with the votes on it, and one handler moves.
LEMMA WriteOne ==
    ASSUME Inv, TypeOK', NEW c \in Calls, NEW p \in Proposals,
           \A d \in Calls : d # c => call'[d] = call[d],
           \A q \in Proposals : q # p => /\ proposal'[q] = proposal[q]
                                       /\ endorsed'[q] = endorsed[q]
                                       /\ opposed'[q] = opposed[q],
           proposal[p] # NoProposal, Grows(p),
           UNCHANGED <<wallet, now>>,
           RowInv(p)', CallInv(c)'
    PROVE  Inv'
<1>1. ASSUME NEW q \in Proposals, proposal[q] # NoProposal
      PROVE  Grows(q)
  BY <1>1 DEF Inv, RowInv, Grows, WalletOf, TypeOK
<1>2. ASSUME NEW q \in Proposals
      PROVE  RowInv(q)'
  BY <1>1, RowKeeps
<1>3. ASSUME NEW d \in Calls
      PROVE  CallInv(d)'
  BY <1>1, OthersKeep
<1>. QED  BY <1>2, <1>3 DEF Inv

\* updateProposalStatus and the UPDATE of Execute, by a handler entitled to it.
LEMMA Decides ==
    ASSUME Inv, TypeOK', NEW c \in Calls, NEW p \in Proposals, NEW r \in ProposalRow,
           proposal[p] # NoProposal,
           proposal' = [proposal EXCEPT ![p] = r],
           r.wallet = proposal[p].wallet, r.expiresAt = proposal[p].expiresAt,
           r.approvals = proposal[p].approvals, r.rejections = proposal[p].rejections,
           r.status \in {"approved", "executed"} => Quorum(p),
           r.status = "rejected" => Blocked(p),
           r.status = "expired" => PastExpiry(p),
           Return(c),
           UNCHANGED <<wallet, now, endorsed, opposed>>
    PROVE  Inv'
<1>1. RowInv(p) /\ proposal'[p] = r /\ r # NoProposal
  BY DEF Inv, TypeOK, ProposalRow, NoProposal, Statuses
<1>2. Grows(p)
  BY <1>1 DEF Grows, RowInv, WalletOf, Inv, TypeOK
<1>3. RowInv(p)'
  BY <1>1, <1>2, GrowsKeeps DEF RowInv, Grows, WalletOf
<1>4. CallInv(c)'
  BY DEF Return, CallInv, Inv, TypeOK
<1>5. /\ \A d \in Calls : d # c => call'[d] = call[d]
      /\ \A q \in Proposals : q # p => /\ proposal'[q] = proposal[q]
                                      /\ endorsed'[q] = endorsed[q]
                                      /\ opposed'[q] = opposed[q]
  BY DEF Return, Inv, TypeOK
<1>. QED  BY <1>2, <1>3, <1>4, <1>5, WriteOne

-----------------------------------------------------------------------------
(* The invariant is inductive *)

\* Rows come into being, age or expire; no handler moves.
LEMMA NoHandlerMoves ==
    ASSUME Inv, TypeOK', call' = call,
           \A p \in Proposals : proposal[p] # NoProposal => Grows(p),
           \A p \in Proposals : RowInv(p)'
    PROVE  Inv'
BY OthersKeep DEF Inv

\* A new wallet or proposal: no proposal had that wallet, no vote that proposal.
LEMMA CreationStep ==
    ASSUME Inv, TypeOK',
           \/ \E w \in Wallets : CreateWallet(w)
           \/ \E p \in Proposals, w \in Wallets, u \in Users : CreateProposal(p, w, u)
    PROVE  Inv'
<1>1. ASSUME NEW w \in Wallets, CreateWallet(w)
      PROVE  Inv'
  <2>1. /\ UNCHANGED <<proposal, call, now, endorsed, opposed>>
        /\ wallet[w] = NoWallet
        /\ \A v \in Wallets : v # w => wallet'[v] = wallet[v]
    BY <1>1 DEF CreateWallet, Inv, TypeOK
  <2>2. ASSUME NEW p \in Proposals, proposal[p] # NoProposal
        PROVE  Grows(p)
    BY <2>1, <2>2, RowShape DEF Grows, Inv, RowInv, WalletOf, TypeOK, ProposalRow
  <2>3. ASSUME NEW p \in Proposals
        PROVE  RowInv(p)'
    BY <2>1, <2>2, RowKeeps
  <2>. QED  BY <2>1, <2>2, <2>3, NoHandlerMoves
<1>2. ASSUME NEW p \in Proposals, NEW w \in Wallets, NEW u \in Users,
             CreateProposal(p, w, u)
      PROVE  Inv'
  <2>1. /\ UNCHANGED <<wallet, call, now, endorsed, opposed>>
        /\ proposal[p] = NoProposal /\ wallet[w] # NoWallet
        /\ \A q \in Proposals : q # p => proposal'[q] = proposal[q]
        /\ proposal'[p] # NoProposal
        /\ proposal'[p].wallet = w /\ proposal'[p].status = "pending"
        /\ proposal'[p].approvals = <<>> /\ proposal'[p].rejections = <<>>
    BY <1>2 DEF CreateProposal, Inv, TypeOK, NoProposal
  <2>2. ASSUME NEW q \in Proposals, proposal[q] # NoProposal
        PROVE  Grows(q)
    BY <2>1, <2>2 DEF Grows, Inv, RowInv, WalletOf, TypeOK
  <2>3. ASSUME NEW q \in Proposals, q # p
        PROVE  RowInv(q)'
    BY <2>1, <2>2, <2>3, RowKeeps
  <2>4. endorsed[p] = {} /\ opposed[p] = {} /\ \A E : Votes(<<>>, E)
    BY <2>1 DEF Inv, RowInv, Votes, Range, IsInjective
  <2>5. RowInv(p)'
    BY <2>1, <2>4 DEF RowInv, WalletOf
  <2>. QED  BY <2>1, <2>2, <2>3, <2>5, NoHandlerMoves
<1>. QED  BY <1>1, <1>2

\* The clock and the sweep of the expired proposals.
LEMMA TimeStep ==
    ASSUME Inv, TypeOK', ExpireProposals \/ Tick
    PROVE  Inv'
<1>1. /\ UNCHANGED <<wallet, call, endorsed, opposed>> /\ now <= now'
      /\ \A p \in Proposals :
            \/ proposal'[p] = proposal[p]
            \/ /\ proposal[p].status = "pending" /\ PastExpiry(p) /\ now' = now
               /\ proposal'[p] = [proposal[p] EXCEPT !.status = "expired"]
  BY DEF ExpireProposals, Tick, Inv, TypeOK
<1>2. ASSUME NEW p \in Proposals, proposal[p] # NoProposal
      PROVE  Grows(p)
  <2>1. proposal[p] \in ProposalRow /\ proposal[p].status # "none" /\ RowInv(p)
    BY <1>2, RowShape DEF Inv
  <2>2. /\ proposal'[p].status # "none" /\ proposal'[p].wallet = proposal[p].wallet
        /\ proposal'[p].expiresAt = proposal[p].expiresAt
    BY <1>1, <2>1 DEF ProposalRow
  <2>3. proposal'[p] # NoProposal /\ WalletOf(p)' = WalletOf(p)
    BY <1>1, <2>2 DEF NoProposal, WalletOf
  <2>4. endorsed[p] \subseteq Signers(p) /\ opposed[p] \subseteq Signers(p)
    BY <1>2, <2>1 DEF RowInv
  <2>. QED  BY <1>1, <2>2, <2>3, <2>4 DEF Grows
<1>3. ASSUME NEW p \in Proposals
      PROVE  RowInv(p)'
  <2>1. CASE proposal'[p] = proposal[p]
    BY <1>1, <1>2, <2>1, RowKeeps
  <2>2. CASE /\ proposal[p].status = "pending" /\ PastExpiry(p) /\ now' = now
             /\ proposal'[p] = [proposal[p] EXCEPT !.status = "expired"]
    <3>1. proposal[p] \in ProposalRow /\ proposal[p] # NoProposal /\ RowInv(p)
      BY <2>2, RowShape DEF Inv
    <3>2. /\ proposal'[p].status = "expired" /\ proposal'[p].wallet = proposal[p].wallet
          /\ proposal'[p].approvals = proposal[p].approvals
          /\ proposal'[p].rejections = proposal[p].rejections
          /\ proposal'[p].expiresAt = proposal[p].expiresAt
          /\ proposal'[p] # NoProposal
      BY <2>2, <3>1 DEF ProposalRow, NoProposal
    <3>. QED  BY <1>1, <2>2, <3>1, <3>2 DEF RowInv, WalletOf, Signers, PastExpiry
  <2>. QED  BY <1>1, <2>1, <2>2
<1>. QED  BY <1>1, <1>2, <1>3, NoHandlerMoves

\* A handler reads, decides on what it read, or gives up.
LEMMA ReadStep ==
    ASSUME Inv, TypeOK', NEW c \in Calls,
           \/ \E p \in Proposals, u \in Users : ApproveRead(c, p, u) \/ RejectRead(c, p, u)
           \/ \E p \in Proposals : ExecuteRead(c, p)
           \/ ApproveCheck(c)
           \/ Abort(c)
    PROVE  Inv'
<1>. SUFFICES ASSUME UNCHANGED <<wallet, proposal, now, endorsed, opposed>>,
                     \A d \in Calls : d # c => call'[d] = call[d]
              PROVE  CallInv(c)'
  <2>1. /\ UNCHANGED <<wallet, proposal, now, endorsed, opposed>>
        /\ \A d \in Calls : d # c => call'[d] = call[d]
    BY DEF ApproveRead, RejectRead, ExecuteRead, ApproveCheck, Abort, Proceed, Return,
           Inv, TypeOK
  <2>. QED  BY <2>1, MoveOnly
<1>1. ASSUME NEW p \in Proposals, NEW u \in Users, ApproveRead(c, p, u)
      PROVE  CallInv(c)'
  <2>1. /\ call'[c] = [at |-> "approveRead", prop |-> p, user |-> u,
                       seen |-> proposal[p].approvals]
        /\ proposal[p] # NoProposal /\ RowInv(p)
    BY <1>1, RowShape DEF ApproveRead, Inv, TypeOK
  <2>. QED  BY <2>1 DEF CallInv, RowInv
<1>2. ASSUME NEW p \in Proposals, NEW u \in Users, RejectRead(c, p, u)
      PROVE  CallInv(c)'
  <2>1. /\ call'[c] = [at |-> "rejectWrite", prop |-> p, user |-> u,
                       seen |-> proposal[p].rejections]
        /\ proposal[p] # NoProposal /\ RowInv(p)
        /\ u \in Signers(p) \ Range(proposal[p].rejections)
    BY <1>2, RowShape DEF RejectRead, Inv, TypeOK, isSigner, Signers
  <2>. QED  BY <2>1 DEF CallInv, RowInv, Signers, WalletOf
<1>3. ASSUME NEW p \in Proposals, ExecuteRead(c, p)
      PROVE  CallInv(c)'
  <2>1. /\ call'[c] = [at |-> "executeWrite", prop |-> p]
        /\ proposal[p] # NoProposal /\ RowInv(p) /\ proposal[p].status = "approved"
    BY <1>3, RowShape DEF ExecuteRead, Inv, TypeOK
  <2>. QED  BY <2>1 DEF CallInv, RowInv, Quorum, WalletOf
<1>4. ASSUME ApproveCheck(c)
      PROVE  CallInv(c)'
  <2>1. /\ call[c] \in VoteCall /\ call[c] # Idle /\ CallInv(c)
        /\ At(c, "approveRead")
    BY <1>4, CallShape DEF ApproveCheck, At, Voting, Inv, Idle
  <2>2. CASE PastExpiry(call[c].prop) /\ Proceed(c, "expireWrite")
    <3>1. call'[c] = [call[c] EXCEPT !.at = "expireWrite"]
      BY <2>2 DEF Proceed, Inv, TypeOK
    <3>. QED  BY <2>1, <2>2, <3>1 DEF CallInv, PastExpiry, VoteCall
  <2>3. CASE /\ isSigner(WalletOf(call[c].prop), call[c].user)
             /\ call[c].user \notin Range(call[c].seen)
             /\ Proceed(c, "approveWrite")
    <3>1. call'[c] = [call[c] EXCEPT !.at = "approveWrite"]
      BY <2>3 DEF Proceed, Inv, TypeOK
    <3>. QED
      BY <2>1, <2>3, <3>1 DEF CallInv, VoteCall, At, Signers, WalletOf, isSigner
  <2>4. CASE Return(c)
    BY <2>4 DEF Return, CallInv, Inv, TypeOK
  <2>. QED  BY <1>4, <2>2, <2>3, <2>4 DEF ApproveCheck
<1>5. ASSUME Abort(c)
      PROVE  CallInv(c)'
  BY <1>5 DEF Abort, Return, CallInv, Inv, TypeOK
<1>. QED  BY <1>1, <1>2, <1>3, <1>4, <1>5

\* A handler writes a status: it carries the evidence for it.
LEMMA DecideStep ==
    ASSUME Inv, TypeOK', NEW c \in Calls,
           ApproveExpire(c) \/ ApproveMark(c) \/ RejectMark(c) \/ ExecuteWrite(c)
    PROVE  Inv'
<1>1. call[c] # Idle
  BY CallShape
     DEF ApproveExpire, ApproveMark, RejectMark, ExecuteWrite, At, Inv, Idle
<1>p. PICK p \in Proposals : p = call[c].prop
  BY <1>1, CallShape DEF Inv
<1>2. CallInv(c) /\ proposal[p] # NoProposal /\ proposal[p] \in ProposalRow
  BY <1>p, <1>1, CallShape, RowShape DEF Inv, CallInv
<1>3. ASSUME NEW s \in Statuses, updateProposalStatus(p, s), Return(c),
             UNCHANGED <<wallet, now, endorsed, opposed>>,
             s = "approved" => Quorum(p), s # "executed",
             s = "rejected" => Blocked(p), s = "expired" => PastExpiry(p)
      PROVE  Inv'
  <2>. DEFINE r == [proposal[p] EXCEPT !.status = s]
  <2>1. /\ r \in ProposalRow /\ r.status = s
        /\ r.wallet = proposal[p].wallet /\ r.expiresAt = proposal[p].expiresAt
        /\ r.approvals = proposal[p].approvals /\ r.rejections = proposal[p].rejections
    BY <1>2 DEF ProposalRow
  <2>2. proposal' = [proposal EXCEPT ![p] = r]
    BY <1>3 DEF updateProposalStatus
  <2>. HIDE DEF r
  <2>. QED  BY <1>2, <1>3, <2>1, <2>2, Decides
<1>4. CASE ApproveExpire(c)
  BY <1>p, <1>1, <1>2, <1>3, <1>4 DEF ApproveExpire, At, CallInv, Statuses
<1>5. CASE ApproveMark(c)
  BY <1>p, <1>1, <1>2, <1>3, <1>5 DEF ApproveMark, At, CallInv, Statuses
<1>6. CASE RejectMark(c)
  BY <1>p, <1>1, <1>2, <1>3, <1>6 DEF RejectMark, At, CallInv, Statuses
<1>7. CASE ExecuteWrite(c)
  <2>1. PICK h \in TxHashes :
           proposal' = [proposal EXCEPT ![p].status = "executed", ![p].txHash = h]
    BY <1>p, <1>7 DEF ExecuteWrite
  <2>. DEFINE r == [proposal[p] EXCEPT !.status = "executed", !.txHash = h]
  <2>2. /\ r \in ProposalRow /\ r.status = "executed"
        /\ r.wallet = proposal[p].wallet /\ r.expiresAt = proposal[p].expiresAt
        /\ r.approvals = proposal[p].approvals /\ r.rejections = proposal[p].rejections
    BY <1>2, RowUpdates DEF ProposalRow
  <2>3. proposal' = [proposal EXCEPT ![p] = r]
    BY <1>2, <2>1 DEF Inv, TypeOK
  <2>4. Quorum(p) /\ Return(c) /\ UNCHANGED <<wallet, now, endorsed, opposed>>
    BY <1>p, <1>1, <1>2, <1>7 DEF ExecuteWrite, At, CallInv
  <2>. HIDE DEF r
  <2>. QED  BY <1>2, <2>2, <2>3, <2>4, Decides
<1>. QED  BY <1>4, <1>5, <1>6, <1>7

\* A handler writes its list of votes, one voter longer than what it read.
LEMMA WriteStep ==
    ASSUME Inv, TypeOK', NEW c \in Calls, ApproveWrite(c) \/ RejectWrite(c)
    PROVE  Inv'
<1>1. call[c] \in VoteCall /\ call[c] # Idle
  BY CallShape DEF ApproveWrite, RejectWrite, At, Voting, Inv, Idle
<1>p. PICK p \in Proposals, u \in Users, seen \in Seq(Users), votes \in Seq(Users) :
           /\ p = call[c].prop /\ u = call[c].user /\ seen = call[c].seen
           /\ votes = Append(seen, u)
  <2>1. /\ call[c].prop \in Proposals /\ call[c].user \in Users
        /\ call[c].seen \in Seq(Users)
    BY <1>1 DEF VoteCall
  <2>2. Append(call[c].seen, call[c].user) \in Seq(Users)
    BY <2>1
  <2>. QED  BY <2>1, <2>2, Zenon
<1>2. CallInv(c) /\ RowInv(p) /\ proposal[p] # NoProposal
  BY <1>p, <1>1 DEF Inv, CallInv
<1>3. /\ proposal[p] \in ProposalRow /\ WalletOf(p) \in WalletRow
      /\ IsFiniteSet(Signers(p))
  BY <1>2, WalletShape
<1>4. u \in Signers(p) /\ u \notin Range(seen)
  BY <1>p, <1>1, <1>2 DEF ApproveWrite, RejectWrite, At, CallInv
<1>5. \A d \in Calls : d # c => call'[d] = call[d]
  BY DEF ApproveWrite, RejectWrite, Proceed, Return, Inv, TypeOK
<1>6. /\ UNCHANGED <<wallet, now>>
      /\ \A q \in Proposals : q # p => /\ proposal'[q] = proposal[q]
                                      /\ endorsed'[q] = endorsed[q]
                                      /\ opposed'[q] = opposed[q]
  BY <1>p, <1>2 DEF ApproveWrite, RejectWrite, Inv, TypeOK
<1>7. WalletOf(p).threshold \in Nat /\ Len(WalletOf(p).signers) \in Nat
  BY <1>3 DEF WalletRow
<1>8. CASE ApproveWrite(c)
  <2>1. /\ proposal'[p] = [proposal[p] EXCEPT !.approvals = votes]
        /\ endorsed'[p] = endorsed[p] \cup {u} /\ opposed' = opposed
    BY <1>p, <1>2, <1>8 DEF ApproveWrite, Inv, TypeOK
  <2>2. /\ proposal'[p].wallet = proposal[p].wallet
        /\ proposal'[p].expiresAt = proposal[p].expiresAt
        /\ proposal'[p].approvals = votes /\ proposal'[p].rejections = proposal[p].rejections
        /\ proposal'[p].status = proposal[p].status /\ proposal'[p] # NoProposal
    BY <1>3, <2>1 DEF ProposalRow, NoProposal
  <2>3. Grows(p)
    BY <1>2, <1>4, <1>6, <2>1, <2>2 DEF Grows, RowInv, WalletOf, Inv, TypeOK
  <2>4. Votes(votes, endorsed'[p])
    <3>1. Votes(seen, endorsed[p])
      BY <1>p, <1>1, <1>2, <1>8 DEF CallInv, ApproveWrite, At
    <3>. QED  BY <1>p, <1>2, <1>4, <2>1, <3>1, VotesAppend
  <2>5. RowInv(p)'
    BY <1>2, <2>2, <2>3, <2>4, GrowsKeeps DEF RowInv, Grows
  <2>6. IsFiniteSet(endorsed'[p]) /\ Cardinality(endorsed'[p]) \in Nat
    BY <1>3, <2>3, MoreVoters DEF Grows
  <2>7. Len(votes) \in Nat /\ Len(votes) <= Cardinality(endorsed'[p])
    BY <2>4, <2>6, VotesCounted
  <2>8. CASE Len(votes) >= WalletOf(p).threshold /\ Proceed(c, "approveMark")
    <3>1. Quorum(p)'
      BY <1>7, <2>3, <2>6, <2>7, <2>8 DEF Quorum, Grows
    <3>2. call'[c] = [call[c] EXCEPT !.at = "approveMark"]
      BY <2>8 DEF Proceed, Inv, TypeOK
    <3>3. call'[c].at = "approveMark" /\ call'[c].prop = p
      BY <1>p, <1>1, <3>2 DEF VoteCall
    <3>4. CallInv(c)'
      BY <2>2, <3>1, <3>3 DEF CallInv, Quorum, WalletOf
    <3>. QED  BY <1>2, <1>5, <1>6, <2>3, <2>5, <3>4, WriteOne
  <2>9. CASE Return(c)
    <3>1. CallInv(c)'
      BY <2>9 DEF Return, CallInv, Inv, TypeOK
    <3>. QED  BY <1>2, <1>5, <1>6, <2>3, <2>5, <3>1, WriteOne
  <2>. QED  BY <1>p, <1>8, <2>8, <2>9 DEF ApproveWrite
<1>9. CASE RejectWrite(c)
  <2>1. /\ proposal'[p] = [proposal[p] EXCEPT !.rejections = votes]
        /\ opposed'[p] = opposed[p] \cup {u} /\ endorsed' = endorsed
    BY <1>p, <1>2, <1>9 DEF RejectWrite, Inv, TypeOK
  <2>2. /\ proposal'[p].wallet = proposal[p].wallet
        /\ proposal'[p].expiresAt = proposal[p].expiresAt
        /\ proposal'[p].rejections = votes /\ proposal'[p].approvals = proposal[p].approvals
        /\ proposal'[p].status = proposal[p].status /\ proposal'[p] # NoProposal
    BY <1>3, <2>1 DEF ProposalRow, NoProposal
  <2>3. Grows(p)
    BY <1>2, <1>4, <1>6, <2>1, <2>2 DEF Grows, RowInv, WalletOf, Inv, TypeOK
  <2>4. Votes(votes, opposed'[p])
    <3>1. Votes(seen, opposed[p])
      BY <1>p, <1>1, <1>2, <1>9 DEF CallInv, RejectWrite, At
    <3>. QED  BY <1>p, <1>2, <1>4, <2>1, <3>1, VotesAppend
  <2>5. RowInv(p)'
    BY <1>2, <2>2, <2>3, <2>4, GrowsKeeps DEF RowInv, Grows
  <2>6. IsFiniteSet(opposed'[p]) /\ Cardinality(opposed'[p]) \in Nat
    BY <1>3, <2>3, MoreVoters DEF Grows
  <2>7. Len(votes) \in Nat /\ Len(votes) <= Cardinality(opposed'[p])
    BY <2>4, <2>6, VotesCounted
  <2>8. CASE Blocking(Len(votes), WalletOf(p)) /\ Proceed(c, "rejectMark")
    <3>1. Blocked(p)'
      BY <1>7, <2>3, <2>6, <2>7, <2>8 DEF Blocked, Blocking, Grows
    <3>2. call'[c] = [call[c] EXCEPT !.at = "rejectMark"]
      BY <2>8 DEF Proceed, Inv, TypeOK
    <3>3. call'[c].at = "rejectMark" /\ call'[c].prop = p
      BY <1>p, <1>1, <3>2 DEF VoteCall
    <3>4. CallInv(c)'
      BY <2>2, <3>1, <3>3 DEF CallInv, Blocked, WalletOf
    <3>. QED  BY <1>2, <1>5, <1>6, <2>3, <2>5, <3>4, WriteOne
  <2>9. CASE Return(c)
    <3>1. CallInv(c)'
      BY <2>9 DEF Return, CallInv, Inv, TypeOK
    <3>. QED  BY <1>2, <1>5, <1>6, <2>3, <2>5, <3>1, WriteOne
  <2>. QED  BY <1>p, <1>9, <2>8, <2>9 DEF RejectWrite
<1>. QED  BY <1>8, <1>9

\* Every step of the specification keeps the invariant.
LEMMA InvStep ==
    ASSUME Inv, [Next]_vars
    PROVE  Inv'
<1>1. TypeOK'
  BY TypeStep
<1>2. CASE \/ \E w \in Wallets : CreateWallet(w)
           \/ \E p \in Proposals, w \in Wallets, u \in Users : CreateProposal(p, w, u)
  BY <1>1, <1>2, CreationStep
<1>3. ASSUME NEW c \in Calls, Vote(c) \/ Execute(c) \/ Abort(c)
      PROVE  Inv'
  BY <1>1, <1>3, ReadStep, DecideStep, WriteStep DEF Vote, Execute
<1>4. CASE ExpireProposals \/ Tick
  BY <1>1, <1>4, TimeStep
<1>5. CASE UNCHANGED vars
  <2>1. /\ \A p \in Proposals : proposal[p] # NoProposal => Grows(p)
        /\ \A p \in Proposals : RowInv(p)'
    BY <1>1, <1>5, RowKeeps DEF vars, Inv, RowInv, Grows, WalletOf, TypeOK
  <2>. QED  BY <1>1, <1>5, <2>1, NoHandlerMoves DEF vars
<1>. QED  BY <1>2, <1>3, <1>4, <1>5 DEF Next

\* The invariant holds without wallets and proposals.
LEMMA InvInit == Init => Inv
<1>. SUFFICES ASSUME Init PROVE Inv
  OBVIOUS
<1>1. TypeOK
  BY ConstantsOK DEF Init, TypeOK
<1>2. ASSUME NEW p \in Proposals
      PROVE  RowInv(p)
  BY DEF Init, RowInv, NoProposal
<1>3. ASSUME NEW c \in Calls
      PROVE  CallInv(c)
  BY DEF Init, CallInv
<1>. QED  BY <1>1, <1>2, <1>3 DEF Inv

\* Every reachable state satisfies the invariant.
LEMMA Invariance == Spec => []Inv
<1>1. Inv /\ [Next]_vars => Inv'
  BY InvStep
<1>. QED  BY <1>1, InvInit, PTL DEF Spec

-----------------------------------------------------------------------------
(* Theorems *)

(* Every row and every handler keeps its type (multisig.go's structs).     *)
THEOREM TypeCorrect == Spec => []TypeOK
<1>1. Inv => TypeOK
  BY DEF Inv
<1>. QED  BY <1>1, Invariance, PTL

(* However many handlers of Approve run at once, lose each other's votes,  *)
(* fail or die, a proposal is approved or executed only after Threshold    *)
(* different signers had an approval written.                              *)
THEOREM ApprovalNeedsQuorum == Spec => []ApprovalQuorum
<1>1. ASSUME Inv
      PROVE  ApprovalQuorum
  <2>1. ASSUME NEW p \in Proposals, proposal[p].status \in {"approved", "executed"}
        PROVE  Cardinality(endorsed[p] \cap Signers(p)) >= WalletOf(p).threshold
    <3>1. RowInv(p) /\ proposal[p] # NoProposal
      BY <1>1, <2>1, RowShape DEF Inv
    <3>2. endorsed[p] \cap Signers(p) = endorsed[p]
      BY <3>1 DEF RowInv
    <3>. QED  BY <2>1, <3>1, <3>2 DEF RowInv, Quorum
  <2>. QED  BY <2>1 DEF ApprovalQuorum
<1>. QED  BY <1>1, Invariance, PTL

(* A proposal is rejected only after more signers than its wallet can      *)
(* spare had a rejection written.                                          *)
THEOREM RejectionNeedsQuorum == Spec => []RejectionQuorum
<1>1. ASSUME Inv
      PROVE  RejectionQuorum
  <2>1. ASSUME NEW p \in Proposals, proposal[p].status = "rejected"
        PROVE  Cardinality(opposed[p] \cap Signers(p))
                  > Len(WalletOf(p).signers) - WalletOf(p).threshold
    <3>1. RowInv(p) /\ proposal[p] # NoProposal
      BY <1>1, <2>1, RowShape DEF Inv
    <3>2. opposed[p] \cap Signers(p) = opposed[p]
      BY <3>1 DEF RowInv
    <3>. QED  BY <2>1, <3>1, <3>2 DEF RowInv, Blocked
  <2>. QED  BY <2>1 DEF RejectionQuorum
<1>. QED  BY <1>1, Invariance, PTL

(* A proposal is marked expired only when its deadline has passed.         *)
THEOREM ExpiryIsDue == Spec => []NoEarlyExpiry
<1>1. Inv => NoEarlyExpiry
  BY DEF Inv, RowInv, NoEarlyExpiry, PastExpiry
<1>. QED  BY <1>1, Invariance, PTL

\* A step on a row needs a handler that has read it, or a row still open.
(* Whatever handlers interleave, no proposal is approved, rejected or      *)
(* expired without what that takes.                                        *)
THEOREM VerdictsAreEarned == Spec => []VerdictsEarned
<1>1. ApprovalQuorum /\ RejectionQuorum /\ NoEarlyExpiry => VerdictsEarned
  BY DEF VerdictsEarned
<1>. QED  BY <1>1, ApprovalNeedsQuorum, RejectionNeedsQuorum, ExpiryIsDue, PTL

LEMMA SettledStep ==
    ASSUME Inv, [Next]_vars, NEW p \in Proposals, Settled(p)
    PROVE  Settled(p)' /\ proposal'[p] = proposal[p]
<1>1. /\ proposal[p].status \in {"rejected", "expired", "executed"}
      /\ proposal[p] # NoProposal
      /\ \A c \in Calls : call[c] # Idle => call[c].prop # p
  BY DEF Settled, InFlight, NoProposal
<1>. SUFFICES /\ proposal'[p] = proposal[p]
              /\ \A c \in Calls : call'[c] # Idle => call'[c].prop # p
  BY <1>1 DEF Settled, InFlight
<1>2. CASE \/ \E w \in Wallets : CreateWallet(w)
           \/ \E q \in Proposals, w \in Wallets, u \in Users : CreateProposal(q, w, u)
  BY <1>1, <1>2 DEF CreateWallet, CreateProposal, Inv, TypeOK
<1>3. ASSUME NEW c \in Calls, Vote(c) \/ Execute(c) \/ Abort(c)
      PROVE  /\ proposal'[p] = proposal[p]
             /\ \A d \in Calls : call'[d] # Idle => call'[d].prop # p
  <2>1. \A d \in Calls : d # c => call'[d] = call[d]
    BY <1>3 DEF Vote, Execute, Abort, ApproveRead, RejectRead, ApproveCheck, ApproveExpire,
                ApproveWrite, ApproveMark, RejectWrite, RejectMark, ExecuteRead,
                ExecuteWrite, Proceed, Return, Inv, TypeOK
  <2>2. CASE call[c] = Idle
    <3>1. \E q \in Proposals : call'[c].prop = q /\ proposal' = proposal
             /\ proposal[q].status \in {"pending", "approved"}
      BY <1>3, <2>2
         DEF Vote, Execute, Abort, ApproveRead, RejectRead, ApproveCheck, ApproveExpire,
             ApproveWrite, ApproveMark, RejectWrite, RejectMark, ExecuteRead,
             ExecuteWrite, At, Idle, Inv, TypeOK
    <3>. QED  BY <1>1, <2>1, <3>1
  <2>3. CASE call[c] # Idle
    <3>1. call[c].prop \in Proposals /\ call[c].prop # p /\ call[c].at # "idle"
      BY <1>1, <2>3, CallShape DEF Inv
    <3>2. proposal'[p] = proposal[p]
      BY <1>3, <3>1
         DEF Vote, Execute, Abort, ApproveRead, RejectRead, ApproveCheck, ApproveExpire,
             ApproveWrite, ApproveMark, RejectWrite, RejectMark, ExecuteRead,
             ExecuteWrite, updateProposalStatus, At, Inv, TypeOK
    <3>3. \/ call'[c] = Idle
          \/ \E stage \in Voting : call[c].at \in Voting /\ call'[c] = [call[c] EXCEPT !.at = stage]
      BY <1>3, <3>1, CallShape
         DEF Vote, Execute, Abort, ApproveRead, RejectRead, ApproveCheck, ApproveExpire,
             ApproveWrite, ApproveMark, RejectWrite, RejectMark, ExecuteRead,
             ExecuteWrite, Proceed, Return, At, Voting, Inv, TypeOK
    <3>4. call'[c] = Idle \/ call'[c].prop = call[c].prop
      BY <2>3, <3>3, CallShape DEF VoteCall, Inv
    <3>. QED  BY <1>1, <2>1, <3>1, <3>2, <3>4
  <2>. QED  BY <2>2, <2>3
<1>4. CASE ExpireProposals \/ Tick
  BY <1>1, <1>4 DEF ExpireProposals, Tick, Inv, TypeOK
<1>5. CASE UNCHANGED vars
  BY <1>1, <1>5 DEF vars
<1>. QED  BY <1>2, <1>3, <1>4, <1>5 DEF Next

(* A rejected, expired or executed proposal that no running handler has    *)
(* read before never changes again.                                        *)
THEOREM SettledStays == Spec => SettledForGood
<1>1. Inv /\ [Next]_vars =>
         [\A p \in Proposals : Settled(p) => Settled(p)' /\ proposal'[p] = proposal[p]]_vars
  BY SettledStep
<1>. QED  BY <1>1, Invariance, PTL DEF Spec, SettledForGood


-----------------------------------------------------------------------------
(* One handler at a time                                                   *)

\* What a lone handler c has read is what the rows still hold: the approvals
\* of a row are those that were written, and it is pending with enough of them
\* only while c is about to mark it.
SoloRow(c, p) ==
    proposal[p] # NoProposal =>
        /\ endorsed[p] = Range(proposal[p].approvals)
        /\ proposal[p].status = "pending" =>
              \/ Len(proposal[p].approvals) < WalletOf(p).threshold
              \/ call[c].at = "approveMark" /\ call[c].prop = p

Solo(c) ==
    /\ \A p \in Proposals : SoloRow(c, p)
    /\ call[c].at \in {"approveRead", "approveWrite"} =>
          call[c].seen = proposal[call[c].prop].approvals

\* What an UPDATE by id does to the rows.
LEMMA RowWritten ==
    ASSUME TypeOK, NEW p \in Proposals, NEW r, proposal' = [proposal EXCEPT ![p] = r]
    PROVE  proposal'[p] = r /\ \A q \in Proposals : q # p => proposal'[q] = proposal[q]
BY DEF TypeOK

\* No step changes the wallet of a proposal.
LEMMA WalletStays ==
    ASSUME Inv, NEW p \in Proposals, proposal[p] # NoProposal,
           proposal'[p].wallet = proposal[p].wallet,
           UNCHANGED wallet \/ \E w \in Wallets : CreateWallet(w)
    PROVE  WalletOf(p)' = WalletOf(p)
<1>1. CASE UNCHANGED wallet
  BY <1>1 DEF WalletOf
<1>2. ASSUME NEW w \in Wallets, CreateWallet(w) PROVE WalletOf(p)' = WalletOf(p)
  <2>1. proposal[p].wallet # w
    BY <1>2 DEF CreateWallet, Inv, RowInv, WalletOf
  <2>. QED  BY <1>2, <2>1 DEF CreateWallet, WalletOf, Inv, TypeOK
<1>. QED  BY <1>1, <1>2

\* A row whose list of approvals a step leaves alone.
LEMMA SoloRowKept ==
    ASSUME Inv, NEW c, NEW p \in Proposals, SoloRow(c, p), proposal[p] # NoProposal,
           proposal'[p].approvals = proposal[p].approvals, endorsed'[p] = endorsed[p],
           WalletOf(p)' = WalletOf(p),
           proposal'[p].status = "pending" =>
              /\ proposal[p].status = "pending"
              /\ call[c].at = "approveMark" /\ call[c].prop = p =>
                    call'[c].at = "approveMark" /\ call'[c].prop = p
    PROVE  SoloRow(c, p)'
BY DEF SoloRow

\* Steps that write no row of a proposal.
LEMMA SoloRead ==
    ASSUME Inv, NEW c \in Calls, Solo(c), UNCHANGED <<proposal, endorsed>>,
           UNCHANGED wallet \/ \E w \in Wallets : CreateWallet(w),
           UNCHANGED call \/ ~At(c, "approveMark"),
           call'[c].at \in {"approveRead", "approveWrite"} =>
              call'[c].seen = proposal[call'[c].prop].approvals
    PROVE  Solo(c)'
<1>1. ASSUME NEW p \in Proposals PROVE SoloRow(c, p)'
  <2>1. CASE proposal[p] # NoProposal
    <3>1. WalletOf(p)' = WalletOf(p)
      BY <2>1, WalletStays
    <3>. QED  BY <2>1, <3>1 DEF Solo, SoloRow, At
  <2>. QED  BY <2>1 DEF SoloRow
<1>. QED  BY <1>1 DEF Solo

\* Steps that write the status of proposals, to something else than pending.
LEMMA SoloMarked ==
    ASSUME Inv, NEW c \in Calls, Solo(c), UNCHANGED <<wallet, endorsed>>,
           \A p \in Proposals :
              \/ proposal'[p] = proposal[p]
              \/ /\ proposal[p] # NoProposal /\ proposal'[p].status # "pending"
                 /\ proposal'[p].approvals = proposal[p].approvals
                 /\ proposal'[p].wallet = proposal[p].wallet,
           \/ UNCHANGED call
           \/ /\ call'[c] = Idle
              /\ At(c, "approveMark") => proposal'[call[c].prop].status # "pending"
    PROVE  Solo(c)'
<1>1. ASSUME NEW p \in Proposals PROVE SoloRow(c, p)'
  <2>1. CASE proposal[p] # NoProposal
    <3>1. /\ proposal'[p].approvals = proposal[p].approvals
          /\ proposal'[p].wallet = proposal[p].wallet
          /\ proposal'[p].status = "pending" => proposal[p].status = "pending"
      BY <2>1
    <3>2. WalletOf(p)' = WalletOf(p)
      BY <2>1, <3>1, WalletStays
    <3>3. \/ call'[c] = call[c]
          \/ call[c].at = "approveMark" => proposal'[call[c].prop].status # "pending"
      BY DEF At
    <3>. QED  BY <2>1, <3>1, <3>2, <3>3 DEF Solo, SoloRow
  <2>2. CASE proposal[p] = NoProposal
    BY <2>2 DEF SoloRow
  <2>. QED  BY <2>1, <2>2
<1>2. call'[c].at \in {"approveRead", "approveWrite"} =>
          /\ call'[c] = call[c] /\ call[c].prop \in Proposals
          /\ proposal[call[c].prop] # NoProposal
  BY CallShape DEF Inv, CallInv, Idle
<1>3. call'[c].at \in {"approveRead", "approveWrite"} =>
          call'[c].seen = proposal'[call'[c].prop].approvals
  BY <1>2 DEF Solo
<1>. QED  BY <1>1, <1>3 DEF Solo


LEMMA RangeAppend ==
    ASSUME NEW S, NEW s \in Seq(S), NEW u \in S
    PROVE  /\ Range(Append(s, u)) = Range(s) \cup {u}
           /\ Append(s, u) \in Seq(S) /\ Len(Append(s, u)) = Len(s) + 1
<1>. DEFINE t == Append(s, u)
<1>1. /\ t \in Seq(S) /\ Len(t) = Len(s) + 1 /\ DOMAIN t = 1..Len(s) + 1
      /\ DOMAIN s = 1..Len(s) /\ Len(s) \in Nat
      /\ \A i \in 1..Len(s) : t[i] = s[i]
      /\ t[Len(s) + 1] = u
  OBVIOUS
<1>. HIDE DEF t
<1>2. ASSUME NEW x \in Range(t) PROVE x \in Range(s) \cup {u}
  <2>1. PICK i \in 1..Len(s) + 1 : x = t[i]
    BY <1>1 DEF Range
  <2>. QED  BY <1>1, <2>1 DEF Range
<1>3. ASSUME NEW x \in Range(s) \cup {u} PROVE x \in Range(t)
  <2>1. CASE x = u
    <3>1. Len(s) + 1 \in DOMAIN t
      BY <1>1
    <3>. QED  BY <1>1, <2>1, <3>1 DEF Range
  <2>2. CASE x \in Range(s)
    <3>1. PICK i \in DOMAIN s : x = s[i]
      BY <2>2 DEF Range
    <3>2. i \in DOMAIN t /\ t[i] = s[i]
      BY <1>1
    <3>. QED  BY <3>1, <3>2 DEF Range
  <2>. QED  BY <1>3, <2>1, <2>2
<1>4. Range(t) = Range(s) \cup {u}
  BY <1>2, <1>3
<1>. QED  BY <1>1, <1>4 DEF t

LEMMA SoloApproveWrite ==
    ASSUME Inv, NEW c \in Calls, Solo(c), ApproveWrite(c),
           NEW p \in Proposals, call[c].prop = p
    PROVE  Solo(c)'
<1>. DEFINE votes == Append(call[c].seen, call[c].user)
            row == [proposal[p] EXCEPT !.approvals = votes]
<1>1. /\ call[c].at = "approveWrite" /\ call[c] \in VoteCall /\ call[c] # Idle
      /\ p \in Proposals /\ call[c].seen \in Seq(Users) /\ call[c].user \in Users
  BY CallShape DEF ApproveWrite, At, Inv, VoteCall, Voting, Idle
<1>2. proposal[p] # NoProposal /\ proposal[p] \in ProposalRow
  BY <1>1, RowShape DEF Inv, CallInv
<1>3. /\ proposal' = [proposal EXCEPT ![p] = row]
      /\ endorsed' = [endorsed EXCEPT ![p] = endorsed[p] \cup {call[c].user}]
      /\ UNCHANGED wallet
      /\ IF Len(votes) >= WalletOf(p).threshold
         THEN call' = [call EXCEPT ![c].at = "approveMark"] ELSE call' = [call EXCEPT ![c] = Idle]
  BY DEF ApproveWrite, Proceed, Return
<1>4. /\ Range(votes) = Range(call[c].seen) \cup {call[c].user}
      /\ votes \in Seq(Users) /\ Len(votes) = Len(call[c].seen) + 1
  BY <1>1, RangeAppend
<1>5. row.approvals = votes /\ row.status = proposal[p].status /\ row.wallet = proposal[p].wallet
      /\ row # NoProposal
  <2>1. row \in ProposalRow
    BY <1>2, <1>4, RowUpdates
  <2>2. row # NoProposal
    BY <2>1 DEF ProposalRow, NoProposal, Statuses
  <2>. QED  BY <1>2, <2>2 DEF ProposalRow
<1>6. endorsed'[p] = Range(votes)
  <2>1. endorsed[p] = Range(call[c].seen)
    BY <1>1, <1>2 DEF Solo, SoloRow
  <2>. QED  BY <1>1, <1>3, <1>4, <2>1 DEF Inv, TypeOK
<1>7. /\ Len(votes) >= WalletOf(p).threshold => call'[c].at = "approveMark" /\ call'[c].prop = p
      /\ call'[c].at \notin {"approveRead", "approveWrite"}
  <2>1. call \in [Calls -> CallState \cup {Idle}]
    BY DEF Inv, TypeOK
  <2>2. CASE Len(votes) >= WalletOf(p).threshold
    <3>1. call'[c] = [call[c] EXCEPT !.at = "approveMark"]
      BY <1>3, <2>1, <2>2
    <3>. QED  BY <1>1, <3>1 DEF VoteCall
  <2>3. CASE ~(Len(votes) >= WalletOf(p).threshold)
    <3>1. call'[c] = Idle
      BY <1>3, <2>1, <2>3
    <3>. QED  BY <2>3, <3>1 DEF Idle
  <2>. QED  BY <2>2, <2>3
<1>8. proposal'[p] = row /\ \A q \in Proposals : q # p => proposal'[q] = proposal[q]
  BY <1>1, <1>3, RowWritten DEF Inv
<1>9. WalletOf(p)' = WalletOf(p) /\ WalletOf(p).threshold \in Nat
  <2>1. WalletOf(p)' = WalletOf(p)
    BY <1>1, <1>2, <1>3, <1>5, <1>8, WalletStays
  <2>. QED  BY <1>1, <1>2, <2>1, WalletShape DEF WalletRow
<1>. HIDE DEF row, votes
<1>10. SoloRow(c, p)'
  <2>1. Len(votes) < WalletOf(p).threshold \/ Len(votes) >= WalletOf(p).threshold
    BY <1>1, <1>4, <1>9
  <2>2. endorsed'[p] = Range(proposal'[p].approvals)
    BY <1>5, <1>6, <1>8
  <2>3. \/ Len(proposal'[p].approvals) < WalletOf(p)'.threshold
        \/ call'[c].at = "approveMark" /\ call'[c].prop = p
    BY <1>5, <1>7, <1>8, <1>9, <2>1
  <2>. QED  BY <2>2, <2>3 DEF SoloRow
<1>11. ASSUME NEW q \in Proposals, q # p PROVE SoloRow(c, q)'
  <2>1. CASE proposal[q] # NoProposal
    <3>1. proposal'[q] = proposal[q] /\ endorsed'[q] = endorsed[q]
      BY <1>3, <1>8, <1>11 DEF Inv, TypeOK
    <3>2. WalletOf(q)' = WalletOf(q)
      BY <1>3, <2>1, <3>1, WalletStays
    <3>3. SoloRow(c, q)
      BY DEF Solo
    <3>. QED  BY <1>1, <2>1, <3>1, <3>2, <3>3, SoloRowKept
  <2>2. CASE proposal[q] = NoProposal
    BY <1>8, <1>11, <2>2 DEF SoloRow
  <2>. QED  BY <2>1, <2>2
<1>. QED  BY <1>7, <1>10, <1>11 DEF Solo

LEMMA SoloRejectWrite ==
    ASSUME Inv, NEW c \in Calls, Solo(c), RejectWrite(c)
    PROVE  Solo(c)'
<1>. DEFINE p == call[c].prop
            votes == Append(call[c].seen, call[c].user)
            row == [proposal[p] EXCEPT !.rejections = votes]
<1>1. /\ call[c].at = "rejectWrite" /\ call[c] \in VoteCall /\ call[c] # Idle
      /\ p \in Proposals /\ call[c].seen \in Seq(Users) /\ call[c].user \in Users
  BY CallShape DEF RejectWrite, At, Inv, VoteCall, Voting, Idle
<1>2. proposal[p] # NoProposal /\ proposal[p] \in ProposalRow
  BY <1>1, RowShape DEF Inv, CallInv
<1>3. /\ proposal' = [proposal EXCEPT ![p] = row] /\ UNCHANGED <<wallet, endorsed>>
      /\ \/ call' = [call EXCEPT ![c].at = "rejectMark"]
         \/ call' = [call EXCEPT ![c] = Idle]
  BY DEF RejectWrite, Proceed, Return
<1>4. row.approvals = proposal[p].approvals /\ row.status = proposal[p].status
      /\ row.wallet = proposal[p].wallet
  BY <1>2 DEF ProposalRow
<1>5. call'[c].at \notin {"approveRead", "approveWrite"}
  <2>1. call \in [Calls -> CallState \cup {Idle}]
    BY DEF Inv, TypeOK
  <2>2. CASE call' = [call EXCEPT ![c].at = "rejectMark"]
    <3>1. call'[c] = [call[c] EXCEPT !.at = "rejectMark"]
      BY <2>1, <2>2
    <3>. QED  BY <1>1, <3>1 DEF VoteCall
  <2>3. CASE call' = [call EXCEPT ![c] = Idle]
    BY <2>1, <2>3 DEF Idle
  <2>. QED  BY <1>3, <2>2, <2>3
<1>6. proposal'[p] = row /\ \A q \in Proposals : q # p => proposal'[q] = proposal[q]
  BY <1>1, <1>3, RowWritten DEF Inv
<1>. HIDE DEF row
<1>7. ASSUME NEW q \in Proposals PROVE SoloRow(c, q)'
  <2>1. CASE proposal[q] # NoProposal
    <3>1. /\ proposal'[q].approvals = proposal[q].approvals /\ endorsed'[q] = endorsed[q]
          /\ proposal'[q].status = proposal[q].status /\ proposal'[q].wallet = proposal[q].wallet
      BY <1>3, <1>4, <1>6
    <3>2. WalletOf(q)' = WalletOf(q)
      BY <1>3, <2>1, <3>1, WalletStays
    <3>3. SoloRow(c, q)
      BY DEF Solo
    <3>. QED  BY <1>1, <2>1, <3>1, <3>2, <3>3, SoloRowKept
  <2>2. CASE proposal[q] = NoProposal
    BY <1>2, <1>6, <2>2 DEF SoloRow
  <2>. QED  BY <2>1, <2>2
<1>. QED  BY <1>5, <1>7 DEF Solo

LEMMA SoloCreateProposal ==
    ASSUME Inv, NEW c \in Calls, Solo(c), NEW p \in Proposals, NEW w \in Wallets, NEW u \in Users,
           CreateProposal(p, w, u)
    PROVE  Solo(c)'
<1>0. PICK life \in Lifetimes :
          proposal' = [proposal EXCEPT ![p] =
             [status |-> "pending", wallet |-> w, approvals |-> << >>,
              rejections |-> << >>, txHash |-> NoTx,
              expiresAt |-> IF life = Never THEN Never ELSE now + life]]
  BY DEF CreateProposal
<1>. DEFINE row == [status |-> "pending", wallet |-> w, approvals |-> << >>,
                    rejections |-> << >>, txHash |-> NoTx,
                    expiresAt |-> IF life = Never THEN Never ELSE now + life]
<1>1. /\ proposal' = [proposal EXCEPT ![p] = row]
      /\ row.approvals = << >> /\ row.wallet = w
  BY <1>0
<1>. HIDE DEF row
<1>2. /\ proposal[p] = NoProposal /\ wallet[w] \in WalletRow
      /\ UNCHANGED <<wallet, call, endorsed>>
  BY DEF CreateProposal, Inv, TypeOK
<1>3. proposal'[p] = row /\ \A q \in Proposals : q # p => proposal'[q] = proposal[q]
  BY <1>1, RowWritten DEF Inv
<1>4. SoloRow(c, p)'
  <2>1. endorsed'[p] = {}
    BY <1>2 DEF Inv, RowInv
  <2>2. Range(<< >>) = {} /\ Len(<< >>) = 0
    BY DEF Range
  <2>3. WalletOf(p)'.threshold \in Nat \ {0}
    BY <1>1, <1>2, <1>3 DEF WalletOf, WalletRow
  <2>4. Len(proposal'[p].approvals) < WalletOf(p)'.threshold
    BY <1>1, <1>3, <2>2, <2>3
  <2>5. endorsed'[p] = Range(proposal'[p].approvals)
    BY <1>1, <1>3, <2>1, <2>2
  <2>. QED  BY <2>4, <2>5 DEF SoloRow
<1>5. ASSUME NEW q \in Proposals, q # p PROVE SoloRow(c, q)'
  <2>1. CASE proposal[q] # NoProposal
    <3>1. proposal'[q] = proposal[q] /\ WalletOf(q)' = WalletOf(q)
      BY <1>2, <1>3, <1>5, <2>1, WalletStays
    <3>2. SoloRow(c, q)
      BY DEF Solo
    <3>. QED  BY <1>2, <2>1, <3>1, <3>2, SoloRowKept
  <2>2. CASE proposal[q] = NoProposal
    BY <1>3, <1>5, <2>2 DEF SoloRow
  <2>. QED  BY <2>1, <2>2
<1>6. call[c].at \in {"approveRead", "approveWrite"} =>
          proposal'[call[c].prop].approvals = proposal[call[c].prop].approvals
  <2>1. call[c].at \in {"approveRead", "approveWrite"} =>
            call[c].prop \in Proposals /\ proposal[call[c].prop] # NoProposal
    BY CallShape DEF Inv, CallInv, Idle
  <2>. QED  BY <1>2, <1>3, <2>1
<1>. QED  BY <1>2, <1>4, <1>5, <1>6 DEF Solo


LEMMA SoloStep ==
    ASSUME NEW c, Calls = {c}, ~MayFail, Inv, Solo(c), [Next]_vars
    PROVE  Solo(c)'
<1>0. c \in Calls /\ call \in [Calls -> CallState \cup {Idle}]
  BY DEF Inv, TypeOK
<1>1. CASE UNCHANGED <<proposal, endorsed, call>> /\ (UNCHANGED wallet \/ \E w \in Wallets : CreateWallet(w))
  <2>1. call'[c].at \in {"approveRead", "approveWrite"} =>
            call'[c].seen = proposal[call'[c].prop].approvals
    BY <1>1 DEF Solo
  <2>. QED  BY <1>0, <1>1, <2>1, SoloRead
<1>2. CASE \E w \in Wallets : CreateWallet(w)
  BY <1>1, <1>2 DEF CreateWallet
<1>3. CASE Tick \/ UNCHANGED vars
  BY <1>1, <1>3 DEF Tick, vars
<1>4. CASE \E p \in Proposals, w \in Wallets, u \in Users : CreateProposal(p, w, u)
  BY <1>0, <1>4, SoloCreateProposal
<1>5. CASE ExpireProposals
  <2>1. UNCHANGED <<wallet, call, endorsed>>
    BY <1>5 DEF ExpireProposals
  <2>2. ASSUME NEW p \in Proposals
        PROVE  \/ proposal'[p] = proposal[p]
               \/ /\ proposal[p] # NoProposal /\ proposal'[p].status # "pending"
                  /\ proposal'[p].approvals = proposal[p].approvals
                  /\ proposal'[p].wallet = proposal[p].wallet
    <3>1. \/ proposal'[p] = proposal[p]
          \/ proposal[p].status = "pending" /\ proposal'[p] = [proposal[p] EXCEPT !.status = "expired"]
      BY <1>5 DEF ExpireProposals
    <3>2. proposal[p].status = "pending" => proposal[p] # NoProposal /\ proposal[p] \in ProposalRow
      BY RowShape DEF Inv
    <3>. QED  BY <3>1, <3>2 DEF ProposalRow
  <2>. QED  BY <1>0, <2>1, <2>2, SoloMarked
<1>6. ASSUME NEW p \in Proposals, NEW u \in Users, ApproveRead(c, p, u) \/ RejectRead(c, p, u)
      PROVE  Solo(c)'
  <2>1. /\ UNCHANGED <<wallet, proposal, endorsed>> /\ At(c, "idle")
        /\ \/ call'[c] = [at |-> "approveRead", prop |-> p, user |-> u,
                          seen |-> proposal[p].approvals]
           \/ call'[c] = [at |-> "rejectWrite", prop |-> p, user |-> u,
                          seen |-> proposal[p].rejections]
    BY <1>0, <1>6 DEF ApproveRead, RejectRead
  <2>2. call'[c].at \in {"approveRead", "approveWrite"} =>
            call'[c].seen = proposal[call'[c].prop].approvals
    BY <2>1
  <2>. QED  BY <1>0, <2>1, <2>2, SoloRead DEF At
<1>7. CASE ApproveCheck(c)
  <2>1. /\ UNCHANGED <<wallet, proposal, endorsed>> /\ call[c].at = "approveRead"
        /\ \/ call' = [call EXCEPT ![c].at = "expireWrite"]
           \/ call' = [call EXCEPT ![c].at = "approveWrite"]
           \/ call' = [call EXCEPT ![c] = Idle]
    BY <1>7 DEF ApproveCheck, Proceed, Return, At
  <2>2. call[c] \in VoteCall /\ call[c].seen = proposal[call[c].prop].approvals
    BY <1>0, <2>1, CallShape DEF Inv, Solo, Voting
  <2>3. \/ call'[c].at = "expireWrite" \/ call'[c].at = "idle"
        \/ call'[c].seen = call[c].seen /\ call'[c].prop = call[c].prop
    BY <1>0, <2>1, <2>2 DEF VoteCall, Idle
  <2>. QED  BY <1>0, <2>1, <2>2, <2>3, SoloRead DEF At
<1>8. CASE ApproveExpire(c) \/ ApproveMark(c) \/ RejectMark(c) \/ ExecuteWrite(c)
  <2>. DEFINE p == call[c].prop
  <2>1. call[c] # Idle /\ p \in Proposals
    BY <1>0, <1>8, CallShape
       DEF ApproveExpire, ApproveMark, RejectMark, ExecuteWrite, At, Inv, Idle
  <2>2. proposal[p] # NoProposal /\ proposal[p] \in ProposalRow
    BY <1>0, <2>1, RowShape DEF Inv, CallInv
  <2>3. PICK r : /\ proposal' = [proposal EXCEPT ![p] = r]
                 /\ r.status # "pending" /\ r.approvals = proposal[p].approvals
                 /\ r.wallet = proposal[p].wallet
    <3>1. CASE ApproveExpire(c) \/ ApproveMark(c) \/ RejectMark(c)
      <4>1. PICK s \in {"expired", "approved", "rejected"} :
                proposal' = [proposal EXCEPT ![p] = [proposal[p] EXCEPT !.status = s]]
        BY <3>1 DEF ApproveExpire, ApproveMark, RejectMark, updateProposalStatus
      <4>. DEFINE r == [proposal[p] EXCEPT !.status = s]
      <4>2. r.status # "pending" /\ r.approvals = proposal[p].approvals
            /\ r.wallet = proposal[p].wallet
        BY <2>2 DEF ProposalRow
      <4>. QED  BY <4>1, <4>2
    <3>2. CASE ExecuteWrite(c)
      <4>1. PICK h \in TxHashes :
                proposal' = [proposal EXCEPT ![p] = [proposal[p] EXCEPT !.status = "executed", !.txHash = h]]
        BY <3>2 DEF ExecuteWrite
      <4>. DEFINE r == [proposal[p] EXCEPT !.status = "executed", !.txHash = h]
      <4>2. r.status # "pending" /\ r.approvals = proposal[p].approvals
            /\ r.wallet = proposal[p].wallet
        BY <2>2 DEF ProposalRow
      <4>. QED  BY <4>1, <4>2
    <3>. QED  BY <1>8, <3>1, <3>2
  <2>4. /\ UNCHANGED <<wallet, endorsed>> /\ call'[c] = Idle
    BY <1>0, <1>8 DEF ApproveExpire, ApproveMark, RejectMark, ExecuteWrite, Return
  <2>5. proposal'[p] = r /\ \A q \in Proposals : q # p => proposal'[q] = proposal[q]
    BY <2>1, <2>3, RowWritten DEF Inv
  <2>6. \A q \in Proposals :
              \/ proposal'[q] = proposal[q]
              \/ /\ proposal[q] # NoProposal /\ proposal'[q].status # "pending"
                 /\ proposal'[q].approvals = proposal[q].approvals
                 /\ proposal'[q].wallet = proposal[q].wallet
    BY <2>2, <2>3, <2>5
  <2>7. proposal'[call[c].prop].status # "pending"
    BY <2>3, <2>5
  <2>. QED  BY <1>0, <2>4, <2>6, <2>7, SoloMarked
<1>9. CASE \E p \in Proposals : ExecuteRead(c, p)
  <2>1. /\ UNCHANGED <<wallet, proposal, endorsed>> /\ At(c, "idle") /\ call'[c].at = "executeWrite"
    BY <1>0, <1>9 DEF ExecuteRead
  <2>. QED  BY <1>0, <2>1, SoloRead DEF At
<1>10. CASE ApproveWrite(c)
  <2>1. call[c].prop \in Proposals
    BY <1>0, <1>10, CallShape DEF ApproveWrite, At, Inv, Idle
  <2>. QED  BY <1>0, <1>10, <2>1, SoloApproveWrite
<1>11. CASE RejectWrite(c)
  BY <1>0, <1>11, SoloRejectWrite
<1>12. ASSUME NEW d \in Calls, Vote(d) \/ Execute(d) \/ Abort(d) PROVE Solo(c)'
  <2>1. d = c /\ ~Abort(d)
    BY DEF Abort
  <2>. QED
    BY <1>6, <1>7, <1>8, <1>9, <1>10, <1>11, <1>12, <2>1 DEF Vote, Execute
<1>. QED
  BY <1>2, <1>3, <1>4, <1>5, <1>12 DEF Next

\* A list has no more members than entries.
LEMMA RangeCounted ==
    ASSUME NEW S, NEW s \in Seq(S)
    PROVE  Cardinality(Range(s)) <= Len(s) /\ Cardinality(Range(s)) \in Nat
<1>1. Len(s) \in Nat /\ 1 \in Int /\ Len(s) \in Int
  OBVIOUS
<1>2. IsFiniteSet(1..Len(s)) /\ Cardinality(1..Len(s)) = IF 1 > Len(s) THEN 0 ELSE Len(s) - 1 + 1
  BY ONLY <1>1, FS_Interval, Zenon
<1>3. s \in Surjection(1..Len(s), Range(s))
  BY DEF Surjection, Range
<1>4. Cardinality(Range(s)) <= Cardinality(1..Len(s)) /\ IsFiniteSet(Range(s))
  BY <1>2, <1>3, FS_Surjection
<1>5. Cardinality(Range(s)) \in Nat
  BY <1>4, FS_CardinalityType
<1>. QED  BY <1>1, <1>2, <1>4, <1>5

LEMMA SoloDecides ==
    ASSUME NEW c \in Calls, Inv, Solo(c)
    PROVE  QuorumDecides
<1>. SUFFICES ASSUME NEW p \in Proposals, proposal[p].status = "pending", InFlight(p) = {}
              PROVE  Cardinality(endorsed[p]) < WalletOf(p).threshold
  BY DEF QuorumDecides
<1>1. proposal[p] # NoProposal /\ proposal[p] \in ProposalRow
  BY RowShape DEF Inv
<1>2. WalletOf(p).threshold \in Nat
  BY <1>1, WalletShape DEF WalletRow
<1>3. ~(call[c].at = "approveMark" /\ call[c].prop = p)
  BY DEF InFlight, Idle
<1>. DEFINE s == proposal[p].approvals
<1>4. s \in Seq(Users) /\ Len(s) \in Nat
  BY <1>1 DEF ProposalRow
<1>5. Len(s) < WalletOf(p).threshold /\ endorsed[p] = Range(s)
  BY <1>1, <1>3 DEF Solo, SoloRow
<1>6. Cardinality(Range(s)) <= Len(s) /\ Cardinality(Range(s)) \in Nat
  BY <1>4, RangeCounted
<1>. HIDE DEF s
<1>. QED  BY <1>2, <1>4, <1>5, <1>6

(* Where one handler runs at a time and no statement fails, a proposal that *)
(* Threshold signers approved is decided when the handler is back, for any  *)
(* signer lists and deadlines (Approve's last step).                        *)
THEOREM QuorumDecidesOneByOne ==
    ASSUME NEW c, Calls = {c}, ~MayFail
    PROVE  Spec => []QuorumDecidesAlone
<1>1. Init => Solo(c)
  BY DEF Init, Solo, SoloRow, Idle
<1>2. Inv /\ Solo(c) /\ [Next]_vars => Solo(c)'
  BY SoloStep
<1>3. Inv /\ Solo(c) => QuorumDecidesAlone
  BY SoloDecides DEF QuorumDecidesAlone
<1>. QED  BY <1>1, <1>2, <1>3, Invariance, PTL DEF Spec


\* Where proposals have no deadline, nothing decides over a lone handler's head:
\* its proposal stays as it found it.
SoloForward(c) ==
    /\ \A p \in Proposals : proposal[p] # NoProposal => proposal[p].expiresAt = Never
    /\ call[c].at \in Voting => proposal[call[c].prop].status = "pending"
    /\ call[c].at = "executeWrite" => proposal[call[c].prop].status = "approved"

\* What a status may become, and when a hash is written.
Advances(p) ==
    /\ LET s == proposal[p].status  t == proposal'[p].status IN
       s # t => \/ s = "none"
                \/ s = "pending" /\ t # "executed"
                \/ s = "approved" /\ t = "executed"
    /\ proposal[p] # NoProposal /\ proposal'[p].txHash # proposal[p].txHash
            => proposal[p].status = "approved"

\* An UPDATE of row p by id, whose handler is done.
LEMMA ForwardWrite ==
    ASSUME Inv, NEW c \in Calls, SoloForward(c), NEW p \in Proposals, proposal[p] # NoProposal,
           NEW r, proposal' = [proposal EXCEPT ![p] = r],
           r.expiresAt = proposal[p].expiresAt,
           \/ r.txHash = proposal[p].txHash
              /\ (r.status = proposal[p].status
                     \/ (proposal[p].status = "pending" /\ r.status # "executed"))
           \/ proposal[p].status = "approved" /\ r.status = "executed",
           \/ call'[c] = Idle
           \/ /\ r.status = "pending" /\ call'[c].prop = p
              /\ call'[c].at # "executeWrite"
    PROVE  SoloForward(c)' /\ \A q \in Proposals : Advances(q)
<1>1. proposal'[p] = r /\ \A q \in Proposals : q # p => proposal'[q] = proposal[q]
  BY RowWritten DEF Inv
<1>2. \A q \in Proposals : Advances(q)
  BY <1>1 DEF Advances
<1>3. \A q \in Proposals : proposal'[q] # NoProposal => proposal'[q].expiresAt = Never
  BY <1>1 DEF SoloForward
<1>4. /\ call'[c].at \in Voting => proposal'[call'[c].prop].status = "pending"
      /\ call'[c].at = "executeWrite" => proposal'[call'[c].prop].status = "approved"
  BY <1>1 DEF Idle, Voting
<1>. QED  BY <1>2, <1>3, <1>4 DEF SoloForward

LEMMA ForwardStepOne ==
    ASSUME NEW c, Calls = {c}, ~MayFail, Lifetimes = {Never}, Inv, SoloForward(c), [Next]_vars
    PROVE  SoloForward(c)' /\ \A q \in Proposals : Advances(q)
<1>0. c \in Calls /\ call \in [Calls -> CallState \cup {Idle}]
  BY DEF Inv, TypeOK
<1>1. CASE UNCHANGED <<proposal, call>>
  BY <1>1 DEF SoloForward, Advances
<1>2. CASE Tick \/ UNCHANGED vars \/ \E w \in Wallets : CreateWallet(w)
  BY <1>1, <1>2 DEF Tick, vars, CreateWallet
<1>3. ASSUME NEW p \in Proposals, NEW w \in Wallets, NEW u \in Users, CreateProposal(p, w, u)
      PROVE  SoloForward(c)' /\ \A q \in Proposals : Advances(q)
  <2>. DEFINE r == [status |-> "pending", wallet |-> w, approvals |-> << >>,
                    rejections |-> << >>, txHash |-> NoTx, expiresAt |-> Never]
  <2>1. /\ proposal[p] = NoProposal /\ UNCHANGED call
        /\ proposal' = [proposal EXCEPT ![p] = r]
    BY <1>3 DEF CreateProposal
  <2>2. r.expiresAt = Never
    OBVIOUS
  <2>. HIDE DEF r
  <2>3. proposal'[p] = r /\ \A q \in Proposals : q # p => proposal'[q] = proposal[q]
    BY <2>1, RowWritten DEF Inv
  <2>4. \A q \in Proposals : Advances(q)
    BY <2>1, <2>3 DEF Advances, NoProposal
  <2>5. call[c] # Idle => call[c].prop # p
    BY <1>0, <2>1 DEF Inv, CallInv
  <2>6. call[c] # Idle => call[c].prop \in Proposals
    BY <1>0, CallShape DEF Inv
  <2>7. /\ call[c].at \in Voting => proposal'[call[c].prop].status = "pending"
        /\ call[c].at = "executeWrite" => proposal'[call[c].prop].status = "approved"
    BY <2>3, <2>5, <2>6 DEF SoloForward, Idle, Voting
  <2>8. \A q \in Proposals : proposal'[q] # NoProposal => proposal'[q].expiresAt = Never
    BY <2>2, <2>3 DEF SoloForward
  <2>. QED  BY <2>1, <2>4, <2>7, <2>8 DEF SoloForward
<1>4. CASE ExpireProposals
  BY <1>4 DEF ExpireProposals, PastExpiry, SoloForward, NoProposal
<1>5. ASSUME NEW p \in Proposals, NEW u \in Users, ApproveRead(c, p, u) \/ RejectRead(c, p, u)
      PROVE  SoloForward(c)' /\ \A q \in Proposals : Advances(q)
  <2>1. /\ UNCHANGED proposal /\ call'[c].prop = p
        /\ proposal[p].status = "pending" /\ call'[c].at # "executeWrite"
    BY <1>0, <1>5 DEF ApproveRead, RejectRead
  <2>. QED  BY <2>1 DEF SoloForward, Advances, Voting
<1>6. CASE ApproveCheck(c)
  <2>1. /\ UNCHANGED proposal /\ call[c].at = "approveRead"
        /\ \/ call' = [call EXCEPT ![c].at = "expireWrite"]
           \/ call' = [call EXCEPT ![c].at = "approveWrite"]
           \/ call' = [call EXCEPT ![c] = Idle]
    BY <1>6 DEF ApproveCheck, Proceed, Return, At
  <2>2. call[c] \in VoteCall
    BY <1>0, <2>1, CallShape DEF Inv, Voting
  <2>3. \/ call'[c] = Idle
        \/ call'[c].at # "executeWrite" /\ call'[c].prop = call[c].prop
    BY <1>0, <2>1, <2>2 DEF VoteCall
  <2>. QED  BY <2>1, <2>3 DEF SoloForward, Advances, Voting, Idle
<1>7. ASSUME NEW p \in Proposals, call[c].prop = p,
             ApproveExpire(c) \/ ApproveMark(c) \/ RejectMark(c) \/ ExecuteWrite(c)
                \/ ApproveWrite(c) \/ RejectWrite(c)
      PROVE  SoloForward(c)' /\ \A q \in Proposals : Advances(q)
  <2>1. call[c] # Idle
    BY <1>7 DEF ApproveExpire, ApproveMark, RejectMark, ExecuteWrite, ApproveWrite,
                RejectWrite, At, Idle
  <2>2. proposal[p] # NoProposal /\ proposal[p] \in ProposalRow
    BY <1>0, <1>7, <2>1, RowShape DEF Inv, CallInv
  <2>3. CASE ApproveExpire(c) \/ ApproveMark(c) \/ RejectMark(c)
    <3>1. PICK s \in {"expired", "approved", "rejected"} :
              proposal' = [proposal EXCEPT ![p] = [proposal[p] EXCEPT !.status = s]]
      BY <1>7, <2>3 DEF ApproveExpire, ApproveMark, RejectMark, updateProposalStatus
    <3>. DEFINE r == [proposal[p] EXCEPT !.status = s]
    <3>2. r.status = s /\ r.expiresAt = proposal[p].expiresAt /\ r.txHash = proposal[p].txHash
      BY <2>2 DEF ProposalRow
    <3>3. call'[c] = Idle /\ proposal[p].status = "pending"
      BY <1>0, <1>7, <2>3 DEF ApproveExpire, ApproveMark, RejectMark, Return, At, SoloForward, Voting
    <3>4. proposal' = [proposal EXCEPT ![p] = r]
      BY <3>1
    <3>. HIDE DEF r
    <3>. QED  BY <1>0, <2>2, <3>2, <3>3, <3>4, ForwardWrite
  <2>4. CASE ExecuteWrite(c)
    <3>1. PICK h \in TxHashes :
              proposal' = [proposal EXCEPT ![p] = [proposal[p] EXCEPT !.status = "executed", !.txHash = h]]
      BY <1>7, <2>4 DEF ExecuteWrite
    <3>. DEFINE r == [proposal[p] EXCEPT !.status = "executed", !.txHash = h]
    <3>2. r.status = "executed" /\ r.expiresAt = proposal[p].expiresAt
      BY <2>2 DEF ProposalRow
    <3>3. call'[c] = Idle /\ proposal[p].status = "approved"
      BY <1>0, <1>7, <2>4 DEF ExecuteWrite, Return, At, SoloForward
    <3>4. proposal' = [proposal EXCEPT ![p] = r]
      BY <3>1
    <3>. HIDE DEF r
    <3>. QED  BY <1>0, <2>2, <3>2, <3>3, <3>4, ForwardWrite
  <2>5. CASE ApproveWrite(c) \/ RejectWrite(c)
    <3>. DEFINE votes == Append(call[c].seen, call[c].user)
    <3>1. PICK r : /\ proposal' = [proposal EXCEPT ![p] = r]
                   /\ \/ r = [proposal[p] EXCEPT !.approvals = votes]
                      \/ r = [proposal[p] EXCEPT !.rejections = votes]
      <4>1. CASE ApproveWrite(c)
        BY <1>7, <4>1 DEF ApproveWrite
      <4>2. CASE RejectWrite(c)
        BY <1>7, <4>2 DEF RejectWrite
      <4>. QED  BY <2>5, <4>1, <4>2
    <3>. HIDE DEF votes
    <3>2. /\ r.status = proposal[p].status /\ r.expiresAt = proposal[p].expiresAt
          /\ r.txHash = proposal[p].txHash
      BY <2>2, <3>1 DEF ProposalRow
    <3>3. /\ proposal[p].status = "pending" /\ call[c] \in VoteCall
          /\ \/ call' = [call EXCEPT ![c].at = "approveMark"]
             \/ call' = [call EXCEPT ![c].at = "rejectMark"]
             \/ call' = [call EXCEPT ![c] = Idle]
      BY <1>0, <1>7, <2>5, CallShape
         DEF ApproveWrite, RejectWrite, Proceed, Return, At, SoloForward, Voting, Inv
    <3>4. \/ call'[c] = Idle
          \/ call'[c].prop = p /\ call'[c].at # "executeWrite"
      BY <1>0, <1>7, <3>3 DEF VoteCall
    <3>. QED  BY <1>0, <2>2, <3>1, <3>2, <3>3, <3>4, ForwardWrite
  <2>. QED  BY <1>7, <2>3, <2>4, <2>5
<1>8. ASSUME NEW d \in Calls, Vote(d) \/ Execute(d) \/ Abort(d)
      PROVE  SoloForward(c)' /\ \A q \in Proposals : Advances(q)
  <2>1. d = c /\ ~Abort(d)
    BY DEF Abort
  <2>2. CASE \/ ApproveExpire(c) \/ ApproveMark(c) \/ RejectMark(c) \/ ExecuteWrite(c)
             \/ ApproveWrite(c) \/ RejectWrite(c)
    <3>1. call[c].prop \in Proposals
      BY <1>0, <2>2, CallShape
         DEF ApproveExpire, ApproveMark, RejectMark, ExecuteWrite, ApproveWrite, RejectWrite,
             At, Inv, Idle
    <3>. QED  BY <1>7, <2>2, <3>1
  <2>3. CASE \E p \in Proposals : ExecuteRead(c, p)
    <3>1. PICK p \in Proposals : ExecuteRead(c, p)
      BY <2>3
    <3>2. /\ UNCHANGED proposal /\ call'[c].prop = p
          /\ proposal[p].status = "approved" /\ call'[c].at = "executeWrite"
      BY <1>0, <3>1 DEF ExecuteRead
    <3>. QED  BY <3>2 DEF SoloForward, Advances, Voting
  <2>. QED
    BY <1>5, <1>6, <1>8, <2>1, <2>2, <2>3 DEF Vote, Execute
<1>. QED
  BY <1>2, <1>3, <1>4, <1>8 DEF Next

(* Where one handler runs at a time, no statement fails and proposals have  *)
(* no deadline, as the HTTP handler makes them, a status only moves forward *)
(* and what Execute executes is an approved proposal at that moment.        *)
THEOREM StatusForwardOneByOne ==
    ASSUME NEW c, Calls = {c}, ~MayFail, Lifetimes = {Never}
    PROVE  Spec => StatusForwardAlone
<1>1. Init => SoloForward(c)
  BY DEF Init, SoloForward, Idle, Voting
<1>2. Inv /\ SoloForward(c) /\ [Next]_vars => SoloForward(c)'
  BY ForwardStepOne
<1>3. Inv /\ SoloForward(c) /\ [Next]_vars => [alone => ForwardStep /\ ApprovedWhenExecuted]_vars
  <2>1. ASSUME Inv, SoloForward(c), [Next]_vars PROVE ForwardStep /\ ApprovedWhenExecuted
    <3>1. \A q \in Proposals : Advances(q)
      BY <2>1, ForwardStepOne
    <3>. QED  BY <3>1 DEF Advances, ForwardStep, ApprovedWhenExecuted
  <2>. QED  BY <2>1
<1>. QED  BY <1>1, <1>2, <1>3, Invariance, PTL DEF Spec, StatusForwardAlone
=============================================================================
