---------------------------- MODULE TokenLedger ----------------------------
(***************************************************************************)
(* What a token promises its holders, in one atomic step per operation:    *)
(* tokens come from a mint, go by a burn, and a transfer only moves them.  *)
(* Jetton implements this when its handlers run one at a time.             *)
(***************************************************************************)
EXTENDS Integers, Functions, FiniteSetsExt

CONSTANTS
    Users,     \* holders
    Jettons,   \* tokens
    MaxAmount  \* the largest amount one operation moves

VARIABLES
    holding,   \* holding[j][u]: what u holds of j
    supply     \* supply[j]: what there is of j

ledgerVars == <<holding, supply>>

LedgerInit ==
    /\ holding = [j \in Jettons |-> [u \in Users |-> 0]]
    /\ supply = [j \in Jettons |-> 0]

Issue(j, u, n) ==
    /\ holding' = [holding EXCEPT ![j][u] = @ + n]
    /\ supply' = [supply EXCEPT ![j] = @ + n]

Redeem(j, u, n) ==
    /\ holding[j][u] >= n
    /\ holding' = [holding EXCEPT ![j][u] = @ - n]
    /\ supply' = [supply EXCEPT ![j] = @ - n]

Move(j, u, v, n) ==
    LET taken == [holding[j] EXCEPT ![u] = @ - n] IN
    /\ holding[j][u] >= n
    /\ holding' = [holding EXCEPT ![j] = [taken EXCEPT ![v] = @ + n]]
    /\ UNCHANGED supply

LedgerNext ==
    \E j \in Jettons, u, v \in Users, n \in 1..MaxAmount :
        Issue(j, u, n) \/ Redeem(j, u, n) \/ Move(j, u, v, n)

LedgerSpec == LedgerInit /\ [][LedgerNext]_ledgerVars

(* What there is of a token is what its holders have together.             *)
Conserved == \A j \in Jettons : supply[j] = SumFunction(holding[j])
=============================================================================
