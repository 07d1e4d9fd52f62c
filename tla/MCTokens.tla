------------------------------ MODULE MCTokens ------------------------------
(* The tokens and the market share no row, so one run checks both: part      *)
(* tells which of them runs, and alone whether its handlers run one at a     *)
(* time, without failures and without transfers to oneself.                  *)
EXTENDS Jetton, Nft

CONSTANTS u1, u2, c1, MoreOps, MoreDeals

MCRequests == {
    [supply |-> 1, max |-> 2, freezable |-> TRUE, enabled |-> {"minting", "burning"}],
    [supply |-> 0, max |-> NoMax, freezable |-> FALSE, enabled |-> {"minting"}]}

MCChanges == {[on |-> {"transfers"}, off |-> {}], [on |-> {}, off |-> {"transfers"}]}

VARIABLES part, alone

AloneJetton == INSTANCE Jetton WITH
    JCalls <- {c1}, JettonMayFail <- FALSE, SelfTransfers <- FALSE, MaxOps <- MoreOps

AloneNft == INSTANCE Nft WITH
    NCalls <- {c1}, NftMayFail <- FALSE, MaxDeals <- MoreDeals

Ledger == INSTANCE TokenLedger WITH holding <- holdingBar, supply <- supplyBar

TokensInit ==
    /\ JettonInit
    /\ NftInit
    /\ part \in {"jetton", "nft"}
    /\ alone \in BOOLEAN

JettonStep ==
    /\ part = "jetton"
    /\ IF alone THEN AloneJetton!JettonNext ELSE JettonNext
    /\ UNCHANGED nftVars

NftStep ==
    /\ part = "nft"
    /\ IF alone THEN AloneNft!NftNext ELSE NftNext
    /\ UNCHANGED jettonVars

TokensNext == (JettonStep \/ NftStep) /\ UNCHANGED <<part, alone>>

TokensSpec == TokensInit /\ [][TokensNext]_<<jettonVars, nftVars, part, alone>>

(* The type invariants of both modules.                                      *)
TokensTypeOK == JettonTypeOK /\ NftTypeOK

(* One at a time, Jetton implements TokenLedger: a Transfer moves its amount *)
(* whole, a Mint and a Burn change supply and balance together, the supply   *)
(* is what the holders have; and between two operations every balance is     *)
(* what Create and the recorded transfers, mints and burns make it.          *)
LedgerAlone ==
    /\ alone => Ledger!LedgerInit
    /\ [][alone => Ledger!LedgerNext]_<<holdingBar, supplyBar>>
    /\ [](alone => Ledger!Conserved)
    /\ [](alone /\ (\A c \in JCalls : jcall[c] = JIdle) =>
             \A j \in Jettons, u \in Users : purse[j][u].balance = books[j][u])

(* One at a time, an item is on sale once, and the buyer of the last sale    *)
(* recorded has the item until it is transferred.                            *)
MarketAlone == alone => OneListing /\ SalesTellOwner

(* One at a time, a listing that was sold or cancelled stays so, and a sold  *)
(* one keeps its buyer.                                                      *)
ListingSettledAlone == [][alone => ListingSettled]_nftVars
=============================================================================
