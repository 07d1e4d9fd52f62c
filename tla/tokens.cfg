SPECIFICATION TokensSpec
CONSTANTS
    u1 = u1
    u2 = u2
    c1 = c1
    Users = {u1, u2}
    Traders = {u1, u2}
    Jettons = {j1}
    JCalls = {c1, c2}
    Requests <- MCRequests
    Changes <- MCChanges
    NoMax = NoMax
    MaxAmount = 2
    MaxOps = 3
    MoreOps = 4
    SelfTransfers = TRUE
    JettonMayFail = TRUE
    Listings = {l1, l2}
    Offers = {o1}
    NCalls = {c1, c2}
    Nobody = Nobody
    MaxItems = 2
    MaxDeals = 3
    MoreDeals = 5
    NftMayFail = TRUE
INVARIANTS TokensTypeOK SupplyWithinMax ItemsWithinMax MarketAlone
PROPERTIES LedgerAlone ListingSettledAlone
CHECK_DEADLOCK FALSE
