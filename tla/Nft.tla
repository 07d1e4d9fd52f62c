-------------------------------- MODULE Nft --------------------------------
(***************************************************************************)
(* A collection of items and the market of internal/nft/nft.go, with the   *)
(* manager the daemon makes: no chain provider, item addresses built from  *)
(* collection and index and UNIQUE in the schema.  One collection; two     *)
(* collections share no row.                                               *)
(*                                                                         *)
(* ncall[c].todo is what is left of the statements of handler c.  Columns  *)
(* the program leaves NULL make GetCollection fail for every collection it *)
(* created (address) and GetListing for every active listing (tx_hash);    *)
(* the two Fill actions stand for whoever fills them.                      *)
(***************************************************************************)
EXTENDS Integers, Sequences, FiniteSets, Functions

CONSTANTS
    Traders,    \* user ids
    Listings,   \* ids of nft_listings rows
    Offers,     \* ids of nft_offers rows
    NCalls,     \* handlers that may be running at the same time
    Nobody,     \* no such row; no buyer
    MaxItems,   \* bound on the collection's max_supply
    MaxDeals,   \* bound on the number of handlers ever started
    NftMayFail  \* whether a statement may fail or the process crash

ASSUME NftConstantsOK ==
    /\ Nobody \notin Traders
    /\ MaxItems \in Nat
    /\ MaxDeals \in Nat
    /\ NftMayFail \in BOOLEAN

Items == 1..(MaxItems + 1)

VARIABLES
    collection,  \* the row of nft_collections
    item,        \* item[i]: owner_id of the item with index i
    listing,     \* rows of nft_listings
    offer,       \* rows of nft_offers
    lapsed,      \* listings whose expires_at has passed
    deeds,       \* deeds[i]: for each nft_transfers row of i, in order, the buyer
                 \* it names, or Nobody: an address somebody wrote, and no price
    minter,      \* minter[i]: whom i was minted to; read by no action
    ncall,       \* the handlers in flight
    deals        \* handlers started so far

nftVars == <<collection, item, listing, offer, lapsed, deeds, minter, ncall, deals>>

NoCollection == [owner |-> Nobody]
NoListing == [status |-> "none"]
NoOffer == [status |-> "none"]
NIdle == [todo |-> <<>>]

ListingStatus == {"active", "sold", "cancelled"}

CollectionRow == [owner : Traders, max : 1..MaxItems, supply : Nat, filled : BOOLEAN]

ListingRow ==
    [item : Items, seller : Traders, status : ListingStatus,
     buyer : Traders \cup {Nobody}, filled : BOOLEAN]

OfferRow ==
    [item : Items, buyer : Traders, status : {"pending", "accepted", "cancelled"}]

\* The statements each handler issues after its first read.
NScript == [
    mint   |-> <<"insert", "count">>,
    give   |-> <<"own", "deed">>,
    list   |-> <<"look", "post">>,
    buy    |-> <<"sell", "own", "deed">>,
    cancel |-> <<"cancel">>,
    accept |-> <<"title", "own", "accept", "clearOffers", "clearListings", "deed">>]

NCallState ==
    [op : DOMAIN NScript, item : Items, user : Traders, to : Traders,
     row : Listings \cup Offers \cup {Nobody},
     todo : Seq({"insert", "count", "own", "deed", "look", "post", "sell", "cancel",
                 "title", "accept", "clearOffers", "clearListings"})]

(* The one type invariant.                                                 *)
NftTypeOK ==
    /\ collection \in CollectionRow \cup {NoCollection}
    /\ item \in [Items -> Traders \cup {Nobody}]
    /\ listing \in [Listings -> ListingRow \cup {NoListing}]
    /\ offer \in [Offers -> OfferRow \cup {NoOffer}]
    /\ lapsed \subseteq Listings
    /\ deeds \in [Items -> Seq(Traders \cup {Nobody})]
    /\ minter \in [Items -> Traders \cup {Nobody}]
    /\ ncall \in [NCalls -> NCallState \cup {NIdle}]
    /\ deals \in Nat

NftInit ==
    /\ collection = NoCollection
    /\ item = [i \in Items |-> Nobody]
    /\ listing = [l \in Listings |-> NoListing]
    /\ offer = [o \in Offers |-> NoOffer]
    /\ lapsed = {}
    /\ deeds = [i \in Items |-> <<>>]
    /\ minter = [i \in Items |-> Nobody]
    /\ ncall = [c \in NCalls |-> NIdle]
    /\ deals = 0

-----------------------------------------------------------------------------
(* Helpers *)

Minted == {i \in Items : item[i] # Nobody}

Turn(c, stage) == ncall[c].todo # <<>> /\ Head(ncall[c].todo) = stage

NAdvance(c) ==
    LET r == ncall[c] IN
    ncall' = [ncall EXCEPT ![c] = IF Tail(r.todo) = <<>> THEN NIdle
                                  ELSE [r EXCEPT !.todo = Tail(@)]]

NReturn(c) == ncall' = [ncall EXCEPT ![c] = NIdle]

\* A handler starts; its first read has let it pass.
Open(c, op, i, u, v, r) ==
    /\ ncall[c] = NIdle
    /\ deals < MaxDeals
    /\ deals' = deals + 1
    /\ ncall' = [ncall EXCEPT ![c] =
          [op |-> op, item |-> i, user |-> u, to |-> v, row |-> r, todo |-> NScript[op]]]

\* GetListing: the row exists and tx_hash is not NULL.
Shown(l) == listing[l] # NoListing /\ listing[l].filled

-----------------------------------------------------------------------------
(* The collection and its items *)

CreateCollection(u) ==
    /\ collection = NoCollection
    /\ \E m \in 1..MaxItems :
          collection' = [owner |-> u, max |-> m, supply |-> 0, filled |-> FALSE]
    /\ UNCHANGED <<item, listing, offer, lapsed, deeds, minter, ncall, deals>>

\* Somebody outside the program gives the collection an address.  From then
\* on DeployCollection works, and only replaces that address.
FillCollection ==
    /\ collection # NoCollection
    /\ collection' = [collection EXCEPT !.filled = TRUE]
    /\ UNCHANGED <<item, listing, offer, lapsed, deeds, minter, ncall, deals>>

\* Bug: > for >= in the test of the maximum.
MintRead_OneMore(c, u, v) ==
    /\ collection # NoCollection
    /\ collection.filled
    /\ collection.owner = u
    /\ ~(collection.supply > collection.max)
    /\ Open(c, "mint", collection.supply + 1, u, v, Nobody)
    /\ UNCHANGED <<collection, item, listing, offer, lapsed, deeds, minter>>

MintRead(c, u, v) ==
    /\ collection # NoCollection
    /\ collection.filled
    /\ collection.owner = u
    /\ ~(collection.supply >= collection.max)
    /\ Open(c, "mint", collection.supply + 1, u, v, Nobody)
    /\ UNCHANGED <<collection, item, listing, offer, lapsed, deeds, minter>>

\* The UNIQUE address turns a second item of the same index away.
MintInsert(c) ==
    LET r == ncall[c] IN
    /\ Turn(c, "insert")
    /\ IF item[r.item] = Nobody
       THEN /\ item' = [item EXCEPT ![r.item] = r.to]
            /\ minter' = [minter EXCEPT ![r.item] = r.to]
            /\ NAdvance(c)
       ELSE NReturn(c) /\ UNCHANGED <<item, minter>>
    /\ UNCHANGED <<collection, listing, offer, lapsed, deeds, deals>>

MintCount(c) ==
    /\ Turn(c, "count")
    /\ collection' = [collection EXCEPT !.supply = @ + 1]
    /\ NAdvance(c)
    /\ UNCHANGED <<item, listing, offer, lapsed, deeds, minter, deals>>

-----------------------------------------------------------------------------
(* Owners change: Transfer, and the end of a sale *)

\* v is to_user_id; without one (v = u) the item stays with its owner.
GiveRead(c, i, u, v) ==
    /\ item[i] = u
    /\ Open(c, "give", i, u, v, Nobody)
    /\ UNCHANGED <<collection, item, listing, offer, lapsed, deeds, minter>>

SetOwner(c) ==
    LET r == ncall[c] IN
    /\ Turn(c, "own")
    /\ item' = [item EXCEPT ![r.item] = r.to]
    /\ NAdvance(c)
    /\ UNCHANGED <<collection, listing, offer, lapsed, deeds, minter, deals>>

\* A sale is recorded with its price and its buyer, a Transfer without price
\* and with the request's to_address, which nothing ties to to_user_id.
RecordDeed(c) ==
    LET r == ncall[c] IN
    /\ Turn(c, "deed")
    /\ deeds' = [deeds EXCEPT ![r.item] = Append(@, IF r.op = "give" THEN Nobody ELSE r.to)]
    /\ NAdvance(c)
    /\ UNCHANGED <<collection, item, listing, offer, lapsed, minter, deals>>

-----------------------------------------------------------------------------
(* Listings *)

ListRead(c, i, u) ==
    /\ item[i] = u
    /\ Open(c, "list", i, u, u, Nobody)
    /\ UNCHANGED <<collection, item, listing, offer, lapsed, deeds, minter>>

\* Bug: only the user's own active listings are looked for.
ListLook_OwnOnly(c) ==
    LET r == ncall[c] IN
    /\ Turn(c, "look")
    /\ IF \E l \in Listings : /\ listing[l].status = "active"
                              /\ listing[l].item = r.item
                              /\ listing[l].seller = r.user
       THEN NReturn(c)
       ELSE NAdvance(c)
    /\ UNCHANGED <<collection, item, listing, offer, lapsed, deeds, minter, deals>>

ListLook(c) ==
    LET r == ncall[c] IN
    /\ Turn(c, "look")
    /\ IF \E l \in Listings : listing[l].status = "active" /\ listing[l].item = r.item
       THEN NReturn(c)
       ELSE NAdvance(c)
    /\ UNCHANGED <<collection, item, listing, offer, lapsed, deeds, minter, deals>>

ListPost(c, l) ==
    LET r == ncall[c] IN
    /\ Turn(c, "post")
    /\ listing[l] = NoListing
    /\ listing' = [listing EXCEPT ![l] =
          [item |-> r.item, seller |-> r.user, status |-> "active",
           buyer |-> Nobody, filled |-> FALSE]]
    /\ NAdvance(c)
    /\ UNCHANGED <<collection, item, offer, lapsed, deeds, minter, deals>>

\* Somebody outside the program gives the listing a tx_hash.
FillListing(l) ==
    /\ listing[l] # NoListing
    /\ listing' = [listing EXCEPT ![l].filled = TRUE]
    /\ UNCHANGED <<collection, item, offer, lapsed, deeds, minter, ncall, deals>>

\* The clock passes the listing's expires_at.
Lapse(l) ==
    /\ listing[l] # NoListing
    /\ lapsed' = lapsed \cup {l}
    /\ UNCHANGED <<collection, item, listing, offer, deeds, minter, ncall, deals>>

\* Bug: the status of the listing is not tested.
BuyRead_AnyStatus(c, l, u) ==
    /\ Shown(l)
    /\ l \notin lapsed
    /\ listing[l].seller # u
    /\ Open(c, "buy", listing[l].item, listing[l].seller, u, l)
    /\ UNCHANGED <<collection, item, listing, offer, lapsed, deeds, minter>>

\* Whether the seller still owns the item is not asked.
BuyRead(c, l, u) ==
    /\ Shown(l)
    /\ listing[l].status = "active"
    /\ l \notin lapsed
    /\ listing[l].seller # u
    /\ Open(c, "buy", listing[l].item, listing[l].seller, u, l)
    /\ UNCHANGED <<collection, item, listing, offer, lapsed, deeds, minter>>

BuySell(c) ==
    LET r == ncall[c] IN
    /\ Turn(c, "sell")
    /\ listing' = [listing EXCEPT ![r.row].status = "sold", ![r.row].buyer = r.to,
                                  ![r.row].filled = TRUE]
    /\ NAdvance(c)
    /\ UNCHANGED <<collection, item, offer, lapsed, deeds, minter, deals>>

CancelRead(c, l, u) ==
    /\ Shown(l)
    /\ listing[l].seller = u
    /\ listing[l].status = "active"
    /\ Open(c, "cancel", listing[l].item, u, u, l)
    /\ UNCHANGED <<collection, item, listing, offer, lapsed, deeds, minter>>

CancelWrite(c) ==
    /\ Turn(c, "cancel")
    /\ listing' = [listing EXCEPT ![ncall[c].row].status = "cancelled"]
    /\ NAdvance(c)
    /\ UNCHANGED <<collection, item, offer, lapsed, deeds, minter, deals>>

-----------------------------------------------------------------------------
(* Offers; nobody looks at their expires_at *)

CreateOffer(o, i, u) ==
    /\ offer[o] = NoOffer
    /\ item[i] # Nobody
    /\ offer' = [offer EXCEPT ![o] = [item |-> i, buyer |-> u, status |-> "pending"]]
    /\ UNCHANGED <<collection, item, listing, lapsed, deeds, minter, ncall, deals>>

AcceptRead(c, o, u) ==
    /\ offer[o] # NoOffer
    /\ offer[o].status = "pending"
    /\ Open(c, "accept", offer[o].item, u, offer[o].buyer, o)
    /\ UNCHANGED <<collection, item, listing, offer, lapsed, deeds, minter>>

AcceptTitle(c) ==
    LET r == ncall[c] IN
    /\ Turn(c, "title")
    /\ IF item[r.item] = r.user THEN NAdvance(c) ELSE NReturn(c)
    /\ UNCHANGED <<collection, item, listing, offer, lapsed, deeds, minter, deals>>

AcceptMark(c) ==
    /\ Turn(c, "accept")
    /\ offer' = [offer EXCEPT ![ncall[c].row].status = "accepted"]
    /\ NAdvance(c)
    /\ UNCHANGED <<collection, item, listing, lapsed, deeds, minter, deals>>

AcceptClearOffers(c) ==
    LET r == ncall[c] IN
    /\ Turn(c, "clearOffers")
    /\ offer' = [o \in DOMAIN offer |->
          IF offer[o].status = "pending" /\ offer[o].item = r.item /\ o # r.row
          THEN [offer[o] EXCEPT !.status = "cancelled"] ELSE offer[o]]
    /\ NAdvance(c)
    /\ UNCHANGED <<collection, item, listing, lapsed, deeds, minter, deals>>

AcceptClearListings(c) ==
    /\ Turn(c, "clearListings")
    /\ listing' = [l \in DOMAIN listing |->
          IF listing[l].status = "active" /\ listing[l].item = ncall[c].item
          THEN [listing[l] EXCEPT !.status = "cancelled"] ELSE listing[l]]
    /\ NAdvance(c)
    /\ UNCHANGED <<collection, item, offer, lapsed, deeds, minter, deals>>

-----------------------------------------------------------------------------
\* A statement whose error the code returns fails, or the process dies.
NftFails(c) ==
    /\ NftMayFail
    /\ ncall[c] # NIdle
    /\ NReturn(c)
    /\ UNCHANGED <<collection, item, listing, offer, lapsed, deeds, minter, deals>>

\* A statement whose error the code ignores fails.
NftSkips(c) ==
    /\ NftMayFail
    /\ \E s \in {"count", "look", "accept", "clearOffers", "clearListings", "deed"} : Turn(c, s)
    /\ NAdvance(c)
    /\ UNCHANGED <<collection, item, listing, offer, lapsed, deeds, minter, deals>>

MintItem(c) == (\E u, v \in Traders : MintRead(c, u, v)) \/ MintInsert(c) \/ MintCount(c)

Give(c) ==
    \/ \E i \in Items, u, v \in Traders : GiveRead(c, i, u, v)
    \/ SetOwner(c)
    \/ RecordDeed(c)

CreateListing(c) ==
    \/ \E i \in Items, u \in Traders : ListRead(c, i, u)
    \/ ListLook(c)
    \/ \E l \in Listings : ListPost(c, l)

BuyListing(c) == (\E l \in Listings, u \in Traders : BuyRead(c, l, u)) \/ BuySell(c)

CancelListing(c) == (\E l \in Listings, u \in Traders : CancelRead(c, l, u)) \/ CancelWrite(c)

AcceptOffer(c) ==
    \/ \E o \in Offers, u \in Traders : AcceptRead(c, o, u)
    \/ AcceptTitle(c)
    \/ AcceptMark(c)
    \/ AcceptClearOffers(c)
    \/ AcceptClearListings(c)

NftNext ==
    \/ \E u \in Traders : CreateCollection(u)
    \/ FillCollection
    \/ \E l \in Listings : FillListing(l) \/ Lapse(l)
    \/ \E o \in Offers, i \in Items, u \in Traders : CreateOffer(o, i, u)
    \/ \E c \in NCalls :
          \/ MintItem(c) \/ Give(c) \/ CreateListing(c) \/ BuyListing(c)
          \/ CancelListing(c) \/ AcceptOffer(c) \/ NftFails(c) \/ NftSkips(c)

NftSpec == NftInit /\ [][NftNext]_nftVars

-----------------------------------------------------------------------------
(* Properties *)

(* However many mints run at once, and whichever of their statements fail,  *)
(* a collection never has more items than max_supply: the supply read is    *)
(* tested and becomes the item's UNIQUE index, and the counter, which is    *)
(* written after the item, never runs ahead of the items there are (Mint).  *)
ItemsWithinMax ==
    collection # NoCollection =>
        /\ Cardinality(Minted) <= collection.max
        /\ collection.supply <= Cardinality(Minted)

(* An item is on sale once at a time (CreateListing's test).                *)
OneListing ==
    \A i \in Items :
        Cardinality({l \in Listings : listing[l].status = "active" /\ listing[l].item = i}) <= 1

(* Between two operations an item without a transfer record is still with   *)
(* whom it was minted to, and one whose last record has a price is with the *)
(* buyer named there (BuyListing and AcceptOffer write the owner and the    *)
(* record separately; the record of a Transfer says nothing of the owner).  *)
SalesTellOwner ==
    (\A c \in NCalls : ncall[c] = NIdle) =>
        \A i \in Minted : IF deeds[i] = <<>> THEN item[i] = minter[i]
                          ELSE deeds[i][Len(deeds[i])] \in {item[i], Nobody}

(* A listing that was sold or cancelled stays as it is, and names for good  *)
(* the one buyer who was told it is theirs (BuyListing, CancelListing,      *)
(* AcceptOffer).                                                            *)
ListingSettled ==
    \A l \in Listings :
        listing[l].status \in {"sold", "cancelled"} =>
            /\ listing'[l].status = listing[l].status
            /\ listing'[l].buyer = listing[l].buyer
=============================================================================
