----------------------------- MODULE NftProofs ------------------------------
(***************************************************************************)
(* Proofs about Nft, for any users, listings, offers, maximum and number   *)
(* of concurrent handlers.                                                 *)
(*                                                                         *)
(* The argument: an item's index is the supply some mint read, plus one,   *)
(* and was tested against the maximum then; the UNIQUE address admits each *)
(* index once.  The counter lags behind the items: whoever is about to     *)
(* raise it has inserted an item of its own that is not yet counted.       *)
(*                                                                         *)
(* It extends JettonProofs for its last theorem, about the two together.   *)
(***************************************************************************)
EXTENDS JettonProofs

\* The statements a handler may still be at.
Stages == [
    mint   |-> {"insert", "count"},
    give   |-> {"own", "deed"},
    list   |-> {"look", "post"},
    buy    |-> {"sell", "own", "deed"},
    cancel |-> {"cancel"},
    accept |-> {"title", "own", "accept", "clearOffers", "clearListings", "deed"}]

\* Whom a handler has inserted an item for and not yet counted it.
Uncounted == {ncall[c].item : c \in {d \in NCalls : Turn(d, "count")}}

\* A mint works on an index the collection has room for.
MintOK(col, it, r) ==
    /\ col # NoCollection
    /\ r.item <= col.max
    /\ r.todo \in {<<"insert", "count">>, <<"count">>}
    /\ r.todo = <<"count">> => it[r.item] # Nobody

\* Any other handler works on an item and on rows that exist.
DealOK(it, li, of, r) ==
    /\ it[r.item] # Nobody
    /\ r.todo \in Seq(Stages[r.op])
    /\ r.op \in {"buy", "cancel"} => r.row \in Listings /\ li[r.row] # NoListing
    /\ r.op = "accept" => r.row \in Offers /\ of[r.row] # NoOffer

NCallOK(col, it, li, of, r) ==
    \/ r = NIdle
    \/ /\ r \in NCallState
       /\ IF r.op = "mint" THEN MintOK(col, it, r) ELSE DealOK(it, li, of, r)

NCallsOK == \A c \in NCalls : NCallOK(collection, item, listing, offer, ncall[c])

\* What is on offer exists.
RowsOK ==
    /\ \A l \in Listings : listing[l] # NoListing => item[listing[l].item] # Nobody
    /\ \A o \in Offers : offer[o] # NoOffer => item[offer[o].item] # Nobody

\* No two handlers count the same item.
Apart ==
    \A c, d \in NCalls :
        Turn(c, "count") /\ Turn(d, "count") /\ ncall[c].item = ncall[d].item => c = d

CountOK ==
    IF collection = NoCollection THEN Minted = {}
    ELSE /\ Minted \subseteq 1..collection.max
         /\ collection.supply + Cardinality(Uncounted) <= Cardinality(Minted)

NftInv == NftTypeOK /\ NCallsOK /\ RowsOK /\ Apart /\ CountOK

\* Nothing that exists ceases to.
Lasting ==
    /\ collection # NoCollection =>
          collection' # NoCollection /\ collection'.max = collection.max
    /\ \A i \in Items : item[i] # Nobody => item'[i] # Nobody
    /\ \A l \in Listings : listing[l] # NoListing => listing'[l] # NoListing
    /\ \A o \in Offers : offer[o] # NoOffer => offer'[o] # NoOffer

-----------------------------------------------------------------------------
(* Finite sets of items *)

LEMMA Finite ==
    /\ IsFiniteSet(Minted) /\ IsFiniteSet(Minted')
    /\ Cardinality(Minted) \in Nat /\ Cardinality(Minted') \in Nat
<1>1. IsFiniteSet(Items)
  BY FS_Interval, NftConstantsOK DEF Items
<1>2. Minted \subseteq Items /\ Minted' \subseteq Items
  BY DEF Minted
<1>. QED  BY <1>1, <1>2, FS_Subset, FS_CardinalityType

LEMMA UncountedMinted ==
    ASSUME NftInv
    PROVE  /\ Uncounted \subseteq Minted
           /\ IsFiniteSet(Uncounted) /\ Cardinality(Uncounted) \in Nat
<1>1. \A c \in NCalls : Turn(c, "count") => ncall[c].item \in Minted
  <2>. SUFFICES ASSUME NEW c \in NCalls, Turn(c, "count") PROVE ncall[c].item \in Minted
    OBVIOUS
  <2>. DEFINE r == ncall[c]
  <2>1. r # NIdle /\ r.todo # <<>> /\ Head(r.todo) = "count"
    BY DEF Turn, NIdle
  <2>2. r \in NCallState /\ IF r.op = "mint" THEN MintOK(collection, item, r)
                            ELSE DealOK(item, listing, offer, r)
    BY <2>1 DEF NftInv, NCallsOK, NCallOK
  <2>3. r.item \in Items /\ r.op \in DOMAIN Stages
    BY <2>2 DEF NCallState, NScript, Stages
  <2>. HIDE DEF r
  <2>4. item[r.item] # Nobody
    <3>1. CASE r.op = "mint"
      BY <2>1, <2>2, <3>1 DEF MintOK
    <3>2. CASE r.op # "mint"
      BY <2>2, <3>2 DEF DealOK
    <3>. QED  BY <3>1, <3>2
  <2>. QED  BY <2>3, <2>4 DEF Minted, r
<1>. QED  BY <1>1, Finite, FS_Subset, FS_CardinalityType DEF Uncounted

(* An index within the maximum for each item gives the bound.               *)
LEMMA InvBounds == NftInv => ItemsWithinMax
<1>. SUFFICES ASSUME NftInv, collection # NoCollection
              PROVE  /\ Cardinality(Minted) <= collection.max
                     /\ collection.supply <= Cardinality(Minted)
  BY DEF ItemsWithinMax
<1>1. collection \in CollectionRow
  BY DEF NftInv, NftTypeOK
<1>2. collection.max \in Nat /\ collection.max >= 1 /\ collection.supply \in Nat
  BY <1>1, NftConstantsOK DEF CollectionRow
<1>3. /\ Minted \subseteq 1..collection.max
      /\ collection.supply + Cardinality(Uncounted) <= Cardinality(Minted)
  BY DEF NftInv, CountOK
<1>4. IsFiniteSet(1..collection.max) /\ Cardinality(1..collection.max) = collection.max
  <2>. DEFINE m == collection.max
  <2>1. 1 \in Int /\ m \in Int /\ ~(1 > m) /\ m - 1 + 1 = m
    BY <1>2
  <2>. HIDE DEF m
  <2>2. IsFiniteSet(1..m) /\ Cardinality(1..m) = m
    BY <2>1, FS_Interval
  <2>. QED  BY <2>2 DEF m
<1>5. Cardinality(Minted) <= collection.max
  BY <1>3, <1>4, FS_Subset
<1>. QED  BY <1>2, <1>3, <1>5, UncountedMinted, Finite

-----------------------------------------------------------------------------
(* The handlers' states *)

LEMMA TailIn ==
    ASSUME NEW S, NEW q \in Seq(S), q # <<>>
    PROVE  Head(q) \in S /\ Tail(q) \in Seq(S) /\ (Tail(q) # <<>> => Head(Tail(q)) \in S)
OBVIOUS

\* What is known of a handler that is about to issue a statement.
LEMMA NftAtStage ==
    ASSUME NftInv, NEW c \in NCalls, NEW st, Turn(c, st)
    PROVE  /\ ncall[c] # NIdle /\ ncall[c] \in NCallState
           /\ ncall[c].todo # <<>> /\ Head(ncall[c].todo) = st
           /\ IF ncall[c].op = "mint" THEN MintOK(collection, item, ncall[c])
              ELSE DealOK(item, listing, offer, ncall[c])
           /\ st \in Stages[ncall[c].op]
           /\ ncall[c].op \in DOMAIN Stages
<1>. DEFINE r == ncall[c]
<1>1. r # NIdle /\ r.todo # <<>> /\ Head(r.todo) = st
  BY DEF Turn, NIdle
<1>2. r \in NCallState /\ IF r.op = "mint" THEN MintOK(collection, item, r)
                          ELSE DealOK(item, listing, offer, r)
  BY <1>1 DEF NftInv, NCallsOK, NCallOK
<1>3. r.op \in DOMAIN Stages
  BY <1>2 DEF NCallState, NScript, Stages
<1>. HIDE DEF r
<1>4. CASE r.op = "mint"
  <2>1. Head(r.todo) \in {"insert", "count"}
    BY <1>2, <1>4 DEF MintOK
  <2>. QED  BY <1>1, <1>2, <1>3, <1>4, <2>1 DEF Stages, r
<1>5. CASE r.op # "mint"
  <2>1. r.todo \in Seq(Stages[r.op])
    BY <1>2, <1>5 DEF DealOK
  <2>2. Head(r.todo) \in Stages[r.op]
    BY <1>1, <2>1, TailIn
  <2>. QED  BY <1>1, <1>2, <1>3, <1>5, <2>2 DEF r
<1>. QED  BY <1>4, <1>5

\* A handler's claims outlast what others do.
LEMMA NCallStays ==
    ASSUME NEW r, NCallOK(collection, item, listing, offer, r), Lasting
    PROVE  NCallOK(collection', item', listing', offer', r)
<1>. SUFFICES ASSUME r # NIdle PROVE NCallOK(collection', item', listing', offer', r)
  BY DEF NCallOK
<1>1. r \in NCallState /\ r.item \in Items
  BY DEF NCallOK, NCallState
<1>2. CASE r.op = "mint"
  BY <1>1, <1>2 DEF NCallOK, MintOK, Lasting
<1>3. CASE r.op # "mint"
  BY <1>1, <1>3 DEF NCallOK, DealOK, Lasting
<1>. QED  BY <1>2, <1>3

\* The handlers after one of them has moved to s.
LEMMA MoveKeeps ==
    ASSUME NftInv, Lasting, NEW c \in NCalls, NEW s \in NCallState \cup {NIdle},
           NCallOK(collection', item', listing', offer', s),
           ncall' = [ncall EXCEPT ![c] = s]
    PROVE  NCallsOK' /\ ncall' \in [NCalls -> NCallState \cup {NIdle}]
<1>1. \A d \in NCalls : NCallOK(collection', item', listing', offer', ncall[d])
  BY NCallStays DEF NftInv, NCallsOK
<1>2. ncall \in [NCalls -> NCallState \cup {NIdle}]
  BY DEF NftInv, NftTypeOK
<1>3. \A d \in NCalls : ncall'[d] = IF d = c THEN s ELSE ncall[d]
  BY <1>2
<1>. QED  BY <1>1, <1>2, <1>3 DEF NCallsOK

\* If nobody begins to count, nobody counts but who did before.
LEMMA FewerCount ==
    ASSUME NftInv,
           \A d \in NCalls : Turn(d, "count")' => Turn(d, "count") /\ ncall'[d] = ncall[d]
    PROVE  /\ Apart'
           /\ Uncounted' \subseteq Uncounted
           /\ IsFiniteSet(Uncounted') /\ Cardinality(Uncounted') \in Nat
           /\ Cardinality(Uncounted') <= Cardinality(Uncounted)
<1>1. Apart'
  BY DEF NftInv, Apart
<1>2. Uncounted' \subseteq Uncounted
  BY DEF Uncounted
<1>. QED  BY <1>1, <1>2, UncountedMinted, FS_Subset, FS_CardinalityType

\* r, which was at statement st, is s now.
NftGoesOn(r, st, s) ==
    /\ \/ s = NIdle /\ st # "insert"
       \/ /\ s \in NCallState
          /\ s.op = r.op /\ s.item = r.item /\ s.row = r.row
          /\ IF r.op = "mint" THEN s.todo = <<"count">> /\ st = "insert"
             ELSE s.todo \in Seq(Stages[r.op])
    /\ s.todo # <<>> /\ Head(s.todo) = "count" => st = "insert"

\* What a handler goes on with.
LEMMA Advanced ==
    ASSUME NftInv, NEW c \in NCalls, NEW st, Turn(c, st), NAdvance(c)
    PROVE  \E s \in NCallState \cup {NIdle} :
              ncall' = [ncall EXCEPT ![c] = s] /\ NftGoesOn(ncall[c], st, s)
<1>. DEFINE r == ncall[c]
            t == Tail(r.todo)
            s == [r EXCEPT !.todo = t]
<1>1. /\ r \in NCallState /\ r.todo # <<>> /\ Head(r.todo) = st
      /\ r.op \in DOMAIN Stages /\ st \in Stages[r.op]
      /\ IF r.op = "mint" THEN MintOK(collection, item, r) ELSE DealOK(item, listing, offer, r)
  BY NftAtStage
<1>2. ncall' = [ncall EXCEPT ![c] = IF t = <<>> THEN NIdle ELSE s]
  BY DEF NAdvance
<1>3. \A x \in DOMAIN Stages : x # "mint" => "insert" \notin Stages[x] /\ "count" \notin Stages[x]
  BY DEF Stages
<1>4. CASE r.op = "mint"
  <2>1. r.todo \in {<<"insert", "count">>, <<"count">>}
    BY <1>1, <1>4 DEF MintOK
  <2>2. CASE r.todo = <<"insert", "count">>
    <3>1. t = <<"count">> /\ st = "insert" /\ t # <<>>
      BY <1>1, <2>2
    <3>2. <<"count">> \in Seq({"insert", "count", "own", "deed", "look", "post", "sell",
                 "cancel", "title", "accept", "clearOffers", "clearListings"})
      OBVIOUS
    <3>. HIDE DEF t
    <3>3. s \in NCallState /\ s.op = r.op /\ s.item = r.item /\ s.row = r.row /\ s.todo = t
      BY <1>1, <3>1, <3>2 DEF NCallState
    <3>4. NftGoesOn(r, st, s)
      BY <1>4, <3>1, <3>3 DEF NftGoesOn
    <3>. HIDE DEF s, r
    <3>. QED  BY <1>2, <3>1, <3>3, <3>4 DEF r
  <2>3. CASE r.todo = <<"count">>
    <3>1. t = <<>> /\ st = "count"
      BY <1>1, <2>3
    <3>2. NftGoesOn(r, st, NIdle)
      BY <3>1 DEF NftGoesOn, NIdle
    <3>. HIDE DEF s, t
    <3>. QED  BY <1>2, <3>1, <3>2
  <2>. QED  BY <2>1, <2>2, <2>3
<1>5. CASE r.op # "mint"
  <2>1. r.todo \in Seq(Stages[r.op])
    BY <1>1, <1>5 DEF DealOK
  <2>2. t \in Seq(Stages[r.op]) /\ (t # <<>> => Head(t) \in Stages[r.op])
    BY <1>1, <2>1, TailIn
  <2>. DEFINE S == {"insert", "count", "own", "deed", "look", "post", "sell",
                    "cancel", "title", "accept", "clearOffers", "clearListings"}
  <2>3. r.todo \in Seq(S)
    BY <1>1 DEF NCallState
  <2>. HIDE DEF S
  <2>4. t \in Seq(S)
    BY <1>1, <2>3, TailIn
  <2>. HIDE DEF t
  <2>5. s \in NCallState /\ s.op = r.op /\ s.item = r.item /\ s.row = r.row /\ s.todo = t
    BY <1>1, <2>4 DEF NCallState, S
  <2>6. st # "insert"
    BY <1>1, <1>3, <1>5
  <2>7. t # <<>> => Head(t) # "count"
    BY <1>1, <1>3, <1>5, <2>2
  <2>8. CASE t = <<>>
    <3>1. NftGoesOn(r, st, NIdle)
      BY <2>6 DEF NftGoesOn, NIdle
    <3>. HIDE DEF s
    <3>. QED  BY <1>2, <2>8, <3>1
  <2>9. CASE t # <<>>
    <3>1. NftGoesOn(r, st, s)
      BY <1>5, <2>2, <2>5, <2>7 DEF NftGoesOn
    <3>. HIDE DEF s
    <3>. QED  BY <1>2, <2>5, <2>9, <3>1
  <2>. QED  BY <2>8, <2>9
<1>. QED  BY <1>4, <1>5

-----------------------------------------------------------------------------
(* What a step does to the handlers *)

\* The handlers are in order, and none has begun to count.
Orderly ==
    /\ NCallsOK'
    /\ ncall' \in [NCalls -> NCallState \cup {NIdle}]
    /\ \A d \in NCalls : Turn(d, "count")' => Turn(d, "count") /\ ncall'[d] = ncall[d]

\* After any statement but the INSERT of an item.
LEMMA AdvanceKeeps ==
    ASSUME NftInv, Lasting, NEW c \in NCalls, NEW st, Turn(c, st), st # "insert", NAdvance(c)
    PROVE  Orderly /\ ~Turn(c, "count")'
<1>. DEFINE r == ncall[c]
<1>1. PICK s \in NCallState \cup {NIdle} :
         ncall' = [ncall EXCEPT ![c] = s] /\ NftGoesOn(r, st, s)
  BY Advanced
<1>2. /\ r \in NCallState
      /\ IF r.op = "mint" THEN MintOK(collection, item, r) ELSE DealOK(item, listing, offer, r)
  BY NftAtStage
<1>3. r.item \in Items
  BY <1>2 DEF NCallState
<1>. HIDE DEF r
<1>4. NCallOK(collection', item', listing', offer', s)
  <2>. SUFFICES ASSUME s # NIdle PROVE NCallOK(collection', item', listing', offer', s)
    BY DEF NCallOK
  <2>1. /\ s \in NCallState /\ s.op = r.op /\ s.item = r.item /\ s.row = r.row
        /\ r.op # "mint" /\ s.todo \in Seq(Stages[r.op])
    BY <1>1 DEF NftGoesOn
  <2>2. DealOK(item', listing', offer', s)
    BY <1>2, <1>3, <2>1 DEF DealOK, Lasting
  <2>. QED  BY <2>1, <2>2 DEF NCallOK
<1>5. ncall \in [NCalls -> NCallState \cup {NIdle}]
  BY DEF NftInv, NftTypeOK
<1>6. \A d \in NCalls : ncall'[d] = IF d = c THEN s ELSE ncall[d]
  BY <1>1, <1>5
<1>7. ~(s.todo # <<>> /\ Head(s.todo) = "count")
  BY <1>1 DEF NftGoesOn
<1>. QED  BY <1>1, <1>4, <1>6, <1>7, MoveKeeps DEF Orderly, Turn

LEMMA NftReturnKeeps ==
    ASSUME NftInv, Lasting, NEW c \in NCalls, NReturn(c)
    PROVE  Orderly
<1>1. ncall' = [ncall EXCEPT ![c] = NIdle] /\ ncall \in [NCalls -> NCallState \cup {NIdle}]
  BY DEF NReturn, NftInv, NftTypeOK
<1>2. \A d \in NCalls : ncall'[d] = IF d = c THEN NIdle ELSE ncall[d]
  BY <1>1
<1>3. NCallOK(collection', item', listing', offer', NIdle) /\ NIdle.todo = <<>>
  BY DEF NCallOK, NIdle
<1>. QED  BY <1>1, <1>2, <1>3, MoveKeeps DEF Orderly, Turn

\* Nobody moves.
LEMMA NftRestKeeps ==
    ASSUME NftInv, Lasting, UNCHANGED ncall
    PROVE  Orderly
BY NCallStays DEF NftInv, NCallsOK, NftTypeOK, Orderly, Turn

LEMMA NftScripts ==
    ASSUME NEW op \in DOMAIN NScript
    PROVE  /\ NScript[op] \in Seq({"insert", "count", "own", "deed", "look", "post", "sell",
                 "cancel", "title", "accept", "clearOffers", "clearListings"})
           /\ NScript[op] \in Seq(Stages[op])
           /\ NScript[op] # <<>> /\ Head(NScript[op]) # "count"
           /\ op = "mint" => NScript[op] = <<"insert", "count">>
<1>1. CASE op = "mint"
  BY <1>1 DEF NScript, Stages
<1>2. CASE op = "give"
  BY <1>2 DEF NScript, Stages
<1>3. CASE op = "list"
  BY <1>3 DEF NScript, Stages
<1>4. CASE op = "buy"
  BY <1>4 DEF NScript, Stages
<1>5. CASE op = "cancel"
  BY <1>5 DEF NScript, Stages
<1>6. CASE op = "accept"
  BY <1>6 DEF NScript, Stages
<1>. QED  BY <1>1, <1>2, <1>3, <1>4, <1>5, <1>6 DEF NScript

\* A handler starts with an item and a row that are there.
LEMMA OpenKeeps ==
    ASSUME NftInv, NEW c \in NCalls, NEW op \in DOMAIN NScript, NEW i \in Items,
           NEW u \in Traders, NEW v \in Traders, NEW w \in Listings \cup Offers \cup {Nobody},
           Open(c, op, i, u, v, w), UNCHANGED <<collection, item, listing, offer>>,
           op = "mint" => collection # NoCollection /\ i <= collection.max,
           op # "mint" => item[i] # Nobody,
           op \in {"buy", "cancel"} => w \in Listings /\ listing[w] # NoListing,
           op = "accept" => w \in Offers /\ offer[w] # NoOffer
    PROVE  Orderly /\ (deals \in Nat => deals' \in Nat)
<1>. DEFINE s == [op |-> op, item |-> i, user |-> u, to |-> v, row |-> w, todo |-> NScript[op]]
<1>1. s \in NCallState
  BY NftScripts DEF NCallState
<1>2. NCallOK(collection', item', listing', offer', s)
  BY <1>1, NftScripts DEF NCallOK, MintOK, DealOK
<1>3. ncall' = [ncall EXCEPT ![c] = s] /\ (deals \in Nat => deals' \in Nat)
  BY DEF Open
<1>4. ncall \in [NCalls -> NCallState \cup {NIdle}]
  BY DEF NftInv, NftTypeOK
<1>5. s.todo # <<>> /\ Head(s.todo) # "count"
  BY NftScripts
<1>. HIDE DEF s
<1>6. \A d \in NCalls : ncall'[d] = IF d = c THEN s ELSE ncall[d]
  BY <1>3, <1>4
<1>7. Lasting
  BY DEF Lasting
<1>. QED  BY <1>1, <1>2, <1>3, <1>5, <1>6, <1>7, MoveKeeps DEF Orderly, Turn

\* The items and the counter stay as they are.
LEMMA CountStays ==
    ASSUME NftInv, Orderly, Minted' = Minted,
           \/ UNCHANGED collection
           \/ collection # NoCollection /\ collection' = [collection EXCEPT !.filled = TRUE]
    PROVE  Apart' /\ CountOK'
<1>1. /\ Apart' /\ Cardinality(Uncounted') \in Nat
      /\ Cardinality(Uncounted') <= Cardinality(Uncounted)
  BY FewerCount DEF Orderly
<1>2. collection # NoCollection =>
         /\ collection \in CollectionRow
         /\ collection'.supply = collection.supply /\ collection'.max = collection.max
         /\ collection.supply \in Nat
  BY DEF NftInv, NftTypeOK, CollectionRow
<1>3. collection = NoCollection => collection' = NoCollection
  OBVIOUS
<1>4. Cardinality(Uncounted) \in Nat /\ Cardinality(Minted) \in Nat
  BY UncountedMinted, Finite
<1>5. CASE collection' = NoCollection
  <2>1. collection = NoCollection
    <3>1. collection \in CollectionRow => "max" \in DOMAIN [collection EXCEPT !.filled = TRUE]
      BY DEF CollectionRow
    <3>2. "max" \notin DOMAIN NoCollection
      BY DEF NoCollection
    <3>. QED  BY <1>2, <1>5, <3>1, <3>2
  <2>. QED  BY <1>1, <1>5, <2>1 DEF NftInv, CountOK
<1>6. CASE collection' # NoCollection
  <2>1. collection # NoCollection
    BY <1>3, <1>6
  <2>2. /\ Minted \subseteq 1..collection.max
        /\ collection.supply + Cardinality(Uncounted) <= Cardinality(Minted)
    BY <2>1 DEF NftInv, CountOK
  <2>3. collection'.supply + Cardinality(Uncounted') <= Cardinality(Minted)
    BY <1>1, <1>2, <1>4, <2>1, <2>2
  <2>. QED  BY <1>1, <1>2, <1>6, <2>1, <2>2, <2>3 DEF CountOK
<1>. QED  BY <1>5, <1>6

-----------------------------------------------------------------------------
(* The invariant *)

LEMMA NftInvInit == NftInit => NftInv
<1>. SUFFICES ASSUME NftInit PROVE NftInv
  OBVIOUS
<1>1. NftTypeOK
  BY DEF NftInit, NftTypeOK
<1>2. NCallsOK /\ RowsOK /\ Apart /\ CountOK
  BY DEF NftInit, NCallsOK, NCallOK, RowsOK, Apart, CountOK, Minted, Turn, NIdle
<1>. QED  BY <1>1, <1>2 DEF NftInv

\* What every step has to keep of the rows.
NftRowsTyped ==
    /\ collection' \in CollectionRow \cup {NoCollection}
    /\ item' \in [Items -> Traders \cup {Nobody}]
    /\ listing' \in [Listings -> ListingRow \cup {NoListing}]
    /\ offer' \in [Offers -> OfferRow \cup {NoOffer}]
    /\ lapsed' \subseteq Listings
    /\ deeds' \in [Items -> Seq(Traders \cup {Nobody})]
    /\ minter' \in [Items -> Traders \cup {Nobody}]
    /\ deals' \in Nat

NftKept == NftRowsTyped /\ Orderly /\ RowsOK' /\ Apart' /\ CountOK'

LEMMA NftKeptIsInv == NftKept \/ (NftRowsTyped /\ NCallsOK' /\ RowsOK' /\ Apart' /\ CountOK'
                            /\ ncall' \in [NCalls -> NCallState \cup {NIdle}]) => NftInv'
BY DEF NftKept, NftRowsTyped, Orderly, NftInv, NftTypeOK

\* The rows that handlers decide on stay as they are.
LEMMA StillKeeps ==
    ASSUME NftInv, UNCHANGED <<collection, item, listing, offer>>
    PROVE  Lasting /\ RowsOK' /\ Minted' = Minted
BY DEF Lasting, NftInv, RowsOK, Minted

\* A handler begins.
LEMMA NftBeginKeeps ==
    ASSUME NftInv, Orderly, deals' \in Nat,
           UNCHANGED <<collection, item, listing, offer, lapsed, deeds, minter>>
    PROVE  NftKept
BY StillKeeps, CountStays DEF NftKept, NftRowsTyped, NftInv, NftTypeOK

LEMMA MintReadKeeps ==
    ASSUME NftInv, NEW c \in NCalls, NEW u \in Traders, NEW v \in Traders, MintRead(c, u, v)
    PROVE  NftKept
<1>1. collection \in CollectionRow /\ collection # NoCollection
  BY DEF MintRead, NftInv, NftTypeOK
<1>2. /\ collection.supply \in Nat /\ collection.max \in 1..MaxItems
      /\ ~(collection.supply >= collection.max)
  BY <1>1 DEF CollectionRow, MintRead
<1>3. collection.supply + 1 \in Items /\ collection.supply + 1 <= collection.max
  BY <1>2, NftConstantsOK DEF Items
<1>4. /\ Open(c, "mint", collection.supply + 1, u, v, Nobody)
      /\ UNCHANGED <<collection, item, listing, offer, lapsed, deeds, minter>>
      /\ "mint" \in DOMAIN NScript
  BY DEF MintRead, NScript
<1>5. Orderly /\ deals' \in Nat
  BY <1>1, <1>3, <1>4, OpenKeeps DEF NftInv, NftTypeOK
<1>. QED  BY <1>4, <1>5, NftBeginKeeps

\* The INSERT: a new item that is not yet counted, or an index already taken.
LEMMA MintInsertKeeps ==
    ASSUME NftInv, NEW c \in NCalls, MintInsert(c)
    PROVE  NftInv'
<1>. DEFINE r == ncall[c]
<1>1. Turn(c, "insert") /\ UNCHANGED <<collection, listing, offer, lapsed, deeds, deals>>
  BY DEF MintInsert
<1>2. /\ r \in NCallState /\ r.op \in DOMAIN Stages /\ "insert" \in Stages[r.op]
      /\ IF r.op = "mint" THEN MintOK(collection, item, r) ELSE DealOK(item, listing, offer, r)
  BY <1>1, NftAtStage
<1>3. r.op = "mint" /\ MintOK(collection, item, r)
  BY <1>2 DEF Stages
<1>4. r.item \in Items /\ r.to \in Traders
  BY <1>2 DEF NCallState
<1>5. collection # NoCollection /\ collection \in CollectionRow /\ r.item \in 1..collection.max
  BY <1>3, <1>4, NftConstantsOK DEF MintOK, NftInv, NftTypeOK, CollectionRow, Items
<1>6. CASE item[r.item] = Nobody
  <2>1. /\ item' = [item EXCEPT ![r.item] = r.to] /\ minter' = [minter EXCEPT ![r.item] = r.to]
        /\ NAdvance(c)
    BY <1>6 DEF MintInsert
  <2>2. PICK s \in NCallState \cup {NIdle} :
           ncall' = [ncall EXCEPT ![c] = s] /\ NftGoesOn(r, "insert", s)
    BY <1>1, <2>1, Advanced
  <2>3. s \in NCallState /\ s.op = "mint" /\ s.item = r.item /\ s.todo = <<"count">>
    BY <1>3, <2>2 DEF NftGoesOn
  <2>. HIDE DEF r
  <2>4. /\ item \in [Items -> Traders \cup {Nobody}] /\ Nobody \notin Traders
        /\ minter \in [Items -> Traders \cup {Nobody}]
    BY NftConstantsOK DEF NftInv, NftTypeOK
  <2>5. /\ \A i \in Items : item'[i] = IF i = r.item THEN r.to ELSE item[i]
        /\ item' \in [Items -> Traders \cup {Nobody}]
        /\ minter' \in [Items -> Traders \cup {Nobody}]
    BY <1>4, <2>1, <2>4
  <2>6. Minted' = Minted \cup {r.item} /\ r.item \notin Minted
    BY <1>4, <1>6, <2>4, <2>5 DEF Minted
  <2>7. Lasting
    BY <1>1, <1>4, <2>4, <2>5 DEF Lasting
  <2>8. NCallOK(collection', item', listing', offer', s)
    BY <1>1, <1>3, <1>4, <2>3, <2>4, <2>5 DEF NCallOK, MintOK
  <2>9. NCallsOK' /\ ncall' \in [NCalls -> NCallState \cup {NIdle}]
    BY <2>2, <2>7, <2>8, MoveKeeps
  <2>10. \A d \in NCalls : ncall'[d] = IF d = c THEN s ELSE ncall[d]
    BY <2>2 DEF NftInv, NftTypeOK
  <2>11. Turn(c, "count")'
    <3>1. ncall'[c] = s /\ s.todo # <<>> /\ Head(s.todo) = "count"
      BY <2>3, <2>10
    <3>. QED  BY <3>1 DEF Turn
  <2>12. \A d \in NCalls \ {c} : (Turn(d, "count")' <=> Turn(d, "count")) /\ ncall'[d] = ncall[d]
    BY <2>10 DEF Turn
  <2>13. ~Turn(c, "count")
    BY <1>1 DEF Turn
  <2>14. Uncounted' = Uncounted \cup {r.item}
    BY <2>3, <2>10, <2>11, <2>12, <2>13 DEF Uncounted
  <2>15. Apart'
    <3>1. \A d \in NCalls \ {c} : Turn(d, "count")' => ncall'[d].item # r.item
      BY <2>6, <2>12, UncountedMinted DEF Uncounted
    <3>. QED  BY <2>3, <2>10, <2>12, <3>1 DEF Apart, NftInv
  <2>16. CountOK'
    <3>1. r.item \notin Uncounted
      BY <2>6, UncountedMinted
    <3>2. /\ Cardinality(Uncounted') = Cardinality(Uncounted) + 1
          /\ Cardinality(Minted') = Cardinality(Minted) + 1
      BY <2>6, <2>14, <3>1, UncountedMinted, Finite, FS_AddElement
    <3>3. /\ Minted \subseteq 1..collection.max
          /\ collection.supply + Cardinality(Uncounted) <= Cardinality(Minted)
      BY <1>5 DEF NftInv, CountOK
    <3>4. collection.supply \in Nat
      BY <1>5 DEF CollectionRow
    <3>5. collection.supply + Cardinality(Uncounted') <= Cardinality(Minted')
      BY <3>2, <3>3, <3>4, UncountedMinted, Finite
    <3>. QED  BY <1>1, <1>5, <2>6, <3>3, <3>5 DEF CountOK
  <2>17. RowsOK'
    <3>1. /\ \A l \in Listings : listing[l] # NoListing => listing[l].item \in Items
          /\ \A o \in Offers : offer[o] # NoOffer => offer[o].item \in Items
      BY DEF NftInv, NftTypeOK, ListingRow, OfferRow
    <3>. QED  BY <1>1, <2>7, <3>1 DEF RowsOK, NftInv, Lasting
  <2>18. NftRowsTyped
    BY <1>1, <2>5 DEF NftRowsTyped, NftInv, NftTypeOK
  <2>. QED  BY <2>9, <2>15, <2>16, <2>17, <2>18, NftKeptIsInv
<1>7. CASE item[r.item] # Nobody
  <2>1. NReturn(c) /\ UNCHANGED <<item, minter>>
    BY <1>7 DEF MintInsert
  <2>2. Orderly
    BY <1>1, <2>1, StillKeeps, NftReturnKeeps
  <2>. QED  BY <1>1, <2>1, <2>2, NftBeginKeeps, NftKeptIsInv DEF NftInv, NftTypeOK
<1>. QED  BY <1>6, <1>7

\* The counter: the handler's own item is counted now.
LEMMA MintCountKeeps ==
    ASSUME NftInv, NEW c \in NCalls, MintCount(c)
    PROVE  NftKept
<1>. DEFINE r == ncall[c]
<1>1. /\ Turn(c, "count") /\ collection' = [collection EXCEPT !.supply = @ + 1] /\ NAdvance(c)
      /\ UNCHANGED <<item, listing, offer, lapsed, deeds, minter, deals>>
  BY DEF MintCount
<1>2. /\ r \in NCallState /\ r.op \in DOMAIN Stages /\ "count" \in Stages[r.op]
      /\ IF r.op = "mint" THEN MintOK(collection, item, r) ELSE DealOK(item, listing, offer, r)
  BY <1>1, NftAtStage
<1>3. MintOK(collection, item, r)
  BY <1>2 DEF Stages
<1>. HIDE DEF r
<1>4. collection # NoCollection /\ collection \in CollectionRow
  BY <1>3 DEF MintOK, NftInv, NftTypeOK
<1>5. /\ collection' \in CollectionRow /\ collection'.max = collection.max
      /\ collection'.supply = collection.supply + 1 /\ collection.supply \in Nat
  BY <1>1, <1>4 DEF CollectionRow
<1>6. collection' # NoCollection
  <2>1. "max" \in DOMAIN collection' /\ "max" \notin DOMAIN NoCollection
    BY <1>5 DEF CollectionRow, NoCollection
  <2>. QED  BY <2>1
<1>7. Lasting /\ RowsOK' /\ Minted' = Minted
  BY <1>1, <1>5, <1>6 DEF Lasting, NftInv, RowsOK, Minted
<1>8. Orderly /\ ~Turn(c, "count")'
  BY <1>1, <1>7, AdvanceKeeps
<1>9. Apart' /\ Uncounted' \subseteq Uncounted
  BY <1>8, FewerCount DEF Orderly
<1>10. r.item \in Uncounted /\ r.item \notin Uncounted'
  BY <1>1, <1>8 DEF Uncounted, Orderly, NftInv, Apart, r
<1>11. CountOK'
  <2>1. Uncounted' \subseteq Uncounted \ {r.item}
    BY <1>9, <1>10
  <2>2. /\ IsFiniteSet(Uncounted \ {r.item})
        /\ Cardinality(Uncounted \ {r.item}) = Cardinality(Uncounted) - 1
    BY <1>10, UncountedMinted, FS_RemoveElement
  <2>3. Cardinality(Uncounted') <= Cardinality(Uncounted) - 1 /\ Cardinality(Uncounted') \in Nat
    BY <2>1, <2>2, FS_Subset, FS_CardinalityType
  <2>4. /\ Minted \subseteq 1..collection.max
        /\ collection.supply + Cardinality(Uncounted) <= Cardinality(Minted)
    BY <1>4 DEF NftInv, CountOK
  <2>5. collection'.supply + Cardinality(Uncounted') <= Cardinality(Minted)
    BY <1>5, <2>3, <2>4, UncountedMinted, Finite
  <2>. QED  BY <1>5, <1>6, <1>7, <2>4, <2>5 DEF CountOK
<1>. QED  BY <1>1, <1>5, <1>7, <1>8, <1>9, <1>11 DEF NftKept, NftRowsTyped, NftInv, NftTypeOK

\* The collection comes into being, empty, and is given its address.
LEMMA CollectionKeeps ==
    ASSUME NftInv, FillCollection \/ \E u \in Traders : CreateCollection(u)
    PROVE  NftKept
<1>1. UNCHANGED <<item, listing, offer, lapsed, deeds, minter, ncall, deals>>
  BY DEF FillCollection, CreateCollection
<1>2. CASE \E u \in Traders : CreateCollection(u)
  <2>1. PICK u \in Traders, m \in 1..MaxItems :
           collection' = [owner |-> u, max |-> m, supply |-> 0, filled |-> FALSE]
    BY <1>2 DEF CreateCollection
  <2>2. collection = NoCollection
    BY <1>2 DEF CreateCollection
  <2>3. collection' \in CollectionRow /\ collection'.supply = 0
    BY <2>1 DEF CollectionRow
  <2>4. collection' # NoCollection
    <3>1. "max" \in DOMAIN collection' /\ "max" \notin DOMAIN NoCollection
      BY <2>1 DEF NoCollection
    <3>. QED  BY <3>1
  <2>5. Minted' = {} /\ Minted = {}
    BY <1>1, <2>2 DEF NftInv, CountOK, Minted
  <2>6. Lasting /\ RowsOK'
    BY <1>1, <2>2 DEF Lasting, NftInv, RowsOK
  <2>7. Orderly
    BY <1>1, <2>6, NftRestKeeps
  <2>8. Uncounted' = {}
    BY <1>1, <2>5, UncountedMinted DEF Uncounted, Turn
  <2>9. CountOK'
    BY <2>3, <2>4, <2>5, <2>8, FS_EmptySet DEF CountOK
  <2>10. Apart'
    BY <2>7, FewerCount DEF Orderly
  <2>. QED  BY <1>1, <2>3, <2>6, <2>7, <2>9, <2>10 DEF NftKept, NftRowsTyped, NftInv, NftTypeOK
<1>3. CASE FillCollection
  <2>1. collection # NoCollection /\ collection \in CollectionRow
    BY <1>3 DEF FillCollection, NftInv, NftTypeOK
  <2>2. collection' = [collection EXCEPT !.filled = TRUE]
    BY <1>3 DEF FillCollection
  <2>3. collection' \in CollectionRow /\ collection'.max = collection.max
    BY <2>1, <2>2 DEF CollectionRow
  <2>4. collection' # NoCollection
    <3>1. "max" \in DOMAIN collection' /\ "max" \notin DOMAIN NoCollection
      BY <2>3 DEF CollectionRow, NoCollection
    <3>. QED  BY <3>1
  <2>5. Lasting /\ RowsOK' /\ Minted' = Minted
    BY <1>1, <2>3, <2>4 DEF Lasting, NftInv, RowsOK, Minted
  <2>. QED  BY <1>1, <2>1, <2>2, <2>3, <2>5, NftRestKeeps, CountStays DEF NftKept, NftRowsTyped, NftInv, NftTypeOK
<1>. QED  BY <1>2, <1>3

\* An owner is written over an owner.
LEMMA SetOwnerKeeps ==
    ASSUME NftInv, NEW c \in NCalls, SetOwner(c)
    PROVE  NftKept
<1>. DEFINE r == ncall[c]
<1>1. /\ Turn(c, "own") /\ item' = [item EXCEPT ![r.item] = r.to] /\ NAdvance(c)
      /\ UNCHANGED <<collection, listing, offer, lapsed, deeds, minter, deals>>
  BY DEF SetOwner
<1>2. /\ r \in NCallState /\ r.op \in DOMAIN Stages /\ "own" \in Stages[r.op]
      /\ IF r.op = "mint" THEN MintOK(collection, item, r) ELSE DealOK(item, listing, offer, r)
  BY <1>1, NftAtStage
<1>3. item[r.item] # Nobody /\ r.item \in Items /\ r.to \in Traders
  BY <1>2 DEF Stages, DealOK, NCallState
<1>. HIDE DEF r
<1>4. item \in [Items -> Traders \cup {Nobody}] /\ Nobody \notin Traders
  BY NftConstantsOK DEF NftInv, NftTypeOK
<1>5. item' \in [Items -> Traders \cup {Nobody}]
  BY <1>1, <1>3, <1>4
<1>6. \A i \in Items : item'[i] # Nobody <=> item[i] # Nobody
  BY <1>1, <1>3, <1>4
<1>7. Minted' = Minted
  BY <1>6 DEF Minted
<1>8. Lasting
  BY <1>1, <1>6 DEF Lasting
<1>9. RowsOK'
  <2>1. /\ \A l \in Listings : listing[l] # NoListing => listing[l].item \in Items
        /\ \A o \in Offers : offer[o] # NoOffer => offer[o].item \in Items
    BY DEF NftInv, NftTypeOK, ListingRow, OfferRow
  <2>. QED  BY <1>1, <1>6, <2>1 DEF RowsOK, NftInv
<1>10. Orderly
  BY <1>1, <1>8, AdvanceKeeps
<1>. QED  BY <1>1, <1>5, <1>7, <1>9, <1>10, CountStays DEF NftKept, NftRowsTyped, NftInv, NftTypeOK

\* The record of a transfer.
LEMMA RecordDeedKeeps ==
    ASSUME NftInv, NEW c \in NCalls, RecordDeed(c)
    PROVE  NftKept
<1>1. /\ Turn(c, "deed") /\ NAdvance(c)
      /\ deeds' = [deeds EXCEPT ![ncall[c].item] =
                      Append(@, IF ncall[c].op = "give" THEN Nobody ELSE ncall[c].to)]
      /\ UNCHANGED <<collection, item, listing, offer, lapsed, minter, deals>>
  BY DEF RecordDeed
<1>2. ncall[c].item \in Items /\ ncall[c].to \in Traders
  BY <1>1, NftAtStage DEF NCallState
<1>3. deeds' \in [Items -> Seq(Traders \cup {Nobody})]
  BY <1>1, <1>2 DEF NftInv, NftTypeOK
<1>4. Lasting /\ RowsOK' /\ Minted' = Minted
  BY <1>1, StillKeeps
<1>5. Orderly
  BY <1>1, <1>4, AdvanceKeeps
<1>. QED  BY <1>1, <1>3, <1>4, <1>5, CountStays DEF NftKept, NftRowsTyped, NftInv, NftTypeOK

\* Rows of listings and offers come and change, those there stay there.
LEMMA MarketKeeps ==
    ASSUME NftInv, Orderly,
           UNCHANGED <<collection, item, deeds, minter, deals>>, lapsed' \subseteq Listings,
           listing' \in [Listings -> ListingRow \cup {NoListing}],
           offer' \in [Offers -> OfferRow \cup {NoOffer}],
           \A l \in Listings : listing'[l] # NoListing => item[listing'[l].item] # Nobody,
           \A o \in Offers : offer'[o] # NoOffer => item[offer'[o].item] # Nobody
    PROVE  NftKept
<1>1. RowsOK' /\ Minted' = Minted
  BY DEF RowsOK, Minted
<1>. QED  BY <1>1, CountStays DEF NftKept, NftRowsTyped, NftInv, NftTypeOK

\* A row of a listing that is there is no missing row.
LEMMA RowShapes ==
    ASSUME NftInv
    PROVE  /\ NoListing \notin ListingRow /\ NoOffer \notin OfferRow
           /\ \A l \in Listings : listing[l] # NoListing =>
                 /\ listing[l] \in ListingRow
                 /\ listing[l].item \in Items /\ item[listing[l].item] # Nobody
                 /\ listing[l].seller \in Traders
           /\ \A o \in Offers : offer[o] # NoOffer =>
                 /\ offer[o] \in OfferRow
                 /\ offer[o].item \in Items /\ item[offer[o].item] # Nobody
                 /\ offer[o].buyer \in Traders
<1>1. NoListing \notin ListingRow /\ NoOffer \notin OfferRow
  <2>1. \A x \in ListingRow : x.status # "none"
    BY DEF ListingRow, ListingStatus
  <2>2. \A x \in OfferRow : x.status # "none"
    BY DEF OfferRow
  <2>. QED  BY <2>1, <2>2 DEF NoListing, NoOffer
<1>. QED  BY <1>1 DEF NftInv, NftTypeOK, RowsOK, ListingRow, OfferRow

\* A handler other than a mint begins with an item and a row it has read.
LEMMA ReadsKeep ==
    ASSUME NftInv, NEW c \in NCalls,
           \/ \E i \in Items, u, v \in Traders : GiveRead(c, i, u, v)
           \/ \E i \in Items, u \in Traders : ListRead(c, i, u)
           \/ \E l \in Listings, u \in Traders : BuyRead(c, l, u) \/ CancelRead(c, l, u)
           \/ \E o \in Offers, u \in Traders : AcceptRead(c, o, u)
    PROVE  NftKept
<1>1. UNCHANGED <<collection, item, listing, offer, lapsed, deeds, minter>>
  BY DEF GiveRead, ListRead, BuyRead, CancelRead, AcceptRead
<1>2. deals \in Nat /\ Nobody \notin Traders
  BY NftConstantsOK DEF NftInv, NftTypeOK
<1>3. CASE \E i \in Items, u, v \in Traders : GiveRead(c, i, u, v)
  <2>1. PICK i \in Items, u \in Traders, v \in Traders : GiveRead(c, i, u, v)
    BY <1>3
  <2>2. Open(c, "give", i, u, v, Nobody) /\ item[i] # Nobody /\ "give" \in DOMAIN NScript
    BY <2>1, <1>2 DEF GiveRead, NScript
  <2>. QED  BY <1>1, <1>2, <2>2, OpenKeeps, NftBeginKeeps
<1>4. CASE \E i \in Items, u \in Traders : ListRead(c, i, u)
  <2>1. PICK i \in Items, u \in Traders : ListRead(c, i, u)
    BY <1>4
  <2>2. Open(c, "list", i, u, u, Nobody) /\ item[i] # Nobody /\ "list" \in DOMAIN NScript
    BY <2>1, <1>2 DEF ListRead, NScript
  <2>. QED  BY <1>1, <1>2, <2>2, OpenKeeps, NftBeginKeeps
<1>5. CASE \E l \in Listings, u \in Traders : BuyRead(c, l, u)
  <2>1. PICK l \in Listings, u \in Traders : BuyRead(c, l, u)
    BY <1>5
  <2>2. /\ Open(c, "buy", listing[l].item, listing[l].seller, u, l) /\ listing[l] # NoListing
        /\ "buy" \in DOMAIN NScript
    BY <2>1 DEF BuyRead, Shown, NScript
  <2>3. listing[l].item \in Items /\ item[listing[l].item] # Nobody /\ listing[l].seller \in Traders
    BY <2>2, RowShapes
  <2>. QED  BY <1>1, <1>2, <2>2, <2>3, OpenKeeps, NftBeginKeeps
<1>6. CASE \E l \in Listings, u \in Traders : CancelRead(c, l, u)
  <2>1. PICK l \in Listings, u \in Traders : CancelRead(c, l, u)
    BY <1>6
  <2>2. /\ Open(c, "cancel", listing[l].item, u, u, l) /\ listing[l] # NoListing
        /\ "cancel" \in DOMAIN NScript
    BY <2>1 DEF CancelRead, Shown, NScript
  <2>3. listing[l].item \in Items /\ item[listing[l].item] # Nobody
    BY <2>2, RowShapes
  <2>. QED  BY <1>1, <1>2, <2>2, <2>3, OpenKeeps, NftBeginKeeps
<1>7. CASE \E o \in Offers, u \in Traders : AcceptRead(c, o, u)
  <2>1. PICK o \in Offers, u \in Traders : AcceptRead(c, o, u)
    BY <1>7
  <2>2. /\ Open(c, "accept", offer[o].item, u, offer[o].buyer, o) /\ offer[o] # NoOffer
        /\ "accept" \in DOMAIN NScript
    BY <2>1 DEF AcceptRead, NScript
  <2>3. offer[o].item \in Items /\ item[offer[o].item] # Nobody /\ offer[o].buyer \in Traders
    BY <2>2, RowShapes
  <2>. QED  BY <1>1, <1>2, <2>2, <2>3, OpenKeeps, NftBeginKeeps
<1>. QED  BY <1>3, <1>4, <1>5, <1>6, <1>7

\* A handler goes on or returns, and no row changes.
LEMMA LocalKeeps ==
    ASSUME NftInv, NEW c \in NCalls,
           ListLook(c) \/ AcceptTitle(c) \/ NftFails(c) \/ NftSkips(c)
    PROVE  NftKept
<1>1. /\ UNCHANGED <<collection, item, listing, offer, lapsed, deeds, minter, deals>>
      /\ NReturn(c) \/ \E st : st # "insert" /\ Turn(c, st) /\ NAdvance(c)
  BY DEF ListLook, AcceptTitle, NftFails, NftSkips
<1>2. Orderly
  BY <1>1, StillKeeps, NftReturnKeeps, AdvanceKeeps
<1>. QED  BY <1>1, <1>2, NftBeginKeeps DEF NftInv, NftTypeOK

\* The steps of handlers that write a listing.
LEMMA ListingsKeep ==
    ASSUME NftInv, NEW c \in NCalls,
           BuySell(c) \/ CancelWrite(c) \/ \E l \in Listings : ListPost(c, l)
    PROVE  NftKept
<1>. DEFINE r == ncall[c]
<1>1. /\ UNCHANGED <<collection, item, offer, lapsed, deeds, minter, deals>> /\ NAdvance(c)
      /\ lapsed \subseteq Listings
      /\ offer \in [Offers -> OfferRow \cup {NoOffer}]
      /\ listing \in [Listings -> ListingRow \cup {NoListing}]
  BY DEF BuySell, CancelWrite, ListPost, NftInv, NftTypeOK
<1>2. PICK st \in {"sell", "cancel", "post"} :
         /\ Turn(c, st)
         /\ st = "sell" => BuySell(c)
         /\ st = "cancel" => CancelWrite(c)
         /\ st = "post" => \E l \in Listings : ListPost(c, l)
  BY DEF BuySell, CancelWrite, ListPost
<1>3. /\ r \in NCallState /\ r.op \in DOMAIN Stages /\ st \in Stages[r.op]
      /\ IF r.op = "mint" THEN MintOK(collection, item, r) ELSE DealOK(item, listing, offer, r)
  BY <1>2, NftAtStage
<1>4. /\ r.item \in Items /\ r.user \in Traders /\ r.to \in Traders
      /\ item[r.item] # Nobody
      /\ st = "sell" => r.row \in Listings /\ listing[r.row] # NoListing
      /\ st = "cancel" => r.row \in Listings /\ listing[r.row] # NoListing
  BY <1>2, <1>3 DEF Stages, DealOK, NCallState
<1>5. \E l \in Listings, row \in ListingRow :
         listing' = [listing EXCEPT ![l] = row] /\ item[row.item] # Nobody
  <2>1. CASE st = "sell"
    <3>. DEFINE row == [listing[r.row] EXCEPT !.status = "sold", !.buyer = r.to, !.filled = TRUE]
    <3>1. listing' = [listing EXCEPT ![r.row] = row]
      BY <1>2, <2>1 DEF BuySell
    <3>2. row \in ListingRow /\ row.item = listing[r.row].item
      BY <1>4, <2>1, RowShapes DEF ListingRow, ListingStatus
    <3>. QED  BY <1>4, <2>1, <3>1, <3>2, RowShapes
  <2>2. CASE st = "cancel"
    <3>. DEFINE row == [listing[r.row] EXCEPT !.status = "cancelled"]
    <3>1. listing' = [listing EXCEPT ![r.row] = row]
      BY <1>2, <2>2 DEF CancelWrite
    <3>2. row \in ListingRow /\ row.item = listing[r.row].item
      BY <1>4, <2>2, RowShapes DEF ListingRow, ListingStatus
    <3>. QED  BY <1>4, <2>2, <3>1, <3>2, RowShapes
  <2>3. CASE st = "post"
    <3>. DEFINE row == [item |-> r.item, seller |-> r.user, status |-> "active",
                        buyer |-> Nobody, filled |-> FALSE]
    <3>1. PICK l \in Listings : listing' = [listing EXCEPT ![l] = row]
      BY <1>2, <2>3 DEF ListPost
    <3>2. row \in ListingRow /\ row.item = r.item
      BY <1>4 DEF ListingRow, ListingStatus
    <3>. QED  BY <1>4, <3>1, <3>2
  <2>. QED  BY <1>2, <2>1, <2>2, <2>3
<1>. HIDE DEF r
<1>6. PICK l \in Listings, row \in ListingRow :
         listing' = [listing EXCEPT ![l] = row] /\ item[row.item] # Nobody
  BY <1>5
<1>7. /\ listing' \in [Listings -> ListingRow \cup {NoListing}]
      /\ \A k \in Listings : listing'[k] = IF k = l THEN row ELSE listing[k]
  BY <1>1, <1>6
<1>8. Lasting
  BY <1>1, <1>7, RowShapes DEF Lasting
<1>9. Orderly
  BY <1>1, <1>2, <1>8, AdvanceKeeps
<1>10. \A o \in Offers : offer'[o] # NoOffer => item[offer'[o].item] # Nobody
  BY <1>1, RowShapes
<1>11. \A k \in Listings : listing'[k] # NoListing => item[listing'[k].item] # Nobody
  BY <1>6, <1>7, RowShapes
<1>. QED  BY <1>1, <1>7, <1>9, <1>10, <1>11, MarketKeeps

\* The end of an accepted offer.
LEMMA AcceptKeeps ==
    ASSUME NftInv, NEW c \in NCalls,
           AcceptMark(c) \/ AcceptClearOffers(c) \/ AcceptClearListings(c)
    PROVE  NftKept
<1>. DEFINE r == ncall[c]
<1>1. /\ UNCHANGED <<collection, item, lapsed, deeds, minter, deals>> /\ NAdvance(c)
      /\ lapsed \subseteq Listings
      /\ offer \in [Offers -> OfferRow \cup {NoOffer}]
      /\ listing \in [Listings -> ListingRow \cup {NoListing}]
  BY DEF AcceptMark, AcceptClearOffers, AcceptClearListings, NftInv, NftTypeOK
<1>2. /\ \A l \in Listings : listing'[l] \in {listing[l], [listing[l] EXCEPT !.status = "cancelled"]}
      /\ \A l \in Listings : listing'[l] # listing[l] => listing[l] # NoListing
      /\ listing' = [l \in Listings |-> listing'[l]]
  <2>1. CASE UNCHANGED listing
    BY <1>1, <2>1
  <2>2. CASE AcceptClearListings(c)
    BY <1>1, <2>2 DEF AcceptClearListings, NoListing
  <2>. QED  BY <2>1, <2>2 DEF AcceptMark, AcceptClearOffers
<1>3. /\ \A o \in Offers : offer'[o] \in {offer[o], [offer[o] EXCEPT !.status = "accepted"],
                                          [offer[o] EXCEPT !.status = "cancelled"]}
      /\ \A o \in Offers : offer'[o] # offer[o] => offer[o] # NoOffer
      /\ offer' = [o \in Offers |-> offer'[o]]
  <2>1. CASE UNCHANGED offer
    BY <1>1, <2>1
  <2>2. CASE AcceptClearOffers(c)
    BY <1>1, <2>2 DEF AcceptClearOffers, NoOffer
  <2>3. CASE AcceptMark(c)
    <3>1. /\ r.op \in DOMAIN Stages /\ "accept" \in Stages[r.op]
          /\ IF r.op = "mint" THEN MintOK(collection, item, r) ELSE DealOK(item, listing, offer, r)
      BY <2>3, NftAtStage DEF AcceptMark
    <3>2. r.row \in Offers /\ offer[r.row] # NoOffer
      BY <3>1 DEF Stages, DealOK
    <3>3. offer' = [offer EXCEPT ![r.row] = [offer[r.row] EXCEPT !.status = "accepted"]]
      BY <2>3 DEF AcceptMark
    <3>. HIDE DEF r
    <3>. QED  BY <1>1, <3>2, <3>3
  <2>. QED  BY <2>1, <2>2, <2>3 DEF AcceptClearListings
<1>4. \A l \in Listings : listing'[l] # NoListing =>
         listing[l] # NoListing /\ listing'[l] \in ListingRow /\ listing'[l].item = listing[l].item
  BY <1>2, RowShapes DEF ListingRow, ListingStatus
<1>5. \A o \in Offers : offer'[o] # NoOffer =>
         offer[o] # NoOffer /\ offer'[o] \in OfferRow /\ offer'[o].item = offer[o].item
  BY <1>3, RowShapes DEF OfferRow
<1>6. /\ \A l \in Listings : listing[l] # NoListing => listing'[l] # NoListing
      /\ \A o \in Offers : offer[o] # NoOffer => offer'[o] # NoOffer
  <2>1. \A l \in Listings : listing[l] # NoListing => listing'[l] \in ListingRow
    BY <1>2, RowShapes DEF ListingRow, ListingStatus
  <2>2. \A o \in Offers : offer[o] # NoOffer => offer'[o] \in OfferRow
    BY <1>3, RowShapes DEF OfferRow
  <2>. QED  BY <2>1, <2>2, RowShapes
<1>7. Lasting
  BY <1>1, <1>6 DEF Lasting
<1>8. Orderly
  BY <1>1, <1>7, AdvanceKeeps DEF AcceptMark, AcceptClearOffers, AcceptClearListings
<1>9. /\ listing' \in [Listings -> ListingRow \cup {NoListing}]
      /\ offer' \in [Offers -> OfferRow \cup {NoOffer}]
  BY <1>2, <1>3, <1>4, <1>5
<1>10. /\ \A l \in Listings : listing'[l] # NoListing => item[listing'[l].item] # Nobody
       /\ \A o \in Offers : offer'[o] # NoOffer => item[offer'[o].item] # Nobody
  BY <1>4, <1>5, RowShapes
<1>. QED  BY <1>1, <1>8, <1>9, <1>10, MarketKeeps

\* What is offered, filled in and lapses outside the handlers.
LEMMA OffersKeep ==
    ASSUME NftInv,
           \/ \E l \in Listings : FillListing(l) \/ Lapse(l)
           \/ \E o \in Offers, i \in Items, u \in Traders : CreateOffer(o, i, u)
    PROVE  NftKept
<1>1. /\ offer \in [Offers -> OfferRow \cup {NoOffer}]
      /\ listing \in [Listings -> ListingRow \cup {NoListing}]
      /\ lapsed \subseteq Listings
  BY DEF NftInv, NftTypeOK
<1>2. CASE \E l \in Listings : FillListing(l)
  <2>1. PICK l \in Listings : FillListing(l)
    BY <1>2
  <2>. DEFINE row == [listing[l] EXCEPT !.filled = TRUE]
  <2>2. /\ UNCHANGED <<collection, item, offer, lapsed, deeds, minter, ncall, deals>>
        /\ listing[l] # NoListing /\ listing' = [listing EXCEPT ![l] = row]
    BY <2>1 DEF FillListing
  <2>3. row \in ListingRow /\ row.item = listing[l].item
    BY <2>2, RowShapes DEF ListingRow
  <2>. HIDE DEF row
  <2>4. /\ listing' \in [Listings -> ListingRow \cup {NoListing}]
        /\ \A k \in Listings : listing'[k] = IF k = l THEN row ELSE listing[k]
    BY <1>1, <2>2, <2>3
  <2>5. Lasting
    BY <2>2, <2>3, <2>4, RowShapes DEF Lasting
  <2>6. /\ \A k \in Listings : listing'[k] # NoListing => item[listing'[k].item] # Nobody
        /\ \A o \in Offers : offer'[o] # NoOffer => item[offer'[o].item] # Nobody
    BY <2>2, <2>3, <2>4, RowShapes
  <2>. QED  BY <1>1, <2>2, <2>4, <2>5, <2>6, NftRestKeeps, MarketKeeps
<1>3. CASE \E l \in Listings : Lapse(l)
  <2>1. /\ UNCHANGED <<collection, item, listing, offer, deeds, minter, ncall, deals>>
        /\ lapsed' \subseteq Listings
    BY <1>1, <1>3 DEF Lapse
  <2>2. Orderly
    BY <2>1, StillKeeps, NftRestKeeps
  <2>. QED  BY <1>1, <2>1, <2>2, RowShapes, MarketKeeps
<1>4. CASE \E o \in Offers, i \in Items, u \in Traders : CreateOffer(o, i, u)
  <2>1. PICK o \in Offers, i \in Items, u \in Traders : CreateOffer(o, i, u)
    BY <1>4
  <2>. DEFINE row == [item |-> i, buyer |-> u, status |-> "pending"]
  <2>2. /\ UNCHANGED <<collection, item, listing, lapsed, deeds, minter, ncall, deals>>
        /\ item[i] # Nobody /\ offer' = [offer EXCEPT ![o] = row]
    BY <2>1 DEF CreateOffer
  <2>3. row \in OfferRow /\ row.item = i
    BY DEF OfferRow
  <2>. HIDE DEF row
  <2>4. /\ offer' \in [Offers -> OfferRow \cup {NoOffer}]
        /\ \A k \in Offers : offer'[k] = IF k = o THEN row ELSE offer[k]
    BY <1>1, <2>2, <2>3
  <2>5. Lasting
    BY <2>2, <2>3, <2>4, RowShapes DEF Lasting
  <2>6. /\ \A k \in Listings : listing'[k] # NoListing => item[listing'[k].item] # Nobody
        /\ \A k \in Offers : offer'[k] # NoOffer => item[offer'[k].item] # Nobody
    BY <2>2, <2>3, <2>4, RowShapes
  <2>. QED  BY <1>1, <2>2, <2>4, <2>5, <2>6, NftRestKeeps, MarketKeeps
<1>. QED  BY <1>2, <1>3, <1>4

-----------------------------------------------------------------------------
(* The induction *)

LEMMA NftInvNext == NftInv /\ [NftNext]_nftVars => NftInv'
<1>. SUFFICES ASSUME NftInv, [NftNext]_nftVars PROVE NftInv'
  OBVIOUS
<1>1. CASE UNCHANGED nftVars
  <2>1. /\ UNCHANGED <<collection, item, listing, offer, lapsed, deeds, minter, ncall, deals>>
        /\ deals' \in Nat
    BY <1>1 DEF nftVars, NftInv, NftTypeOK
  <2>2. Orderly
    BY <2>1, StillKeeps, NftRestKeeps
  <2>. QED  BY <2>1, <2>2, NftBeginKeeps, NftKeptIsInv
<1>2. CASE FillCollection \/ \E u \in Traders : CreateCollection(u)
  BY <1>2, CollectionKeeps, NftKeptIsInv
<1>3. CASE \/ \E l \in Listings : FillListing(l) \/ Lapse(l)
           \/ \E o \in Offers, i \in Items, u \in Traders : CreateOffer(o, i, u)
  BY <1>3, OffersKeep, NftKeptIsInv
<1>4. ASSUME NEW c \in NCalls, MintItem(c) PROVE NftInv'
  BY <1>4, MintReadKeeps, MintInsertKeeps, MintCountKeeps, NftKeptIsInv DEF MintItem
<1>5. ASSUME NEW c \in NCalls, Give(c) PROVE NftInv'
  BY <1>5, ReadsKeep, SetOwnerKeeps, RecordDeedKeeps, NftKeptIsInv DEF Give
<1>6. ASSUME NEW c \in NCalls, CreateListing(c) PROVE NftInv'
  BY <1>6, ReadsKeep, LocalKeeps, ListingsKeep, NftKeptIsInv DEF CreateListing
<1>7. ASSUME NEW c \in NCalls, BuyListing(c) \/ CancelListing(c) PROVE NftInv'
  BY <1>7, ReadsKeep, ListingsKeep, NftKeptIsInv DEF BuyListing, CancelListing
<1>8. ASSUME NEW c \in NCalls, AcceptOffer(c) PROVE NftInv'
  BY <1>8, ReadsKeep, LocalKeeps, AcceptKeeps, NftKeptIsInv DEF AcceptOffer
<1>9. ASSUME NEW c \in NCalls, NftFails(c) \/ NftSkips(c) PROVE NftInv'
  BY <1>9, LocalKeeps, NftKeptIsInv
<1>. QED  BY <1>1, <1>2, <1>3, <1>4, <1>5, <1>6, <1>7, <1>8, <1>9 DEF NftNext

\* NftInv holds in every reachable state.
THEOREM NftInvariant == NftSpec => []NftInv
<1>. QED  BY NftInvInit, NftInvNext, PTL DEF NftSpec

-----------------------------------------------------------------------------
(* The theorems *)

(* Rows and handlers are well typed whatever interleaves and fails: no      *)
(* handler changes a listing or an offer that is not there, and no item     *)
(* has an index beyond the room of Items (MintNFT, BuyListing, AcceptOffer).*)
THEOREM NftTypeCorrect == NftSpec => []NftTypeOK
<1>1. NftInv => NftTypeOK
  BY DEF NftInv
<1>. QED  BY <1>1, NftInvariant, PTL

(* A collection has at most max_supply items and a counter that does not    *)
(* exceed their number, for any number of concurrent mints, any maximum and *)
(* any failing statement (MintNFT).                                         *)
THEOREM ItemsAreBounded == NftSpec => []ItemsWithinMax
<1>. QED  BY InvBounds, NftInvariant, PTL

-----------------------------------------------------------------------------
(* One handler at a time, without failures.                                 *)
(*                                                                          *)
(* With one handler nothing changes between what CreateListing looked for   *)
(* and its INSERT, nor between the status BuyListing and CancelListing      *)
(* tested and their UPDATE.  The owner and the record of a transfer are     *)
(* written apart, and from the one to the other the handler itself knows    *)
(* whom the record of a sale will name.                                     *)

\* What may be left of the scripts.
Rest == [
    mint   |-> {<<"insert", "count">>, <<"count">>},
    give   |-> {<<"own", "deed">>, <<"deed">>},
    list   |-> {<<"look", "post">>, <<"post">>},
    buy    |-> {<<"sell", "own", "deed">>, <<"own", "deed">>, <<"deed">>},
    cancel |-> {<<"cancel">>},
    accept |-> {<<"title", "own", "accept", "clearOffers", "clearListings", "deed">>,
                <<"own", "accept", "clearOffers", "clearListings", "deed">>,
                <<"accept", "clearOffers", "clearListings", "deed">>,
                <<"clearOffers", "clearListings", "deed">>,
                <<"clearListings", "deed">>, <<"deed">>}]

\* Between the new owner and the record of it.
Unrecorded == {"accept", "clearOffers", "clearListings", "deed"}

Owing(r) == r.todo # <<>> /\ Head(r.todo) \in Unrecorded

Active(l, i) == listing[l].status = "active" /\ listing[l].item = i

\* Whose item i may be by its records: after a Transfer's, anybody's.
Titled(i) ==
    IF deeds[i] = <<>> THEN {minter[i]}
    ELSE IF deeds[i][Len(deeds[i])] = Nobody THEN Traders ELSE {deeds[i][Len(deeds[i])]}

\* What the handler in state r found out still holds.
DealFits(r) ==
    r # NIdle =>
        /\ r.todo \in Rest[r.op]
        /\ Head(r.todo) = "post" => \A l \in Listings : ~Active(l, r.item)
        /\ Head(r.todo) \in {"sell", "cancel"} => listing[r.row].status = "active"

SoldOnce ==
    \A i \in Items, l, m \in Listings : Active(l, i) /\ Active(m, i) => l = m

TitleFits(r) ==
    \A i \in Items :
        IF item[i] = Nobody THEN deeds[i] = <<>>
        ELSE item[i] \in IF Owing(r) /\ r.item = i THEN {r.to} ELSE Titled(i)

MarketFits(r) == DealFits(r) /\ SoldOnce /\ TitleFits(r)

SoloMarket(c) == NftInv /\ MarketFits(ncall[c])

-----------------------------------------------------------------------------
(* One handler: its statements in order *)

LEMMA ShortTuples ==
    ASSUME NEW a, NEW b, NEW c
    PROVE  /\ Head(<<a>>) = a /\ Tail(<<a>>) = <<>> /\ <<a>> # <<>>
           /\ Head(<<a, b>>) = a /\ Tail(<<a, b>>) = <<b>> /\ <<a, b>> # <<>>
           /\ Head(<<a, b, c>>) = a /\ Tail(<<a, b, c>>) = <<b, c>> /\ <<a, b, c>> # <<>>
OBVIOUS

LEMMA LongTuples ==
    ASSUME NEW a, NEW b, NEW c, NEW d, NEW e, NEW f
    PROVE  /\ Head(<<a, b, c, d>>) = a /\ Tail(<<a, b, c, d>>) = <<b, c, d>>
           /\ <<a, b, c, d>> # <<>>
           /\ Head(<<a, b, c, d, e>>) = a /\ Tail(<<a, b, c, d, e>>) = <<b, c, d, e>>
           /\ <<a, b, c, d, e>> # <<>>
           /\ Head(<<a, b, c, d, e, f>>) = a /\ Tail(<<a, b, c, d, e, f>>) = <<b, c, d, e, f>>
           /\ <<a, b, c, d, e, f>> # <<>>
OBVIOUS

\* q begins with st, and next comes after it, or nothing.
Runs(op, q, st, next) ==
    /\ q # <<>> /\ Head(q) = st
    /\ IF next = "end" THEN Tail(q) = <<>>
       ELSE Tail(q) # <<>> /\ Tail(q) \in Rest[op] /\ Head(Tail(q)) = next

\* The scripts with one or two statements.
LEMMA ShortRest ==
    /\ \A q \in Rest["mint"] :
          Runs("mint", q, "insert", "count") \/ Runs("mint", q, "count", "end")
    /\ \A q \in Rest["give"] :
          Runs("give", q, "own", "deed") \/ Runs("give", q, "deed", "end")
    /\ \A q \in Rest["list"] :
          Runs("list", q, "look", "post") \/ Runs("list", q, "post", "end")
    /\ \A q \in Rest["cancel"] : Runs("cancel", q, "cancel", "end")
<1>1. /\ Rest["mint"] = {<<"insert", "count">>, <<"count">>}
      /\ Rest["give"] = {<<"own", "deed">>, <<"deed">>}
      /\ Rest["list"] = {<<"look", "post">>, <<"post">>}
      /\ Rest["cancel"] = {<<"cancel">>}
  BY DEF Rest
<1>2. ASSUME NEW op, NEW st, NEW next, next # "end", <<next>> \in Rest[op]
      PROVE  Runs(op, <<st, next>>, st, next)
  BY <1>2, ShortTuples DEF Runs
<1>3. \A op, st : Runs(op, <<st>>, st, "end")
  BY ShortTuples DEF Runs
<1>. QED  BY <1>1, <1>2, <1>3

LEMMA BuyRest ==
    ASSUME NEW q \in Rest["buy"]
    PROVE  \/ Runs("buy", q, "sell", "own") \/ Runs("buy", q, "own", "deed")
           \/ Runs("buy", q, "deed", "end")
<1>1. Rest["buy"] = {<<"sell", "own", "deed">>, <<"own", "deed">>, <<"deed">>}
  BY DEF Rest
<1>2. q = <<"sell", "own", "deed">> => Runs("buy", q, "sell", "own")
  BY <1>1, ShortTuples DEF Runs
<1>3. q = <<"own", "deed">> => Runs("buy", q, "own", "deed")
  BY <1>1, ShortTuples DEF Runs
<1>4. q = <<"deed">> => Runs("buy", q, "deed", "end")
  BY ShortTuples DEF Runs
<1>. QED  BY <1>1, <1>2, <1>3, <1>4

LEMMA AcceptRest ==
    ASSUME NEW q \in Rest["accept"]
    PROVE  \/ Runs("accept", q, "title", "own") \/ Runs("accept", q, "own", "accept")
           \/ Runs("accept", q, "accept", "clearOffers")
           \/ Runs("accept", q, "clearOffers", "clearListings")
           \/ Runs("accept", q, "clearListings", "deed") \/ Runs("accept", q, "deed", "end")
<1>1. Rest["accept"] =
         {<<"title", "own", "accept", "clearOffers", "clearListings", "deed">>,
          <<"own", "accept", "clearOffers", "clearListings", "deed">>,
          <<"accept", "clearOffers", "clearListings", "deed">>,
          <<"clearOffers", "clearListings", "deed">>, <<"clearListings", "deed">>, <<"deed">>}
  BY DEF Rest
<1>2. q = <<"title", "own", "accept", "clearOffers", "clearListings", "deed">> =>
         Runs("accept", q, "title", "own")
  BY <1>1, LongTuples DEF Runs
<1>3. q = <<"own", "accept", "clearOffers", "clearListings", "deed">> =>
         Runs("accept", q, "own", "accept")
  BY <1>1, LongTuples DEF Runs
<1>4. q = <<"accept", "clearOffers", "clearListings", "deed">> =>
         Runs("accept", q, "accept", "clearOffers")
  BY <1>1, LongTuples, ShortTuples DEF Runs
<1>5. q = <<"clearOffers", "clearListings", "deed">> =>
         Runs("accept", q, "clearOffers", "clearListings")
  BY <1>1, ShortTuples DEF Runs
<1>6. q = <<"clearListings", "deed">> => Runs("accept", q, "clearListings", "deed")
  BY <1>1, ShortTuples DEF Runs
<1>7. q = <<"deed">> => Runs("accept", q, "deed", "end")
  BY ShortTuples DEF Runs
<1>. QED  BY <1>1, <1>2, <1>3, <1>4, <1>5, <1>6, <1>7

\* What comes after statement st, in whatever script.
NextAfter(st) ==
    CASE st = "insert" -> {"count"}
      [] st = "look" -> {"post"}
      [] st \in {"sell", "title"} -> {"own"}
      [] st = "own" -> {"deed", "accept"}
      [] st = "accept" -> {"clearOffers"}
      [] st = "clearOffers" -> {"clearListings"}
      [] st = "clearListings" -> {"deed"}
      [] OTHER -> {"end"}

LEMMA RestRuns ==
    ASSUME NEW op \in DOMAIN NScript, NEW q \in Rest[op]
    PROVE  \E st, next : Runs(op, q, st, next) /\ next \in NextAfter(st)
<1>1. op \in {"mint", "give", "list", "buy", "cancel", "accept"}
  BY DEF NScript
<1>2. CASE op \in {"mint", "give", "list", "cancel"}
  <2>1. \/ Runs(op, q, "insert", "count") \/ Runs(op, q, "count", "end")
        \/ Runs(op, q, "own", "deed") \/ Runs(op, q, "deed", "end")
        \/ Runs(op, q, "look", "post") \/ Runs(op, q, "post", "end")
        \/ Runs(op, q, "cancel", "end")
    BY <1>2, ShortRest
  <2>. QED  BY <2>1 DEF NextAfter
<1>3. CASE op = "buy"
  BY <1>3, BuyRest DEF NextAfter
<1>4. CASE op = "accept"
  <2>1. \/ Runs(op, q, "title", "own") \/ Runs(op, q, "own", "accept")
        \/ Runs(op, q, "accept", "clearOffers")
        \/ Runs(op, q, "clearOffers", "clearListings")
        \/ Runs(op, q, "clearListings", "deed") \/ Runs(op, q, "deed", "end")
    BY <1>4, AcceptRest
  <2>. QED  BY <2>1 DEF NextAfter
<1>. QED  BY <1>1, <1>2, <1>3, <1>4

\* s is r after its statement st.
OnTo(r, st, s) ==
    \/ s = NIdle /\ "end" \in NextAfter(st)
    \/ /\ s # NIdle /\ s.op = r.op /\ s.item = r.item /\ s.user = r.user /\ s.to = r.to
       /\ s.row = r.row
       /\ s.todo # <<>> /\ s.todo \in Rest[s.op] /\ Head(s.todo) \in NextAfter(st)

\* The handler about to issue a statement.
LEMMA MarketAt ==
    ASSUME NEW c \in NCalls, SoloMarket(c), NEW st, Turn(c, st)
    PROVE  \E r :
              /\ r = ncall[c] /\ r # NIdle /\ r \in NCallState /\ r.item \in Items
              /\ r.to \in Traders /\ r.user \in Traders /\ r.op \in DOMAIN NScript
              /\ r.todo \in Rest[r.op] /\ r.todo # <<>> /\ Head(r.todo) = st
              /\ MarketFits(r)
              /\ r.op # "mint" => DealOK(item, listing, offer, r)
<1>1. PICK r : r = ncall[c]
  OBVIOUS
<1>2. /\ r # NIdle /\ r \in NCallState /\ r.todo # <<>> /\ Head(r.todo) = st
      /\ r.op # "mint" => DealOK(item, listing, offer, r)
  BY <1>1, NftAtStage DEF SoloMarket
<1>3. /\ r.item \in Items /\ r.to \in Traders /\ r.user \in Traders
      /\ r.op \in DOMAIN NScript
  BY <1>2 DEF NCallState
<1>4. MarketFits(r) /\ r.todo \in Rest[r.op]
  BY <1>1, <1>2 DEF SoloMarket, MarketFits, DealFits
<1>. QED  BY <1>1, <1>2, <1>3, <1>4

\* The handler after a statement.
LEMMA SoloOn ==
    ASSUME NEW c \in NCalls, SoloMarket(c), NEW st, Turn(c, st), NAdvance(c),
           NEW r, r = ncall[c]
    PROVE  \E s : ncall'[c] = s /\ OnTo(r, st, s)
<1>1. /\ r # NIdle /\ r \in NCallState /\ r.op \in DOMAIN NScript /\ r.todo \in Rest[r.op]
      /\ Head(r.todo) = st
  BY MarketAt
<1>2. PICK next : Runs(r.op, r.todo, st, next) /\ next \in NextAfter(st)
  <2>1. PICK st2, next : Runs(r.op, r.todo, st2, next) /\ next \in NextAfter(st2)
    BY <1>1, RestRuns
  <2>2. st2 = st
    BY <1>1, <2>1 DEF Runs
  <2>. QED  BY <2>1, <2>2
<1>3. PICK t : t = Tail(r.todo)
  OBVIOUS
<1>4. PICK s : s = IF t = <<>> THEN NIdle ELSE [r EXCEPT !.todo = t]
  OBVIOUS
<1>5. ncall'[c] = s
  BY <1>3, <1>4 DEF NAdvance, SoloMarket, NftInv, NftTypeOK
<1>6. CASE t = <<>>
  <2>1. next = "end"
    BY <1>2, <1>3, <1>6 DEF Runs
  <2>. QED  BY <1>2, <1>4, <1>5, <1>6, <2>1 DEF OnTo
<1>7. CASE t # <<>>
  <2>1. next # "end" /\ t \in Rest[r.op] /\ Head(t) = next
    BY <1>2, <1>3, <1>7 DEF Runs
  <2>2. /\ s.op = r.op /\ s.item = r.item /\ s.user = r.user /\ s.to = r.to
        /\ s.row = r.row /\ s.todo = t
    BY <1>1, <1>4, <1>7 DEF NCallState
  <2>3. s # NIdle
    BY <1>7, <2>2 DEF NIdle
  <2>. QED  BY <1>2, <1>5, <1>7, <2>1, <2>2, <2>3 DEF OnTo
<1>. QED  BY <1>6, <1>7

\* A handler that returned.
LEMMA SoloBack ==
    ASSUME NEW c \in NCalls, SoloMarket(c), NReturn(c)
    PROVE  ncall'[c] = NIdle
BY DEF NReturn, SoloMarket, NftInv, NftTypeOK

LEMMA IdleFits ==
    /\ DealFits(NIdle)' /\ ~Owing(NIdle)
BY DEF DealFits, Owing, NIdle

\* A handler whose next statement relies on no listing.
LEMMA FreeDeal ==
    ASSUME NEW s, s.todo \in Rest[s.op], Head(s.todo) \notin {"post", "sell", "cancel"}
    PROVE  DealFits(s)'
BY DEF DealFits

\* No item changes hands and no listing becomes active.
LEMMA QuietFits ==
    ASSUME NEW r, NEW s, SoldOnce, TitleFits(r), UNCHANGED <<item, deeds, minter>>,
           Owing(s) => Owing(r) /\ s.item = r.item /\ s.to = r.to,
           Owing(r) => Owing(s),
           \A l \in Listings : listing'[l].status = "active" =>
              listing[l].status = "active" /\ listing'[l].item = listing[l].item
    PROVE  SoldOnce' /\ TitleFits(s)'
<1>1. SoldOnce'
  BY DEF SoldOnce, Active
<1>2. \A i \in Items : Titled(i)' = Titled(i)
  BY DEF Titled
<1>3. TitleFits(s)'
  BY <1>2 DEF TitleFits
<1>. QED  BY <1>1, <1>3

-----------------------------------------------------------------------------
(* One handler: the steps *)

\* Nothing outside the handlers makes a listing active or ends one.
LEMMA SoloWorld ==
    ASSUME NEW c \in NCalls, SoloMarket(c), ncall' = ncall,
           UNCHANGED <<item, deeds, minter>>,
           \A l \in Listings : /\ listing'[l].status = listing[l].status
                               /\ listing'[l].item = listing[l].item
    PROVE  MarketFits(ncall[c])'
<1>1. PICK r : r = ncall[c]
  OBVIOUS
<1>2. MarketFits(r) /\ NCallOK(collection, item, listing, offer, r)
  BY <1>1 DEF SoloMarket, NftInv, NCallsOK
<1>3. SoldOnce' /\ TitleFits(r)'
  BY <1>2, QuietFits DEF MarketFits
<1>4. DealFits(r)'
  <2>. SUFFICES ASSUME r # NIdle PROVE DealFits(r)'
    BY DEF DealFits
  <2>1. /\ r.todo \in Rest[r.op]
        /\ Head(r.todo) = "post" => \A l \in Listings : ~Active(l, r.item)'
    BY <1>2 DEF MarketFits, DealFits, Active
  <2>2. Head(r.todo) \in {"sell", "cancel"} => listing'[r.row].status = "active"
    <3>1. SUFFICES ASSUME Head(r.todo) \in {"sell", "cancel"}
                   PROVE  listing'[r.row].status = "active"
      OBVIOUS
    <3>2. /\ r.op \in DOMAIN NScript /\ r.todo \in Rest[r.op]
          /\ listing[r.row].status = "active"
      BY <1>2, <3>1 DEF NCallOK, NCallState, MarketFits, DealFits
    <3>3. r.op \in {"buy", "cancel"}
      <4>1. \A q \in Rest["mint"] \cup Rest["give"] \cup Rest["list"] :
               Head(q) \notin {"sell", "cancel"}
        BY ShortRest DEF Runs
      <4>2. \A q \in Rest["accept"] : Head(q) \notin {"sell", "cancel"}
        BY AcceptRest DEF Runs
      <4>. QED  BY <3>1, <3>2, <4>1, <4>2 DEF NScript
    <3>4. r.row \in Listings
      BY <1>2, <3>3 DEF NCallOK, DealOK
    <3>. QED  BY <3>2, <3>4
  <2>. QED  BY <2>1, <2>2 DEF DealFits
<1>. QED  BY <1>1, <1>2, <1>3, <1>4 DEF MarketFits

\* A handler starts: BuyListing and CancelListing with an active listing.
LEMMA SoloOpen ==
    ASSUME NEW c \in NCalls, SoloMarket(c), NEW op \in DOMAIN NScript, NEW i, NEW u, NEW v,
           NEW w, Open(c, op, i, u, v, w), UNCHANGED <<item, listing, deeds, minter>>,
           op \in {"buy", "cancel"} => listing[w].status = "active"
    PROVE  MarketFits(ncall[c])'
<1>1. ncall[c] = NIdle
  BY DEF Open
<1>2. PICK s : s = [op |-> op, item |-> i, user |-> u, to |-> v, row |-> w,
                    todo |-> NScript[op]]
  OBVIOUS
<1>3. ncall'[c] = s
  BY <1>2 DEF Open, SoloMarket, NftInv, NftTypeOK
<1>4. s.op = op /\ s.row = w /\ s.todo = NScript[op]
  BY <1>2
<1>5. /\ NScript[op] \in Rest[op] /\ NScript[op] # <<>>
      /\ Head(NScript[op]) \in {"insert", "own", "look", "sell", "cancel", "title"}
      /\ Head(NScript[op]) \in {"sell", "cancel"} => op \in {"buy", "cancel"}
  <2>1. CASE op \in {"mint", "give", "list"}
    <3>1. NScript[op] \in Rest[op]
      BY <2>1 DEF NScript, Rest
    <3>2. Head(NScript[op]) \in {"insert", "own", "look"} /\ NScript[op] # <<>>
      BY <2>1, ShortTuples DEF NScript
    <3>. QED  BY <3>1, <3>2
  <2>2. CASE op \in {"buy", "cancel"}
    <3>1. NScript[op] \in Rest[op]
      BY <2>2 DEF NScript, Rest
    <3>2. Head(NScript[op]) \in {"sell", "cancel"} /\ NScript[op] # <<>>
      BY <2>2, ShortTuples DEF NScript
    <3>. QED  BY <2>2, <3>1, <3>2
  <2>3. CASE op = "accept"
    <3>1. NScript[op] \in Rest[op]
      BY <2>3 DEF NScript, Rest
    <3>2. Head(NScript[op]) = "title" /\ NScript[op] # <<>>
      BY <2>3, LongTuples DEF NScript
    <3>. QED  BY <3>1, <3>2
  <2>. QED  BY <2>1, <2>2, <2>3 DEF NScript
<1>6. DealFits(s)'
  BY <1>4, <1>5 DEF DealFits
<1>7. ~Owing(s) /\ ~Owing(NIdle)
  BY <1>4, <1>5, IdleFits DEF Owing, Unrecorded
<1>8. SoldOnce' /\ TitleFits(s)'
  BY <1>1, <1>7, QuietFits DEF SoloMarket, MarketFits
<1>. QED  BY <1>3, <1>6, <1>8 DEF MarketFits

\* A statement of one handler that leaves the items alone and activates nothing.
LEMMA SoloQuiet ==
    ASSUME NEW c \in NCalls, SoloMarket(c), NEW st, Turn(c, st),
           st \notin {"insert", "own", "deed", "look", "post"},
           NAdvance(c), UNCHANGED <<item, deeds, minter>>,
           \A l \in Listings : listing'[l].status = "active" =>
              listing[l].status = "active" /\ listing'[l].item = listing[l].item
    PROVE  MarketFits(ncall[c])'
<1>1. PICK r : /\ r = ncall[c] /\ MarketFits(r) /\ r.todo # <<>> /\ Head(r.todo) = st
  BY MarketAt
<1>2. PICK s : ncall'[c] = s /\ OnTo(r, st, s)
  BY <1>1, SoloOn
<1>3. CASE s = NIdle
  <2>1. st \notin Unrecorded
    <3>1. "end" \in NextAfter(st)
      BY <1>2, <1>3 DEF OnTo, NIdle
    <3>. QED  BY <3>1 DEF NextAfter, Unrecorded
  <2>2. ~Owing(r)
    BY <1>1, <2>1 DEF Owing
  <2>. QED  BY <1>1, <1>2, <1>3, <2>2, IdleFits, QuietFits DEF MarketFits
<1>4. CASE s # NIdle
  <2>1. /\ s.item = r.item /\ s.to = r.to /\ s.todo \in Rest[s.op] /\ s.todo # <<>>
        /\ Head(s.todo) \in NextAfter(st)
    BY <1>2, <1>4 DEF OnTo
  <2>2. /\ Head(s.todo) \notin {"post", "sell", "cancel"}
        /\ Head(s.todo) \in Unrecorded <=> st \in Unrecorded
    BY <2>1 DEF NextAfter, Unrecorded
  <2>3. Owing(s) <=> Owing(r)
    BY <1>1, <2>1, <2>2 DEF Owing
  <2>. QED  BY <1>1, <1>2, <2>1, <2>2, <2>3, FreeDeal, QuietFits DEF MarketFits
<1>. QED  BY <1>3, <1>4

\* A statement after which a handler that owes no record gives up.
LEMMA SoloGivesUp ==
    ASSUME NEW c \in NCalls, SoloMarket(c), NEW st, Turn(c, st), st \notin Unrecorded,
           NReturn(c), UNCHANGED <<item, deeds, minter, listing>>
    PROVE  MarketFits(ncall[c])'
<1>1. PICK r : /\ r = ncall[c] /\ MarketFits(r) /\ r.todo # <<>> /\ Head(r.todo) = st
  BY MarketAt
<1>2. ncall'[c] = NIdle
  BY SoloBack
<1>3. ~Owing(r)
  BY <1>1 DEF Owing
<1>. QED  BY <1>1, <1>2, <1>3, IdleFits, QuietFits DEF MarketFits

\* After its last statement a handler is done.
LEMMA EndsIdle ==
    ASSUME NEW r, NEW s, NEW st, r.op \in DOMAIN NScript, OnTo(r, st, s),
           st \in {"count", "deed", "post", "cancel"}
    PROVE  s = NIdle
<1>. SUFFICES ASSUME s # NIdle PROVE FALSE
  OBVIOUS
<1>1. s.op \in {"mint", "give", "list", "buy", "cancel", "accept"} /\ s.todo \in Rest[s.op]
  BY DEF OnTo, NScript
<1>2. Head(s.todo) = "end"
  BY DEF OnTo, NextAfter
<1>3. CASE s.op \in {"mint", "give", "list", "cancel"}
  BY <1>1, <1>2, <1>3, ShortRest DEF Runs
<1>4. CASE s.op = "buy"
  BY <1>1, <1>2, <1>4, BuyRest DEF Runs
<1>5. CASE s.op = "accept"
  BY <1>1, <1>2, <1>5, AcceptRest DEF Runs
<1>. QED  BY <1>1, <1>3, <1>4, <1>5

\* The INSERT of an item: whom it was minted to is who has it.
LEMMA SoloInsert ==
    ASSUME NEW c \in NCalls, SoloMarket(c), MintInsert(c)
    PROVE  MarketFits(ncall[c])'
<1>1. PICK r : /\ r = ncall[c] /\ r.item \in Items /\ r.to \in Traders /\ MarketFits(r)
               /\ r.todo # <<>> /\ Head(r.todo) = "insert"
  BY MarketAt DEF MintInsert
<1>2. CASE NReturn(c) /\ UNCHANGED <<item, minter>>
  <2>1. Turn(c, "insert") /\ "insert" \notin Unrecorded /\ UNCHANGED <<item, deeds, minter, listing>>
    BY <1>2 DEF MintInsert, Unrecorded
  <2>. QED  BY <1>2, <2>1, SoloGivesUp
<1>3. CASE /\ item[r.item] = Nobody /\ NAdvance(c)
           /\ item' = [item EXCEPT ![r.item] = r.to]
           /\ minter' = [minter EXCEPT ![r.item] = r.to]
  <2>1. UNCHANGED <<listing, deeds>> /\ Turn(c, "insert")
    BY DEF MintInsert
  <2>2. PICK s : ncall'[c] = s /\ OnTo(r, "insert", s)
    BY <1>1, <1>3, <2>1, SoloOn
  <2>3. s.todo \in Rest[s.op] /\ s.todo # <<>> /\ Head(s.todo) = "count"
    BY <2>2 DEF OnTo, NextAfter
  <2>4. ~Owing(r) /\ ~Owing(s)
    BY <1>1, <2>3 DEF Owing, Unrecorded
  <2>5. /\ item' \in [Items -> Traders \cup {Nobody}]
        /\ item'[r.item] = r.to /\ minter'[r.item] = r.to
        /\ \A i \in Items : i # r.item => item'[i] = item[i] /\ minter'[i] = minter[i]
    BY <1>1, <1>3 DEF SoloMarket, NftInv, NftTypeOK
  <2>6. TitleFits(s)'
    <3>1. deeds[r.item] = <<>> /\ r.to # Nobody
      BY <1>1, <1>3, NftConstantsOK DEF MarketFits, TitleFits
    <3>2. ASSUME NEW i \in Items
          PROVE  IF item'[i] = Nobody THEN deeds'[i] = <<>> ELSE item'[i] \in Titled(i)'
      <4>1. CASE i = r.item
        BY <2>1, <2>5, <3>1, <4>1 DEF Titled
      <4>2. CASE i # r.item
        BY <1>1, <2>1, <2>4, <2>5, <4>2 DEF Titled, MarketFits, TitleFits
      <4>. QED  BY <4>1, <4>2
    <3>. QED  BY <2>4, <3>2 DEF TitleFits
  <2>7. SoldOnce'
    BY <1>1, <2>1 DEF MarketFits, SoldOnce, Active
  <2>. QED  BY <2>2, <2>3, <2>6, <2>7, FreeDeal DEF MarketFits
<1>. QED  BY <1>1, <1>2, <1>3 DEF MintInsert

\* The owner changes; the handler owes the record of it.
LEMMA SoloOwner ==
    ASSUME NEW c \in NCalls, SoloMarket(c), SetOwner(c)
    PROVE  MarketFits(ncall[c])'
<1>1. PICK r : /\ r = ncall[c] /\ r.item \in Items /\ r.to \in Traders /\ MarketFits(r)
               /\ r.todo # <<>> /\ Head(r.todo) = "own"
  BY MarketAt DEF SetOwner
<1>2. /\ UNCHANGED <<listing, deeds, minter>> /\ NAdvance(c) /\ Turn(c, "own")
      /\ item' = [item EXCEPT ![r.item] = r.to]
  BY <1>1 DEF SetOwner
<1>3. PICK s : ncall'[c] = s /\ OnTo(r, "own", s)
  BY <1>1, <1>2, SoloOn
<1>4. /\ s.item = r.item /\ s.to = r.to /\ s.todo \in Rest[s.op] /\ s.todo # <<>>
      /\ Head(s.todo) \in {"deed", "accept"}
  BY <1>3 DEF OnTo, NextAfter
<1>5. ~Owing(r) /\ Owing(s)
  BY <1>1, <1>4 DEF Owing, Unrecorded
<1>6. /\ item'[r.item] = r.to /\ r.to # Nobody
      /\ \A i \in Items : i # r.item => item'[i] = item[i]
  BY <1>1, <1>2, NftConstantsOK DEF SoloMarket, NftInv, NftTypeOK
<1>7. \A i \in Items : Titled(i)' = Titled(i)
  BY <1>2 DEF Titled
<1>8. TitleFits(s)'
  BY <1>1, <1>2, <1>4, <1>5, <1>6, <1>7 DEF MarketFits, TitleFits
<1>9. SoldOnce'
  BY <1>1, <1>2 DEF MarketFits, SoldOnce, Active
<1>10. DealFits(s)'
  BY <1>4, FreeDeal
<1>. QED  BY <1>3, <1>8, <1>9, <1>10 DEF MarketFits

\* The record of a sale says who has the item.
LEMMA SoloDeed ==
    ASSUME NEW c \in NCalls, SoloMarket(c), RecordDeed(c)
    PROVE  MarketFits(ncall[c])'
<1>1. PICK r : /\ r = ncall[c] /\ r.item \in Items /\ r.to \in Traders /\ MarketFits(r)
               /\ r.op \in DOMAIN NScript /\ r.todo \in Rest[r.op]
               /\ r.todo # <<>> /\ Head(r.todo) = "deed"
               /\ r.op # "mint" => DealOK(item, listing, offer, r)
  BY MarketAt DEF RecordDeed
<1>2. /\ UNCHANGED <<item, listing, minter>> /\ NAdvance(c) /\ Turn(c, "deed")
      /\ deeds' = [deeds EXCEPT ![r.item] =
                      Append(@, IF r.op = "give" THEN Nobody ELSE r.to)]
  BY <1>1 DEF RecordDeed
<1>3. PICK s : ncall'[c] = s /\ OnTo(r, "deed", s)
  BY <1>1, <1>2, SoloOn
<1>4. s = NIdle
  BY <1>1, <1>3, EndsIdle
<1>5. Owing(r) /\ ~Owing(s)
  BY <1>1, <1>4, IdleFits DEF Owing, Unrecorded
<1>6. item[r.item] # Nobody
  <2>1. r.op # "mint"
    BY <1>1, ShortRest DEF Runs
  <2>. QED  BY <1>1, <2>1 DEF DealOK
<1>7. deeds \in [Items -> Seq(Traders \cup {Nobody})]
  BY DEF SoloMarket, NftInv, NftTypeOK
<1>8. /\ deeds'[r.item] # <<>> /\ deeds'[r.item][Len(deeds'[r.item])] \in {r.to, Nobody}
      /\ \A i \in Items : i # r.item => deeds'[i] = deeds[i]
  <2>1. PICK q, t : /\ q = deeds[r.item] /\ q \in Seq(Traders \cup {Nobody})
                    /\ t = IF r.op = "give" THEN Nobody ELSE r.to
    BY <1>1, <1>7
  <2>2. Append(q, t) # <<>> /\ Append(q, t)[Len(Append(q, t))] = t
    BY <1>1, <2>1
  <2>. QED  BY <1>1, <1>2, <1>7, <2>1, <2>2
<1>9. TitleFits(s)'
  <2>1. ASSUME NEW i \in Items
        PROVE  IF item'[i] = Nobody THEN deeds'[i] = <<>> ELSE item'[i] \in Titled(i)'
    <3>1. CASE i = r.item
      <4>1. item[i] = r.to
        BY <1>1, <1>5, <1>6, <3>1 DEF MarketFits, TitleFits
      <4>2. r.to \in Titled(i)'
        BY <1>1, <1>8, <3>1 DEF Titled
      <4>. QED  BY <1>2, <1>6, <3>1, <4>1, <4>2
    <3>2. CASE i # r.item
      <4>1. Titled(i)' = Titled(i)
        BY <1>2, <1>8, <3>2 DEF Titled
      <4>. QED  BY <1>1, <1>2, <1>8, <3>2, <4>1 DEF MarketFits, TitleFits
    <3>. QED  BY <3>1, <3>2
  <2>. QED  BY <1>5, <2>1 DEF TitleFits
<1>10. SoldOnce'
  BY <1>1, <1>2 DEF MarketFits, SoldOnce, Active
<1>. QED  BY <1>3, <1>4, <1>9, <1>10, IdleFits DEF MarketFits

\* A row of a listing that a statement updates.
LEMMA RowEnds ==
    ASSUME NftInv, NEW w \in Listings, listing[w].status = "active", NEW row,
           row.status # "active", listing' = [listing EXCEPT ![w] = row]
    PROVE  /\ \A l \in Listings : listing'[l].status = "active" =>
                 listing[l].status = "active" /\ listing'[l].item = listing[l].item
           /\ ListingSettled
<1>1. listing'[w] = row /\ \A l \in Listings : l # w => listing'[l] = listing[l]
  BY DEF NftInv, NftTypeOK
<1>2. \A l \in Listings : listing'[l].status = "active" => l # w
  BY <1>1
<1>3. \A l \in Listings : listing[l].status \in {"sold", "cancelled"} => l # w
  OBVIOUS
<1>. QED  BY <1>1, <1>2, <1>3 DEF ListingSettled

\* The row a purchase or a cancellation works on is still active.
LEMMA RowAt ==
    ASSUME NEW c \in NCalls, SoloMarket(c), Turn(c, "sell") \/ Turn(c, "cancel")
    PROVE  LET w == ncall[c].row IN
           /\ w \in Listings /\ listing[w] \in ListingRow /\ listing[w].status = "active"
<1>1. PICK st : st \in {"sell", "cancel"} /\ Turn(c, st)
  OBVIOUS
<1>2. PICK r : /\ r = ncall[c] /\ r # NIdle /\ MarketFits(r) /\ r.op \in DOMAIN NScript
               /\ r.todo \in Rest[r.op] /\ Head(r.todo) = st
               /\ r.op # "mint" => DealOK(item, listing, offer, r)
  BY <1>1, MarketAt
<1>3. r.op \in {"buy", "cancel"}
  <2>1. \A q \in Rest["mint"] \cup Rest["give"] \cup Rest["list"] :
           Head(q) \notin {"sell", "cancel"}
    BY ShortRest DEF Runs
  <2>2. \A q \in Rest["accept"] : Head(q) \notin {"sell", "cancel"}
    BY AcceptRest DEF Runs
  <2>. QED  BY <1>1, <1>2, <2>1, <2>2 DEF NScript
<1>4. r.row \in Listings /\ listing[r.row] # NoListing
  BY <1>2, <1>3 DEF DealOK
<1>5. listing[r.row].status = "active"
  BY <1>1, <1>2 DEF MarketFits, DealFits
<1>6. listing[r.row] \in ListingRow
  BY <1>4, RowShapes DEF SoloMarket
<1>. QED  BY <1>2, <1>4, <1>5, <1>6

\* A purchase, a cancellation and an accepted offer end what is active.
LEMMA SoloEnds ==
    ASSUME NEW c \in NCalls, SoloMarket(c),
           BuySell(c) \/ CancelWrite(c) \/ AcceptClearListings(c)
    PROVE  MarketFits(ncall[c])' /\ ListingSettled
<1>1. PICK st : /\ st \in {"sell", "cancel", "clearListings"} /\ Turn(c, st)
                /\ st = "sell" => BuySell(c)
                /\ st = "cancel" => CancelWrite(c)
                /\ st = "clearListings" => AcceptClearListings(c)
  BY DEF BuySell, CancelWrite, AcceptClearListings
<1>2. NAdvance(c) /\ UNCHANGED <<item, deeds, minter>>
  BY DEF BuySell, CancelWrite, AcceptClearListings
<1>3. /\ \A l \in Listings : listing'[l].status = "active" =>
            listing[l].status = "active" /\ listing'[l].item = listing[l].item
      /\ ListingSettled
  <2>1. CASE st = "sell"
    <3>1. PICK w : /\ w = ncall[c].row /\ w \in Listings /\ listing[w] \in ListingRow
                   /\ listing[w].status = "active"
      BY <1>1, <2>1, RowAt
    <3>2. PICK row : row = [listing[w] EXCEPT !.status = "sold", !.buyer = ncall[c].to,
                                              !.filled = TRUE]
      OBVIOUS
    <3>3. row.status = "sold"
      BY <3>1, <3>2 DEF ListingRow
    <3>4. listing' = [listing EXCEPT ![w] = row]
      BY <1>1, <2>1, <3>1, <3>2 DEF BuySell
    <3>. QED  BY <3>1, <3>3, <3>4, RowEnds DEF SoloMarket
  <2>2. CASE st = "cancel"
    <3>1. PICK w : /\ w = ncall[c].row /\ w \in Listings /\ listing[w] \in ListingRow
                   /\ listing[w].status = "active"
      BY <1>1, <2>2, RowAt
    <3>2. PICK row : row = [listing[w] EXCEPT !.status = "cancelled"]
      OBVIOUS
    <3>3. row.status = "cancelled"
      BY <3>1, <3>2 DEF ListingRow
    <3>4. listing' = [listing EXCEPT ![w] = row]
      BY <1>1, <2>2, <3>1, <3>2 DEF CancelWrite
    <3>. QED  BY <3>1, <3>3, <3>4, RowEnds DEF SoloMarket
  <2>3. CASE st = "clearListings"
    <3>1. DOMAIN listing = Listings
          /\ \A l \in Listings : listing[l] \in ListingRow \cup {NoListing}
      BY DEF SoloMarket, NftInv, NftTypeOK
    <3>2. \A l \in Listings :
             listing'[l] = IF listing[l].status = "active" /\ listing[l].item = ncall[c].item
                           THEN [listing[l] EXCEPT !.status = "cancelled"] ELSE listing[l]
      BY <1>1, <2>3, <3>1 DEF AcceptClearListings
    <3>3. \A l \in Listings : [listing[l] EXCEPT !.status = "cancelled"].status = "cancelled"
      BY <3>1 DEF ListingRow, NoListing
    <3>. QED  BY <3>2, <3>3 DEF ListingSettled
  <2>. QED  BY <1>1, <2>1, <2>2, <2>3
<1>. QED  BY <1>1, <1>2, <1>3, SoloQuiet

\* CreateListing looks for an active listing and finds none.
LEMMA SoloLook ==
    ASSUME NEW c \in NCalls, SoloMarket(c), ListLook(c)
    PROVE  MarketFits(ncall[c])'
<1>1. PICK r : /\ r = ncall[c] /\ MarketFits(r) /\ r.todo # <<>> /\ Head(r.todo) = "look"
  BY MarketAt DEF ListLook
<1>2. UNCHANGED <<item, listing, deeds, minter>> /\ Turn(c, "look")
  BY DEF ListLook
<1>3. CASE NReturn(c)
  BY <1>2, <1>3, SoloGivesUp DEF Unrecorded
<1>4. CASE NAdvance(c) /\ \A l \in Listings : ~Active(l, r.item)
  <2>1. PICK s : ncall'[c] = s /\ OnTo(r, "look", s)
    BY <1>1, <1>2, <1>4, SoloOn
  <2>2. s.item = r.item /\ s.todo \in Rest[s.op] /\ Head(s.todo) = "post"
    BY <2>1 DEF OnTo, NextAfter
  <2>3. ~Owing(r) /\ ~Owing(s)
    BY <1>1, <2>2 DEF Owing, Unrecorded
  <2>4. SoldOnce' /\ TitleFits(s)'
    BY <1>1, <1>2, <2>3, QuietFits DEF MarketFits
  <2>5. DealFits(s)'
    BY <1>2, <1>4, <2>2 DEF DealFits, Active
  <2>. QED  BY <2>1, <2>4, <2>5 DEF MarketFits
<1>. QED  BY <1>1, <1>3, <1>4 DEF ListLook, Active

\* The INSERT of the one active listing of the item.
LEMMA SoloPost ==
    ASSUME NEW c \in NCalls, SoloMarket(c), NEW w \in Listings, ListPost(c, w)
    PROVE  MarketFits(ncall[c])' /\ ListingSettled
<1>1. PICK r : /\ r = ncall[c] /\ r # NIdle /\ MarketFits(r) /\ r.op \in DOMAIN NScript
               /\ r.todo # <<>> /\ Head(r.todo) = "post"
  BY MarketAt DEF ListPost
<1>2. /\ UNCHANGED <<item, deeds, minter>> /\ NAdvance(c) /\ Turn(c, "post")
      /\ listing[w] = NoListing
  BY DEF ListPost
<1>3. PICK s : ncall'[c] = s /\ OnTo(r, "post", s)
  BY <1>1, <1>2, SoloOn
<1>4. s = NIdle
  BY <1>1, <1>3, EndsIdle
<1>5. PICK row : row = [item |-> r.item, seller |-> r.user, status |-> "active",
                        buyer |-> Nobody, filled |-> FALSE]
  OBVIOUS
<1>6. /\ listing'[w] = row /\ row.item = r.item
      /\ \A l \in Listings : l # w => listing'[l] = listing[l]
  BY <1>1, <1>5 DEF ListPost, SoloMarket, NftInv, NftTypeOK
<1>7. \A l \in Listings : ~Active(l, r.item)
  BY <1>1 DEF MarketFits, DealFits
<1>8. SoldOnce'
  <2>. SUFFICES ASSUME NEW i \in Items, NEW l \in Listings, NEW m \in Listings,
                       Active(l, i)', Active(m, i)'
                PROVE  l = m
    BY DEF SoldOnce
  <2>1. CASE l = w /\ m # w
    BY <1>6, <1>7, <2>1 DEF Active
  <2>2. CASE l # w /\ m = w
    BY <1>6, <1>7, <2>2 DEF Active
  <2>3. CASE l # w /\ m # w
    BY <1>1, <1>6, <2>3 DEF MarketFits, SoldOnce, Active
  <2>. QED  BY <2>1, <2>2, <2>3
<1>9. TitleFits(s)'
  <2>1. ~Owing(r) /\ ~Owing(s)
    BY <1>1, <1>4, IdleFits DEF Owing, Unrecorded
  <2>2. \A i \in Items : Titled(i)' = Titled(i)
    BY <1>2 DEF Titled
  <2>. QED  BY <1>1, <1>2, <2>1, <2>2 DEF MarketFits, TitleFits
<1>10. ListingSettled
  BY <1>2, <1>6 DEF ListingSettled, NoListing
<1>. QED  BY <1>3, <1>4, <1>8, <1>9, <1>10, IdleFits DEF MarketFits

\* The steps that touch no listing.
LEMMA SoloRests ==
    ASSUME NEW c \in NCalls, SoloMarket(c),
           \/ MintItem(c) \/ Give(c) \/ AcceptTitle(c) \/ AcceptMark(c) \/ AcceptClearOffers(c)
           \/ \E i \in Items, u \in Traders : ListRead(c, i, u)
           \/ \E l \in Listings, u \in Traders : BuyRead(c, l, u) \/ CancelRead(c, l, u)
           \/ \E o \in Offers, u \in Traders : AcceptRead(c, o, u)
    PROVE  MarketFits(ncall[c])' /\ UNCHANGED listing
<1>1. CASE MintInsert(c) \/ SetOwner(c) \/ RecordDeed(c)
  BY <1>1, SoloInsert, SoloOwner, SoloDeed DEF MintInsert, SetOwner, RecordDeed
<1>2. CASE MintCount(c) \/ AcceptMark(c) \/ AcceptClearOffers(c)
  <2>1. PICK st : st \in {"count", "accept", "clearOffers"} /\ Turn(c, st)
    BY <1>2 DEF MintCount, AcceptMark, AcceptClearOffers
  <2>2. NAdvance(c) /\ UNCHANGED <<item, deeds, minter, listing>>
    BY <1>2 DEF MintCount, AcceptMark, AcceptClearOffers
  <2>. QED  BY <2>1, <2>2, SoloQuiet
<1>3. CASE AcceptTitle(c)
  <2>1. Turn(c, "title") /\ UNCHANGED <<item, deeds, minter, listing>>
    BY <1>3 DEF AcceptTitle
  <2>2. NAdvance(c) \/ NReturn(c)
    BY <1>3 DEF AcceptTitle
  <2>. QED  BY <2>1, <2>2, SoloQuiet, SoloGivesUp DEF Unrecorded
<1>4. CASE \/ \E u, v \in Traders : MintRead(c, u, v)
           \/ \E i \in Items, u, v \in Traders : GiveRead(c, i, u, v)
           \/ \E i \in Items, u \in Traders : ListRead(c, i, u)
           \/ \E o \in Offers, u \in Traders : AcceptRead(c, o, u)
  <2>1. PICK op, i, u, v, w : op \in {"mint", "give", "list", "accept"} /\ Open(c, op, i, u, v, w)
    BY <1>4 DEF MintRead, GiveRead, ListRead, AcceptRead
  <2>2. UNCHANGED <<item, deeds, minter, listing>>
    BY <1>4 DEF MintRead, GiveRead, ListRead, AcceptRead
  <2>3. op \in DOMAIN NScript
    BY <2>1 DEF NScript
  <2>. QED  BY <2>1, <2>2, <2>3, SoloOpen
<1>5. CASE \E l \in Listings, u \in Traders : BuyRead(c, l, u) \/ CancelRead(c, l, u)
  <2>1. PICK op, i, u, v, w : /\ op \in {"buy", "cancel"} /\ Open(c, op, i, u, v, w)
                              /\ listing[w].status = "active"
    BY <1>5 DEF BuyRead, CancelRead
  <2>2. UNCHANGED <<item, deeds, minter, listing>>
    BY <1>5 DEF BuyRead, CancelRead
  <2>3. op \in DOMAIN NScript
    BY <2>1 DEF NScript
  <2>. QED  BY <2>1, <2>2, <2>3, SoloOpen
<1>. QED  BY <1>1, <1>2, <1>3, <1>4, <1>5 DEF MintItem, Give

LEMMA SoloStep ==
    ASSUME NEW c, NCalls = {c}, ~NftMayFail, SoloMarket(c), [NftNext]_nftVars
    PROVE  MarketFits(ncall[c])' /\ ListingSettled
<1>. c \in NCalls
  OBVIOUS
<1>1. CASE MintItem(c) \/ Give(c) \/ CreateListing(c) \/ BuyListing(c) \/ CancelListing(c)
           \/ AcceptOffer(c)
  <2>1. CASE BuySell(c) \/ CancelWrite(c) \/ AcceptClearListings(c)
    BY <2>1, SoloEnds
  <2>2. CASE \E l \in Listings : ListPost(c, l)
    BY <2>2, SoloPost
  <2>3. CASE ListLook(c)
    BY <2>3, SoloLook DEF ListLook, ListingSettled
  <2>4. CASE MarketFits(ncall[c])' /\ UNCHANGED listing
    BY <2>4 DEF ListingSettled
  <2>. QED  BY <1>1, <2>1, <2>2, <2>3, <2>4, SoloRests
            DEF CreateListing, BuyListing, CancelListing, AcceptOffer
<1>2. CASE \/ \E u \in Traders : CreateCollection(u)
           \/ FillCollection
           \/ \E l \in Listings : Lapse(l)
           \/ \E o \in Offers, i \in Items, u \in Traders : CreateOffer(o, i, u)
           \/ UNCHANGED nftVars
  <2>1. UNCHANGED <<item, deeds, minter, listing, ncall>>
    BY <1>2 DEF CreateCollection, FillCollection, Lapse, CreateOffer, nftVars
  <2>. QED  BY <2>1, SoloWorld DEF ListingSettled
<1>3. ASSUME NEW w \in Listings, FillListing(w)
      PROVE  MarketFits(ncall[c])' /\ ListingSettled
  <2>1. UNCHANGED <<item, deeds, minter, ncall>> /\ listing[w] # NoListing
    BY <1>3 DEF FillListing
  <2>2. PICK row : row = [listing[w] EXCEPT !.filled = TRUE]
    OBVIOUS
  <2>3. /\ row.status = listing[w].status /\ row.item = listing[w].item
        /\ row.buyer = listing[w].buyer
    BY <2>1, <2>2, RowShapes DEF SoloMarket, ListingRow
  <2>4. listing'[w] = row /\ \A l \in Listings : l # w => listing'[l] = listing[l]
    BY <1>3, <2>2 DEF FillListing, SoloMarket, NftInv, NftTypeOK
  <2>. QED  BY <2>1, <2>3, <2>4, SoloWorld DEF ListingSettled
<1>4. ~NftFails(c) /\ ~NftSkips(c)
  BY DEF NftFails, NftSkips
<1>. QED  BY <1>1, <1>2, <1>3, <1>4 DEF NftNext

LEMMA SoloStart ==
    ASSUME NEW c \in NCalls, NftInit
    PROVE  MarketFits(ncall[c])
<1>1. ncall[c] = NIdle /\ \A l \in Listings : listing[l].status = "none"
  BY DEF NftInit, NoListing
<1>2. TitleFits(NIdle)
  BY DEF NftInit, TitleFits
<1>3. SoldOnce
  BY <1>1 DEF SoldOnce, Active
<1>. QED  BY <1>1, <1>2, <1>3 DEF MarketFits, DealFits

\* What the invariant says between two operations.
LEMMA SoloSays ==
    ASSUME NEW c, NCalls = {c}, SoloMarket(c)
    PROVE  OneListing /\ SalesTellOwner
<1>1. MarketFits(ncall[c])
  BY DEF SoloMarket
<1>2. OneListing
  <2>. SUFFICES ASSUME NEW i \in Items
                PROVE  Cardinality({l \in Listings : Active(l, i)}) <= 1
    BY DEF OneListing, Active
  <2>. DEFINE S == {l \in Listings : Active(l, i)}
  <2>1. \A l, m \in S : l = m
    BY <1>1 DEF MarketFits, SoldOnce
  <2>2. S = {} \/ \E l : S = {l}
    BY <2>1
  <2>3. Cardinality({}) = 0 /\ \A l : Cardinality({l}) = 1
    BY FS_EmptySet, FS_Singleton
  <2>. HIDE DEF S
  <2>4. Cardinality(S) \in {0, 1}
    BY <2>2, <2>3
  <2>5. Cardinality(S) <= 1
    BY <2>4
  <2>. QED  BY <2>5 DEF S
<1>3. SalesTellOwner
  <2>. SUFFICES ASSUME ncall[c] = NIdle, NEW i \in Minted
                PROVE  IF deeds[i] = <<>> THEN item[i] = minter[i]
                       ELSE deeds[i][Len(deeds[i])] \in {item[i], Nobody}
    BY DEF SalesTellOwner
  <2>1. item[i] \in Titled(i)
    BY <1>1, IdleFits DEF MarketFits, TitleFits, Minted
  <2>. QED  BY <2>1 DEF Titled
<1>. QED  BY <1>2, <1>3

LEMMA SoloInvariant ==
    ASSUME NEW c, NCalls = {c}, ~NftMayFail
    PROVE  NftSpec => []SoloMarket(c)
<1>1. NftInit => SoloMarket(c)
  BY NftInvInit, SoloStart DEF SoloMarket
<1>2. SoloMarket(c) /\ [NftNext]_nftVars => SoloMarket(c)'
  BY NftInvNext, SoloStep DEF SoloMarket
<1>. QED  BY <1>1, <1>2, PTL DEF NftSpec

(* One operation at a time and without failures, an item is on sale at most *)
(* once, and between two operations it is with whom it was minted to if it  *)
(* has no transfer record, and with the buyer its last record names if that *)
(* one is of a sale, for any number of items, users, listings and offers    *)
(* (CreateListing, Transfer, BuyListing, AcceptOffer).                      *)
THEOREM MarketOneByOne ==
    ASSUME NEW c, NCalls = {c}, ~NftMayFail
    PROVE  NftSpec => []MarketAlone
<1>1. SoloMarket(c) => MarketAlone
  BY SoloSays DEF MarketAlone
<1>. QED  BY <1>1, SoloInvariant, PTL

(* Under the same conditions a listing that was sold or cancelled stays so, *)
(* and the one buyer it names keeps it (BuyListing, CancelListing,          *)
(* AcceptOffer).                                                            *)
THEOREM SettledOneByOne ==
    ASSUME NEW c, NCalls = {c}, ~NftMayFail
    PROVE  NftSpec => ListingSettledAlone
<1>1. SoloMarket(c) /\ [NftNext]_nftVars => [alone => ListingSettled]_nftVars
  BY SoloStep
<1>. QED  BY <1>1, SoloInvariant, PTL DEF NftSpec, ListingSettledAlone

(* The two modules share no row, so the two type invariants hold together,  *)
(* whichever steps of the two interleave.                                   *)
THEOREM TokensTypeCorrect == JettonSpec /\ NftSpec => []TokensTypeOK
<1>1. JettonTypeOK /\ NftTypeOK => TokensTypeOK
  BY DEF TokensTypeOK
<1>. QED  BY <1>1, TypeCorrect, NftTypeCorrect, PTL
=============================================================================
