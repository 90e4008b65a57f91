----------------------------- MODULE Storefront ------------------------------
(***************************************************************************)
(* What the application shows of one product: its label, the lists and     *)
(* tabs it appears in with their counts, its auctions and its orders, each *)
(* a query of its own over three tables that different handlers write.     *)
(*                                                                         *)
(* The handlers run one at a time here, each as a whole; how they          *)
(* interleave is the subject of Catalogue, BidBook, AuctionClock and       *)
(* Trade, of which this module keeps what the queries can see.             *)
(***************************************************************************)
EXTENDS Naturals, Sequences

CONSTANTS
    Owner,          \* the seller of the product
    Shopper,        \* other users
    Duration,       \* lengths an auction can have, in hours
    MaxRows,        \* bound on the auctions of the product and the orders for it
    MaxClock,       \* bound on the hours that pass
    Nobody

ASSUME StorefrontAssumption ==
    /\ Duration \subseteq Nat \ {0}
    /\ MaxRows \in Nat /\ MaxClock \in Nat
    /\ Nobody \notin Shopper \union {Owner} /\ Owner \notin Shopper

VARIABLES
    listing,        \* the row of the product
    lots,           \* the rows of its auctions, in the order of their creation
    purchases,      \* the rows of its orders, in the order of their creation
    clock

shopVars == <<listing, lots, purchases, clock>>

ListingStatus == {"DRAFT", "PENDING", "PUBLISHED", "REJECTED"}

\* bidders: who has a live bid; hasBids: totalBids is not zero; gone: deletedAt.
Lot == [status : {"PENDING", "ACTIVE", "ENDED", "CANCELLED"}, ends : Nat,
        bidders : SUBSET Shopper, hasBids : BOOLEAN, winner : Shopper \union {Nobody}, gone : BOOLEAN]

Purchase == [buyer : Shopper, lot : Nat, gone : BOOLEAN,
             status : {"PROCESSING", "SHIPPED", "DELIVERED", "CANCELLED"}]

StorefrontTypeOK ==
    /\ listing \in [status : ListingStatus, gone : BOOLEAN]
    /\ lots \in Seq(Lot) /\ purchases \in Seq(Purchase)
    /\ Len(lots) + Len(purchases) <= MaxRows
    /\ clock \in 0..MaxClock

StorefrontInit ==
    /\ listing = [status |-> "PENDING", gone |-> FALSE]
    /\ lots = <<>> /\ purchases = <<>>
    /\ clock = 0

OpenLots == {a \in DOMAIN lots : lots[a].status \in {"PENDING", "ACTIVE"} /\ ~lots[a].gone}

MayInsert == Len(lots) + Len(purchases) < MaxRows

SetLot(a, lot) == lots' = [lots EXCEPT ![a] = lot]

-----------------------------------------------------------------------------
(***************************************************************************)
(* The handlers that write                                                 *)
(***************************************************************************)

Hour ==
    /\ clock < MaxClock /\ clock' = clock + 1
    /\ UNCHANGED <<listing, lots, purchases>>

\* updateProduct by the seller or by staff, and moderateProduct.
SetListingStatus ==
    /\ ~listing.gone
    /\ \E to \in ListingStatus : listing' = [listing EXCEPT !.status = to]
    /\ UNCHANGED <<lots, purchases, clock>>

RemoveListing ==
    /\ ~listing.gone /\ OpenLots = {}
    /\ listing' = [status |-> "DRAFT", gone |-> TRUE]
    /\ UNCHANGED <<lots, purchases, clock>>

\* createAuction.  Its end is the hour it was created in, until somebody bids.
OpenLot ==
    /\ ~listing.gone /\ listing.status \in {"PUBLISHED", "PENDING"}
    /\ OpenLots = {} /\ MayInsert
    /\ lots' = Append(lots, [status |-> "PENDING", ends |-> clock, bidders |-> {},
                             hasBids |-> FALSE, winner |-> Nobody, gone |-> FALSE])
    /\ UNCHANGED <<listing, purchases, clock>>

\* createBid looks at the end of an ACTIVE auction only; the first bid sets it by the
\* duration of the auction.
NewEnds == {clock + hours : hours \in Duration}

TakesBidsOn(a) ==
    /\ a \in OpenLots
    /\ lots[a].status = "ACTIVE" => clock < lots[a].ends

BidOnLot(a, u) ==
    /\ TakesBidsOn(a)
    /\ \E ends \in IF lots[a].status = "ACTIVE" THEN {lots[a].ends} ELSE NewEnds :
          SetLot(a, [lots[a] EXCEPT !.status = "ACTIVE", !.ends = ends, !.hasBids = TRUE,
                                    !.bidders = @ \union {u}])
    /\ UNCHANGED <<listing, purchases, clock>>

\* retractBid, and restoreBid for a bid of u's that was rejected.
RetractFromLot(a, u) ==
    /\ a \in OpenLots /\ lots[a].status = "ACTIVE" /\ u \in lots[a].bidders
    /\ SetLot(a, [lots[a] EXCEPT !.bidders = @ \ {u}])
    /\ UNCHANGED <<listing, purchases, clock>>

RestoreOnLot(a, u) ==
    /\ a \in OpenLots /\ lots[a].status = "ACTIVE" /\ lots[a].hasBids
    /\ SetLot(a, [lots[a] EXCEPT !.bidders = @ \union {u}])
    /\ UNCHANGED <<listing, purchases, clock>>

\* finalizeAuction; nothing moves the end of an auction that is closed early.
EndLot(a) ==
    /\ a \in OpenLots
    /\ SetLot(a, [lots[a] EXCEPT !.status = "ENDED", !.winner = Nobody])
    /\ listing' = IF lots[a].hasBids THEN listing ELSE [listing EXCEPT !.status = "DRAFT"]
    /\ UNCHANGED <<purchases, clock>>

\* updateAuction, as far as it can be seen here: the end, the status, or both.
UpdateLot(a) ==
    /\ a \in OpenLots
    /\ \E ends \in {lots[a].ends} \union NewEnds,
          status \in {"PENDING", "ACTIVE", "ENDED"} :
          SetLot(a, [lots[a] EXCEPT !.ends = ends, !.status = status])
    /\ UNCHANGED <<listing, purchases, clock>>

\* deleteAuction, and updateAuction to CANCELLED.
CancelLot(a) ==
    /\ a \in DOMAIN lots /\ ~lots[a].gone /\ ~lots[a].hasBids
    /\ SetLot(a, [lots[a] EXCEPT !.status = "CANCELLED", !.gone = TRUE])
    /\ UNCHANGED <<listing, purchases, clock>>

OrderOnLot(u, a) ==
    {o \in DOMAIN purchases : purchases[o].buyer = u /\ purchases[o].lot = a}

NewPurchase(u, a) == [buyer |-> u, lot |-> a, gone |-> FALSE, status |-> "PROCESSING"]

\* chooseWinner, with the order it creates unless the winner has one.
PickWinner(a, u) ==
    /\ a \in DOMAIN lots /\ ~lots[a].gone
    /\ lots[a].status \in {"ACTIVE", "ENDED"} /\ u \in lots[a].bidders
    /\ SetLot(a, [lots[a] EXCEPT !.status = "ENDED", !.winner = u])
    /\ IF \E o \in OrderOnLot(u, a) : purchases[o].status # "CANCELLED"
       THEN UNCHANGED purchases
       ELSE MayInsert /\ purchases' = Append(purchases, NewPurchase(u, a))
    /\ UNCHANGED <<listing, clock>>

\* cancelWinner rejects the winning bid and cancels some order of the winner's.
DropWinner(a) ==
    LET u == lots[a].winner IN
    /\ a \in DOMAIN lots /\ ~lots[a].gone /\ lots[a].status = "ENDED" /\ u # Nobody
    /\ SetLot(a, [lots[a] EXCEPT !.winner = Nobody, !.bidders = @ \ {u}])
    /\ IF OrderOnLot(u, a) = {} THEN UNCHANGED purchases
       ELSE \E o \in OrderOnLot(u, a) :
                purchases' = [purchases EXCEPT ![o].status = "CANCELLED"]
    /\ UNCHANGED <<listing, clock>>

\* createOrder at the price of the product, whatever its auctions do.
Buy(u) ==
    /\ ~listing.gone /\ listing.status = "PUBLISHED"
    /\ \A o \in OrderOnLot(u, 0) \union UNION {OrderOnLot(u, a) : a \in DOMAIN lots} :
           purchases[o].status # "PROCESSING"
    /\ MayInsert
    /\ purchases' = Append(purchases, NewPurchase(u, 0))
    /\ UNCHANGED <<listing, lots, clock>>

\* updateOrder: the statuses that may follow, and those that a date sets.
AdvanceOrder(o) ==
    /\ o \in DOMAIN purchases /\ ~purchases[o].gone
    /\ \E to \in CASE purchases[o].status = "PROCESSING" -> {"SHIPPED", "DELIVERED", "CANCELLED"}
                   [] purchases[o].status = "SHIPPED"    -> {"DELIVERED", "CANCELLED"}
                   [] purchases[o].status = "DELIVERED"  -> {}
                   [] purchases[o].status = "CANCELLED"  -> {"SHIPPED", "DELIVERED"} :
           purchases' = [purchases EXCEPT ![o].status = to]
    /\ UNCHANGED <<listing, lots, clock>>

RemoveOrder(o) ==
    /\ o \in DOMAIN purchases /\ ~purchases[o].gone /\ purchases[o].status # "DELIVERED"
    /\ purchases' = [purchases EXCEPT ![o].gone = TRUE, ![o].status = "CANCELLED"]
    /\ UNCHANGED <<listing, lots, clock>>

StorefrontNext ==
    \/ Hour \/ SetListingStatus \/ RemoveListing \/ OpenLot
    \/ \E a \in DOMAIN lots, u \in Shopper :
          BidOnLot(a, u) \/ RetractFromLot(a, u) \/ RestoreOnLot(a, u) \/ PickWinner(a, u)
    \/ \E a \in DOMAIN lots : EndLot(a) \/ UpdateLot(a) \/ CancelLot(a) \/ DropWinner(a)
    \/ \E u \in Shopper : Buy(u)
    \/ \E o \in DOMAIN purchases : AdvanceOrder(o) \/ RemoveOrder(o)

-----------------------------------------------------------------------------
(***************************************************************************)
(* What is shown                                                           *)
(***************************************************************************)
ShownLots == {a \in DOMAIN lots : ~lots[a].gone}
ShownOrders == {o \in DOMAIN purchases : ~purchases[o].gone}

FaultOnAuction(a) == lots[a].status \in {"PENDING", "ACTIVE"}
OnAuction(a) ==
    \/ lots[a].status = "PENDING"
    \/ lots[a].status = "ACTIVE" /\ lots[a].ends >= clock

HasOrder(statuses) == \E o \in ShownOrders : purchases[o].status \in statuses

\* The auction a product is shown with is the one that ends last; 0 if it has none.
ActiveAuctions ==
    IF ShownLots = {} THEN {0}
    ELSE {a \in ShownLots : \A b \in ShownLots : lots[b].ends <= lots[a].ends}

\* Its order is the newest.
LastOrderStatus ==
    IF ShownOrders = {} THEN "none"
    ELSE purchases[CHOOSE o \in ShownOrders : \A p \in ShownOrders : p <= o].status

\* saleStatus, the same in findAll, searchProducts and findById.
SaleStatus(a) ==
    IF a # 0 /\ OnAuction(a) THEN "onAuction"
    ELSE IF (a # 0 /\ lots[a].status = "ENDED") \/ LastOrderStatus = "DELIVERED" THEN "sold"
    ELSE IF LastOrderStatus \in {"PROCESSING", "SHIPPED"} THEN "awaitingDelivery"
    ELSE "available"

InPhase(phase) ==
    CASE phase = "in_auction"  -> \E a \in ShownLots : OnAuction(a)
      [] phase = "sold"        -> \/ HasOrder({"DELIVERED"})
                                  \/ \E a \in ShownLots : lots[a].status = "ENDED"
      [] phase = "in_delivery" -> HasOrder({"PROCESSING", "SHIPPED"})
      [] OTHER                 -> TRUE

\* ProductService.findAll for a query that names a status, a phase of the sale
\* and the seller, or "any" of them.  Visitors ask for what is public; staff and
\* the seller who asks for their own may ask for more.  A user who names no city
\* finds what is in their own, if they have one: near is FALSE elsewhere.
MayAsk(viewer, status, ofSeller) ==
    status \in {"any", "PUBLISHED"} \/ viewer = "staff" \/ (viewer = Owner /\ ofSeller)

FindAllProducts(viewer, near, status, phase, ofSeller) ==
    /\ MayAsk(viewer, status, ofSeller)
    /\ ~listing.gone /\ (near \/ viewer = "visitor")
    /\ status # "any" => listing.status = status
    /\ status = "any" /\ phase = "any" /\ ~ofSeller => listing.status = "PUBLISHED"
    /\ phase # "any" => InPhase(phase)
    /\ phase \notin {"sold", "in_delivery"} => ~HasOrder({"DELIVERED"})

SearchProducts(status) ==
    /\ ~listing.gone
    /\ listing.status = IF status = "any" THEN "PUBLISHED" ELSE status
    /\ ~HasOrder({"DELIVERED"})

\* getProductCounts, as far as this product is counted.
Counted(phase) ==
    /\ ~listing.gone /\ InPhase(phase)
    /\ phase = "in_auction" => listing.status # "REJECTED"

\* activeProductCount of the product's category, and the count of all of them
\* (CategoryService.findAll and findById), as far as this product is counted.
CountedInCategory == ~listing.gone /\ listing.status = "PUBLISHED"

FindProductById == ~listing.gone

\* What a product that is found is shown as: with its auction and how it stands.
CardsOf(found) ==
    IF found THEN {[auction |-> a, sale |-> SaleStatus(a)] : a \in ActiveAuctions} ELSE {}

FindAllCards(viewer, near, status, phase, ofSeller) ==
    CardsOf(FindAllProducts(viewer, near, status, phase, ofSeller))
SearchCards(status) == CardsOf(SearchProducts(status))
PageCards == CardsOf(FindProductById)

\* AuctionService.findAll with active: true or false.
FindAllAuctions(active) ==
    {a \in ShownLots :
        IF active THEN OnAuction(a)
        ELSE lots[a].status \notin {"ACTIVE", "PENDING"} \/ lots[a].ends < clock}

\* OrderService.findAll for one's own orders and sales, and findById.
FindAllOrders(viewer) ==
    {o \in ShownOrders : purchases[o].buyer = viewer \/ (viewer = Owner /\ ~listing.gone)}

FindOrderById(viewer) == {o \in ShownOrders : viewer \in {purchases[o].buyer, Owner}}

(***************************************************************************)
(* The queries agree with one another and with the handlers, whatever was  *)
(* cancelled, relisted, bought twice or deleted in between.                *)
(***************************************************************************)
\* A product labelled as on auction takes bids, but for the instant its auction
\* ends, and none that takes bids is labelled as available; every label but
\* "available" finds the product under its tab.
LabelFits(card) ==
    /\ card.sale = "onAuction" =>
          InPhase("in_auction") /\ (TakesBidsOn(card.auction) \/ clock = lots[card.auction].ends)
    /\ card.sale = "available" => \A a \in ShownLots : ~TakesBidsOn(a)
    /\ card.sale = "sold" => card \in FindAllCards(Owner, TRUE, "any", "sold", TRUE)
    /\ card.sale = "awaitingDelivery" => Counted("in_delivery")

\* Under the tab of the auctions a product without that label has another auction,
\* which ends no sooner and is over; under the other tabs nothing is labelled as
\* available but what was ordered once more since, in vain, or has an auction that
\* ran out and is not ended yet.
TabFits(phase) ==
    \A card \in FindAllCards(Owner, TRUE, "any", phase, TRUE) :
        IF phase = "in_auction"
        THEN card.sale = "onAuction" \/
             \E a, b \in ShownLots : OnAuction(a) /\ ~OnAuction(b) /\ lots[a].ends <= lots[b].ends
        ELSE card.sale = "available" =>
                 LastOrderStatus = "CANCELLED" \/ lots[card.auction].status = "ACTIVE"

\* A tab and its count differ for rejected and delivered products only.
CountFits(phase) ==
    Counted(phase) # (FindAllCards(Owner, TRUE, "any", phase, TRUE) # {}) =>
        listing.gone \/ (phase = "in_auction" /\
                         (listing.status = "REJECTED" \/ HasOrder({"DELIVERED"})))

\* The seller, in the product's city, finds it in the whole list or under "sold".
SellerFinds ==
    ~listing.gone => \E phase \in {"any", "sold"} :
                         FindAllProducts(Owner, TRUE, "any", phase, TRUE)

\* A visitor can open what is listed; is offered nothing that has been delivered;
\* and finds what its category counts, but for that.
VisitorFinds ==
    LET offered == FindAllCards("visitor", TRUE, "any", "any", FALSE) IN
    /\ offered \union SearchCards("any") \subseteq PageCards
    /\ offered # {} <=> CountedInCategory /\ ~HasOrder({"DELIVERED"})
    /\ HasOrder({"DELIVERED"}) => SearchCards("any") = {}

StorefrontAgrees ==
    /\ \A card \in PageCards : LabelFits(card)
    /\ \A phase \in {"in_auction", "sold", "in_delivery"} : TabFits(phase) /\ CountFits(phase)
    /\ SellerFinds /\ VisitorFinds
    \* an auction is listed as running or as over; a user can open the orders listed
    /\ ShownLots = FindAllAuctions(TRUE) \union FindAllAuctions(FALSE)
    /\ \A u \in Shopper \union {Owner} : FindAllOrders(u) \subseteq FindOrderById(u)
=============================================================================
