----------------------------- MODULE MarketProofs ------------------------------
(***************************************************************************)
(* Proofs about the parts of MCMarket, for any number of handlers, edits,  *)
(* auctions, categories, bidders and presses of a button.                  *)
(*                                                                         *)
(* The handlers of product.service.ts and category.service.ts check what   *)
(* they have read and write by id later.  Each invariant is about what a   *)
(* handler between the two still knows, unless a history variable of the   *)
(* model marks that another came in between.                               *)
(***************************************************************************)
EXTENDS MCMarket, WellFoundedInduction, TLAPS

\* What an editor's handler carries.  A seller's update publishes nothing, and
\* leaves the status alone only if it read PENDING; who is about to insert an
\* auction, or to delete the product, found no open auction among the first ones,
\* and none was opened since that is not marked.
Orderly == Open \ crossing

WorkFits(r) ==
    /\ Doing(r, "update") /\ work[r].write = "keep" => work[r].read = "PENDING"
    /\ Doing(r, "approve") => work[r].seen <= content
    /\ Doing(r, "updateAuction") => work[r].auction \in 1..Len(auctions)
    /\ Doing(r, "openAuction") \/ Doing(r, "insertAuction") => work[r].live
    /\ Doing(r, "insertAuction") \/ Doing(r, "delete") =>
          work[r].seen <= Len(auctions) /\ \A a \in Orderly : a > work[r].seen

PublishedWasReviewed == productStatus = "PUBLISHED" => content \in reviewed \union slipped

CatalogueInv ==
    /\ CatalogueTypeOK /\ PublishedWasReviewed /\ AuctionsOfProduct
    /\ \A r \in Editor : WorkFits(r)

\* What no step does to the product and its auctions: take a version back, or open an
\* auction that is closed without a mark.
CatalogueStep ==
    /\ content <= content' /\ content' \in Nat
    /\ Len(auctions) <= Len(auctions') /\ Orderly' \subseteq Nat
    /\ \A a \in Orderly' : a \in Orderly \/ a > Len(auctions)

\* What an administrator's handler carries names rows that are there; and unless
\* another has written since, the row it will write to is still as it was read.
TaskNames(s) ==
    /\ s.pc \in {"create", "move"} => s.parent \in categories \union {NoParent}
    /\ s.pc \in {"delete", "stock"} => s.category \in categories

TaskKnows(s) ==
    /\ s.pc \in {"create", "move"} => s.parent = NoParent \/ Live(s.parent)
    /\ s.pc = "delete" => Emptied(s.category)
    /\ s.pc = "stock" => Live(s.category)

TaskFits(r) == TaskNames(task[r]) /\ (r \notin overtaken => TaskKnows(task[r]))

CategoryInv ==
    /\ CategoryTypeOK /\ DeletedCategoryIsEmpty
    /\ \A r \in Admin : TaskFits(r)

\* The webhook calls that are under way.  A card that has its buttons has no line;
\* as long as presses do not overlap there is one call at most, what it has written
\* is the status unless somebody else wrote since, and it is done writing once the
\* line is on the card.
Under == {p \in Press : press[p].at # "none"}

AloneAt(p) ==
    /\ press[p].at = "written" /\ decidedBy = "press" => goods.status = Decision(press[p].action)
    /\ card.line # "none" => press[p].at \in {"none", "failed", "edited"}

Alone ==
    /\ \A p, q \in Under : p = q
    /\ \A p \in Press : AloneAt(p)

CardsInv ==
    /\ CardsTypeOK /\ CardTellsDecision
    /\ card.line # "none" => ~card.buttons
    /\ card.buttons \/ Under # {} \/ card.line # "none" => posting = "done" /\ card.there
    /\ ~overlap => Alone

\* A handler that is about to retract or restore a bid has read it.
BidsAreThere ==
    \A h \in Teller : telling[h].pc \in {"retract", "restore"} => telling[h].bid \in DOMAIN offers

NewsInv == NewsTypeOK /\ NewsArrives /\ BidsAreThere

\* What the queries over a product's rows rest on: it has one open auction at most,
\* what was cancelled is gone, and some number bounds the ends of its auctions.
LotsFit ==
    /\ \A a, b \in OpenLots : a = b
    /\ \A a \in ShownLots : lots[a].status # "CANCELLED"
    /\ \E n \in Nat : \A a \in DOMAIN lots : lots[a].ends <= n

ShopInv == StorefrontTypeOK /\ LotsFit

-----------------------------------------------------------------------------
(***************************************************************************)
(* The catalogue.                                                          *)
(***************************************************************************)
LEMMA WorkAt ==
    ASSUME NEW s \in WorkState
    PROVE  /\ s.pc = "update" => s.read \in ProductStatus /\ s.write \in {"PENDING", "keep"}
           /\ s.pc = "updateAny" => /\ s.edits \in BOOLEAN /\ s.seen \in 0..MaxEdits
                                    /\ s.write \in ProductStatus \union {"keep"}
           /\ s.pc = "approve" => s.seen \in 0..MaxEdits
           /\ s.pc = "updateAuction" => s.auction \in 1..MaxAuctions
           /\ s.pc = "delete" => s.seen \in 0..MaxAuctions
           /\ s.pc = "openAuction" => s.live \in BOOLEAN
           /\ s.pc = "insertAuction" => s.live \in BOOLEAN /\ s.seen \in 0..MaxAuctions
  BY DEF WorkState, NoWork

LEMMA NoWorkState == NoWork \in WorkState /\ NoWork.pc = "idle"
  BY DEF NoWork, WorkState

LEMMA ProceedFacts ==
    ASSUME CatalogueTypeOK, NEW r \in Editor, NEW state \in WorkState, Proceed(r, state)
    PROVE  /\ work' \in [Editor -> WorkState]
           /\ work'[r] = state
           /\ \A s \in Editor \ {r} : work'[s] = work[s]
  BY DEF CatalogueTypeOK, Proceed

LEMMA CatalogueFacts ==
    ASSUME CatalogueTypeOK
    PROVE  /\ MaxEdits \in Nat /\ MaxAuctions \in Nat
           /\ content \in Nat /\ content <= MaxEdits
           /\ Len(auctions) \in Nat /\ Len(auctions) <= MaxAuctions
           /\ DOMAIN auctions = 1..Len(auctions)
           /\ Open \subseteq 1..Len(auctions) /\ Orderly \subseteq 1..Len(auctions)
  BY CatalogueAssumption DEF CatalogueTypeOK, Open, Orderly

\* What happens to one auction.
LEMMA AuctionAppended ==
    ASSUME CatalogueTypeOK, auctions' = Append(auctions, "OPEN")
    PROVE  /\ auctions' \in Seq({"OPEN", "CLOSED"}) /\ Len(auctions') = Len(auctions) + 1
           /\ Open' = Open \union {Len(auctions) + 1}
<1>1. /\ auctions' \in Seq({"OPEN", "CLOSED"}) /\ Len(auctions') = Len(auctions) + 1
      /\ \A a \in 1..Len(auctions) : auctions'[a] = auctions[a]
      /\ auctions'[Len(auctions) + 1] = "OPEN"
  BY DEF CatalogueTypeOK
<1>2. DOMAIN auctions' = 1..(Len(auctions) + 1) /\ DOMAIN auctions = 1..Len(auctions)
      /\ Len(auctions) \in Nat
  BY <1>1 DEF CatalogueTypeOK
<1> QED
  BY <1>1, <1>2 DEF Open

LEMMA AuctionClosed ==
    ASSUME CatalogueTypeOK, NEW a \in Open, auctions' = [auctions EXCEPT ![a] = "CLOSED"]
    PROVE  /\ auctions' \in Seq({"OPEN", "CLOSED"}) /\ Len(auctions') = Len(auctions)
           /\ Open' = Open \ {a}
<1>1. a \in 1..Len(auctions) /\ DOMAIN auctions = 1..Len(auctions)
  BY CatalogueFacts
<1>2. auctions' \in Seq({"OPEN", "CLOSED"}) /\ Len(auctions') = Len(auctions)
  BY <1>1 DEF CatalogueTypeOK
<1>3. DOMAIN auctions' = DOMAIN auctions
  BY <1>1
<1> QED
  BY <1>1, <1>2, <1>3 DEF Open, CatalogueTypeOK

LEMMA AuctionOpened ==
    ASSUME CatalogueTypeOK, NEW a \in 1..Len(auctions), auctions' = [auctions EXCEPT ![a] = "OPEN"]
    PROVE  /\ auctions' \in Seq({"OPEN", "CLOSED"}) /\ Len(auctions') = Len(auctions)
           /\ Open' = Open \union {a}
<1>1. DOMAIN auctions = 1..Len(auctions)
  BY CatalogueFacts
<1>2. auctions' \in Seq({"OPEN", "CLOSED"}) /\ Len(auctions') = Len(auctions)
  BY <1>1 DEF CatalogueTypeOK
<1>3. DOMAIN auctions' = DOMAIN auctions
  BY <1>1
<1> QED
  BY <1>1, <1>2, <1>3 DEF Open, CatalogueTypeOK

\* A step that leaves what handlers know true, and the state of one handler.
LEMMA OthersFit ==
    ASSUME CatalogueInv, CatalogueStep, NEW s \in Editor, work'[s] = work[s]
    PROVE  WorkFits(s)'
<1>1. WorkFits(s) /\ work[s] \in WorkState /\ CatalogueTypeOK
  BY DEF CatalogueInv, CatalogueTypeOK
<1>2. /\ content \in Nat /\ content' \in Nat /\ Len(auctions) \in Nat
      /\ Len(auctions) <= Len(auctions') /\ content <= content'
  BY <1>1, CatalogueFacts DEF CatalogueStep
<1>3. ASSUME Doing(s, "approve") PROVE work[s].seen <= content'
  BY <1>1, <1>2, <1>3, WorkAt DEF WorkFits, Doing
<1>5. ASSUME Doing(s, "updateAuction") PROVE work[s].auction \in 1..Len(auctions')
  <2>1. work[s].auction \in 1..Len(auctions) /\ Len(auctions') \in Int
    BY <1>1, <1>5 DEF WorkFits, Doing, CatalogueStep
  <2> QED
    BY <1>2, <2>1
<1>4. ASSUME Doing(s, "insertAuction") \/ Doing(s, "delete")
      PROVE  work[s].seen <= Len(auctions') /\ \A a \in Orderly' : a > work[s].seen
  <2>1. work[s].seen \in Nat /\ work[s].seen <= Len(auctions) /\ \A a \in Orderly : a > work[s].seen
    BY <1>1, <1>4, WorkAt, CatalogueFacts DEF WorkFits, Doing
  <2>2. ASSUME NEW a, a > Len(auctions), a \in Orderly' PROVE a > work[s].seen
    <3>1. a \in Int
      BY <2>2 DEF CatalogueStep
    <3> QED
      BY <1>2, <2>1, <2>2, <3>1
  <2>3. Len(auctions') \in Int /\ work[s].seen <= Len(auctions')
    <3>1. Len(auctions') \in Int
      BY DEF CatalogueStep
    <3> QED
      BY <1>2, <2>1, <3>1
  <2>4. ASSUME NEW a \in Orderly' PROVE a > work[s].seen
    <3>1. a \in Orderly \/ a > Len(auctions)
      BY <2>4 DEF CatalogueStep
    <3> QED
      BY <2>1, <2>2, <2>4, <3>1
  <2> QED
    BY <2>3, <2>4
<1> QED
  BY <1>1, <1>3, <1>4, <1>5 DEF WorkFits, Doing

LEMMA HandlerStep ==
    ASSUME CatalogueInv, CatalogueStep, CatalogueTypeOK', PublishedWasReviewed', AuctionsOfProduct',
           NEW r \in Editor, \A s \in Editor \ {r} : work'[s] = work[s], WorkFits(r)'
    PROVE  CatalogueInv'
  BY OthersFit DEF CatalogueInv

\* A check writes nothing but what its handler goes on with.
LEMMA CheckStep ==
    ASSUME CatalogueInv, UNCHANGED <<productVars, auctions, crossing>>,
           NEW r \in Editor, NEW state \in WorkState, Proceed(r, state), WorkFits(r)'
    PROVE  CatalogueInv'
<1>1. CatalogueTypeOK /\ PublishedWasReviewed /\ AuctionsOfProduct
  BY DEF CatalogueInv
<1>2. work' \in [Editor -> WorkState] /\ \A s \in Editor \ {r} : work'[s] = work[s]
  BY <1>1, ProceedFacts
<1>3. /\ UNCHANGED <<product, productStatus, content, reviewed, slipped, auctions, crossing>>
      /\ Open' = Open /\ Orderly' = Orderly
  BY DEF productVars, Open, Orderly
<1>4. CatalogueTypeOK' /\ PublishedWasReviewed' /\ AuctionsOfProduct'
  BY <1>1, <1>2, <1>3 DEF CatalogueTypeOK, PublishedWasReviewed, AuctionsOfProduct
<1>5. CatalogueStep
  BY <1>1, <1>3, CatalogueFacts DEF CatalogueStep
<1> QED
  BY <1>2, <1>4, <1>5, HandlerStep

LEMMA ChecksFit ==
    ASSUME CatalogueInv, NEW r \in Editor,
           \/ UpdateProduct(r)
           \/ \E edits \in BOOLEAN, to \in ProductStatus \union {"keep"}, seen \in 0..content :
                 UpdateAnyProduct(r, edits, to, seen)
           \/ \E action \in {"approve", "reject"}, seen \in 0..content :
                 ModerateProduct(r, action, seen)
           \/ DeleteProduct(r) \/ FindProduct(r) \/ FindOpenAuction(r) \/ Fail(r)
           \/ \E a \in Open : UpdateAuction(r, a)
    PROVE  CatalogueInv'
<1>1. CatalogueTypeOK /\ WorkFits(r)
  BY DEF CatalogueInv
<1>2. /\ MaxAuctions \in Nat /\ content \in 0..MaxEdits /\ productStatus \in ProductStatus
      /\ Len(auctions) \in 0..MaxAuctions /\ 0..content \subseteq 0..MaxEdits
      /\ Open \subseteq 1..MaxAuctions
  BY <1>1, CatalogueFacts DEF CatalogueTypeOK
<1>3. CASE UpdateProduct(r)
  <2>1. PICK write : write = IF TriggersModeration(productStatus) THEN "PENDING" ELSE "keep"
    OBVIOUS
  <2>2. write \in {"PENDING", "keep"} /\ (write = "keep" => productStatus = "PENDING")
    BY <1>2, <2>1 DEF TriggersModeration, ProductStatus
  <2>3. PICK state : state = [pc |-> "update", read |-> productStatus, write |-> write]
    OBVIOUS
  <2>4. state \in WorkState
    BY <1>2, <2>2, <2>3 DEF WorkState
  <2>5. Proceed(r, state) /\ UNCHANGED <<productVars, auctions, crossing>>
    BY <1>3, <2>1, <2>3 DEF UpdateProduct
  <2>6. work'[r] = state
    BY <1>1, <2>4, <2>5, ProceedFacts
  <2>7. WorkFits(r)'
    BY <2>2, <2>3, <2>6 DEF WorkFits, Doing
  <2> QED
    BY <2>4, <2>5, <2>7, CheckStep
<1>4. CASE \E edits \in BOOLEAN, to \in ProductStatus \union {"keep"}, seen \in 0..content :
              UpdateAnyProduct(r, edits, to, seen)
  <2>1. PICK edits \in BOOLEAN, to \in ProductStatus \union {"keep"}, seen \in 0..content :
           UpdateAnyProduct(r, edits, to, seen)
    BY <1>4
  <2>2. PICK state : state = [pc |-> "updateAny", edits |-> edits, seen |-> seen, write |-> to]
    OBVIOUS
  <2>3. state \in WorkState
    BY <1>2, <2>2 DEF WorkState
  <2>4. Proceed(r, state) /\ UNCHANGED <<productVars, auctions, crossing>>
    BY <2>1, <2>2 DEF UpdateAnyProduct
  <2>5. work'[r] = state
    BY <1>1, <2>3, <2>4, ProceedFacts
  <2>6. WorkFits(r)'
    BY <2>2, <2>5 DEF WorkFits, Doing
  <2> QED
    BY <2>3, <2>4, <2>6, CheckStep
<1>5. CASE \E action \in {"approve", "reject"}, seen \in 0..content :
              ModerateProduct(r, action, seen)
  <2>1. PICK action \in {"approve", "reject"}, seen \in 0..content : ModerateProduct(r, action, seen)
    BY <1>5
  <2>2. PICK state : state = IF action = "approve" THEN [pc |-> action, seen |-> seen]
                                                   ELSE [pc |-> action]
    OBVIOUS
  <2>3. state \in WorkState
    BY <1>2, <2>2 DEF WorkState
  <2>4. Proceed(r, state) /\ UNCHANGED <<productVars, auctions, crossing>>
    BY <2>1, <2>2 DEF ModerateProduct
  <2>5. work'[r] = state /\ content' = content
    BY <1>1, <2>3, <2>4, ProceedFacts DEF productVars
  <2>6. WorkFits(r)'
    BY <1>2, <2>2, <2>5 DEF WorkFits, Doing
  <2> QED
    BY <2>3, <2>4, <2>6, CheckStep
<1>6. CASE DeleteProduct(r)
  <2>1. PICK state : state = [pc |-> "delete", seen |-> Len(auctions)]
    OBVIOUS
  <2>2. state \in WorkState
    BY <1>2, <2>1 DEF WorkState
  <2>3. Proceed(r, state) /\ UNCHANGED <<productVars, auctions, crossing>> /\ Open = {}
    BY <1>6, <2>1 DEF DeleteProduct, Deletable
  <2>4. work'[r] = state /\ auctions' = auctions /\ Orderly' = {}
    BY <1>1, <2>2, <2>3, ProceedFacts DEF Open, Orderly
  <2>5. WorkFits(r)'
    BY <1>2, <2>1, <2>4 DEF WorkFits, Doing
  <2> QED
    BY <2>2, <2>3, <2>5, CheckStep
<1>7. CASE FindProduct(r)
  <2>1. PICK state : state = [pc |-> "openAuction", live |-> product = "live"]
    OBVIOUS
  <2>2. state \in WorkState /\ state.live
    BY <1>7, <2>1 DEF WorkState, FindProduct, MayHaveAuction
  <2>3. Proceed(r, state) /\ UNCHANGED <<productVars, auctions, crossing>>
    BY <1>7, <2>1 DEF FindProduct
  <2>4. work'[r] = state
    BY <1>1, <2>2, <2>3, ProceedFacts
  <2>5. WorkFits(r)'
    BY <2>1, <2>2, <2>4 DEF WorkFits, Doing
  <2> QED
    BY <2>2, <2>3, <2>5, CheckStep
<1>8. CASE FindOpenAuction(r)
  <2>1. PICK state : state = [pc |-> "insertAuction", live |-> work[r].live, seen |-> Len(auctions)]
    OBVIOUS
  <2>2. work[r].live /\ work[r].live \in BOOLEAN
    BY <1>1, <1>8, WorkAt DEF FindOpenAuction, WorkFits, Doing, CatalogueTypeOK
  <2>3. state \in WorkState
    BY <1>2, <2>1, <2>2 DEF WorkState
  <2>4. Proceed(r, state) /\ UNCHANGED <<productVars, auctions, crossing>> /\ Open = {}
    BY <1>8, <2>1 DEF FindOpenAuction
  <2>5. work'[r] = state /\ auctions' = auctions /\ Orderly' = {}
    BY <1>1, <2>3, <2>4, ProceedFacts DEF Open, Orderly
  <2>6. state.live
    BY <2>1, <2>2
  <2>7. WorkFits(r)'
    BY <1>2, <2>1, <2>5, <2>6 DEF WorkFits, Doing
  <2> QED
    BY <2>3, <2>4, <2>7, CheckStep
<1>9. CASE Fail(r)
  <2>1. Proceed(r, NoWork) /\ UNCHANGED <<productVars, auctions, crossing>>
    BY <1>9 DEF Fail
  <2>2. work'[r] = NoWork
    BY <1>1, <2>1, ProceedFacts, NoWorkState
  <2>3. WorkFits(r)'
    BY <2>2, NoWorkState DEF WorkFits, Doing
  <2> QED
    BY <2>1, <2>3, NoWorkState, CheckStep
<1>10. CASE \E a \in Open : UpdateAuction(r, a)
  <2>1. PICK a \in Open : UpdateAuction(r, a)
    BY <1>10
  <2>2. PICK state : state = [pc |-> "updateAuction", auction |-> a]
    OBVIOUS
  <2>3. state \in WorkState
    BY <1>2, <2>1, <2>2 DEF WorkState
  <2>4. Proceed(r, state) /\ UNCHANGED <<productVars, auctions, crossing>>
    BY <2>1, <2>2 DEF UpdateAuction
  <2>5. work'[r] = state /\ auctions' = auctions
    BY <1>1, <2>3, <2>4, ProceedFacts
  <2>6. state.auction \in 1..Len(auctions') /\ state.pc = "updateAuction"
    BY <1>1, <2>1, <2>2, <2>5, CatalogueFacts
  <2>7. WorkFits(r)'
    BY <2>5, <2>6 DEF WorkFits, Doing
  <2> QED
    BY <2>3, <2>4, <2>7, CheckStep
<1> QED
  BY <1>3, <1>4, <1>5, <1>6, <1>7, <1>8, <1>9, <1>10

\* A write of the product after which its handler is done, or creates an auction.
LEMMA ProductStep ==
    ASSUME CatalogueInv, NEW r \in Editor,
           NEW state \in {NoWork, [pc |-> "createAuction"]}, Proceed(r, state),
           UNCHANGED <<auctions, crossing>>, product' \in {"live", product},
           productStatus' \in ProductStatus, content' \in content..MaxEdits,
           reviewed' \subseteq 0..content', slipped' \subseteq 0..content', PublishedWasReviewed'
    PROVE  CatalogueInv'
<1>1. CatalogueTypeOK /\ AuctionsOfProduct /\ WorkFits(r)
  BY DEF CatalogueInv
<1>2. state \in WorkState /\ state.pc \in {"idle", "createAuction"}
  BY NoWorkState DEF WorkState
<1>3. /\ work' \in [Editor -> WorkState] /\ work'[r] = state
      /\ \A s \in Editor \ {r} : work'[s] = work[s]
  BY <1>1, <1>2, ProceedFacts
<1>4. Open' = Open /\ Orderly' = Orderly
  BY DEF Open, Orderly
<1>5. CatalogueStep
  BY <1>1, <1>4, CatalogueFacts DEF CatalogueStep
<1>6. CatalogueTypeOK'
  BY <1>1, <1>3, CatalogueFacts DEF CatalogueTypeOK
<1>7. product' = "deleted" => product = "deleted"
  OBVIOUS
<1>8. AuctionsOfProduct'
  BY <1>1, <1>4, <1>7 DEF AuctionsOfProduct
<1>9. WorkFits(r)'
  BY <1>2, <1>3 DEF WorkFits, Doing
<1> QED
  BY <1>3, <1>5, <1>6, <1>8, <1>9, HandlerStep

\* No write publishes what staff have not seen, unless what they had seen was
\* another version, or another write came in between.
LEMMA WritesFit ==
    ASSUME CatalogueInv, NEW r \in Editor,
           \/ \E withAuction \in BOOLEAN : CreateProduct(r, withAuction)
           \/ WriteProduct(r) \/ Approve(r) \/ Reject(r) \/ ToDraft(r)
    PROVE  CatalogueInv'
<1>1. CatalogueTypeOK /\ WorkFits(r) /\ PublishedWasReviewed
  BY DEF CatalogueInv
<1>2. /\ content \in Nat /\ content <= MaxEdits /\ MaxEdits \in Nat
      /\ reviewed \subseteq 0..content /\ slipped \subseteq 0..content
      /\ productStatus \in ProductStatus
  BY <1>1, CatalogueFacts DEF CatalogueTypeOK
<1>3. CASE \E withAuction \in BOOLEAN : CreateProduct(r, withAuction)
  <2>1. PICK withAuction \in BOOLEAN : CreateProduct(r, withAuction)
    BY <1>3
  <2>2. PICK state : state = IF withAuction THEN [pc |-> "createAuction"] ELSE NoWork
    OBVIOUS
  <2>3. state \in {NoWork, [pc |-> "createAuction"]}
    BY <2>2
  <2>4. /\ Proceed(r, state) /\ UNCHANGED <<content, reviewed, slipped, auctions, crossing>>
        /\ product' = "live" /\ product = "absent" /\ productStatus' = "PENDING"
    BY <2>1, <2>2 DEF CreateProduct
  <2>5. PublishedWasReviewed' /\ productStatus' \in ProductStatus
    BY <2>4 DEF PublishedWasReviewed, ProductStatus
  <2>6. /\ content' \in content..MaxEdits /\ product' \in {"live", product}
        /\ reviewed' \subseteq 0..content' /\ slipped' \subseteq 0..content'
    BY <1>2, <2>4
  <2> QED
    BY <2>3, <2>4, <2>5, <2>6, ProductStep
<1>4. CASE WriteProduct(r)
  <2>1. PICK q, staff : q = work[r] /\ staff \in BOOLEAN /\ (staff <=> Doing(r, "updateAny"))
    BY Zenon
  <2>2. PICK new, unseen :
           /\ new = IF staff /\ ~q.edits THEN content ELSE content + 1
           /\ unseen \in BOOLEAN
           /\ unseen <=> IF staff THEN q.seen # content
                                 ELSE q.read = "PENDING" /\ productStatus # "PENDING"
    BY Zenon
  <2>3. /\ new <= MaxEdits /\ content' = new
        /\ productStatus' = IF q.write = "keep" THEN productStatus ELSE q.write
        /\ reviewed' = IF staff /\ ~unseen THEN reviewed \union {new} ELSE reviewed
        /\ slipped' = IF unseen THEN slipped \union {new} ELSE slipped
        /\ UNCHANGED <<product, auctions, crossing>>
    <3>1. CASE staff
      BY <1>4, <2>1, <2>2, <3>1 DEF WriteProduct
    <3>2. CASE ~staff
      BY <1>4, <2>1, <2>2, <3>2 DEF WriteProduct
    <3> QED
      BY <3>1, <3>2
  <2>4. /\ q \in WorkState /\ q.pc \in {"update", "updateAny"}
        /\ staff <=> q.pc = "updateAny"
    BY <1>1, <1>4, <2>1 DEF WriteProduct, Doing, CatalogueTypeOK
  <2>5. /\ q.write \in ProductStatus \union {"keep"}
        /\ ~staff => q.write \in {"keep", "PENDING"}
        /\ ~staff /\ q.write = "keep" => q.read = "PENDING"
    <3>1. q.pc = "update" => /\ q.write \in {"keep", "PENDING"}
                             /\ q.write = "keep" => q.read = "PENDING"
      BY <1>1, <2>1, <2>4, WorkAt DEF WorkFits, Doing
    <3>2. q.pc = "updateAny" => q.write \in ProductStatus \union {"keep"}
      BY <2>4, WorkAt
    <3> QED
      BY <2>4, <3>1, <3>2 DEF ProductStatus
  <2>6. new \in Nat /\ content <= new /\ new \in content..MaxEdits
    BY <1>2, <2>2, <2>3
  <2>7. reviewed' \subseteq 0..new /\ slipped' \subseteq 0..new
    <3>1. 0..content \subseteq 0..new /\ new \in 0..new
      BY <1>2, <2>6
    <3> QED
      BY <1>2, <2>3, <3>1
  <2>8. PublishedWasReviewed'
    <3>1. CASE staff \/ unseen
      <4>1. new \in reviewed' \union slipped'
        BY <2>3, <3>1
      <4> QED
        BY <2>3, <4>1 DEF PublishedWasReviewed
    <3>2. CASE ~staff /\ ~unseen
      <4>1. q.write = "keep" => productStatus = "PENDING"
        BY <2>2, <2>5, <3>2
      <4>2. productStatus' # "PUBLISHED"
        BY <2>3, <2>5, <3>2, <4>1
      <4> QED
        BY <4>2 DEF PublishedWasReviewed
    <3> QED
      BY <2>1, <2>2, <3>1, <3>2
  <2>9. productStatus' \in ProductStatus
    BY <1>2, <2>3, <2>5
  <2>10. PICK state \in {NoWork, [pc |-> "createAuction"]} : Proceed(r, state)
    BY <1>4 DEF WriteProduct
  <2> QED
    BY <2>3, <2>6, <2>7, <2>8, <2>9, <2>10, ProductStep
<1>5. CASE Approve(r)
  <2>1. PICK seen : seen = work[r].seen
    OBVIOUS
  <2>2. seen \in 0..content
    BY <1>1, <1>2, <1>5, <2>1, WorkAt DEF Approve, WorkFits, Doing, CatalogueTypeOK
  <2>3. /\ productStatus' = "PUBLISHED" /\ reviewed' = reviewed \union {seen}
        /\ slipped' = IF content # seen THEN slipped \union {content} ELSE slipped
        /\ Proceed(r, NoWork) /\ UNCHANGED <<product, content, auctions, crossing>>
    BY <1>5, <2>1 DEF Approve
  <2>4. PublishedWasReviewed' /\ productStatus' \in ProductStatus
    BY <2>3 DEF PublishedWasReviewed, ProductStatus
  <2>5. reviewed' \subseteq 0..content' /\ slipped' \subseteq 0..content'
    BY <1>2, <2>2, <2>3
  <2>6. content' \in content..MaxEdits /\ product' \in {"live", product}
    BY <1>2, <2>3
  <2> QED
    BY <2>3, <2>4, <2>5, <2>6, ProductStep
<1>6. CASE Reject(r) \/ ToDraft(r)
  <2>1. /\ productStatus' \in {"REJECTED", "DRAFT"} /\ Proceed(r, NoWork)
        /\ UNCHANGED <<product, content, reviewed, slipped, auctions, crossing>>
    BY <1>6 DEF Reject, ToDraft
  <2>2. PublishedWasReviewed' /\ productStatus' \in ProductStatus
    BY <2>1 DEF PublishedWasReviewed, ProductStatus
  <2>3. /\ content' \in content..MaxEdits /\ product' \in {"live", product}
        /\ reviewed' \subseteq 0..content' /\ slipped' \subseteq 0..content'
    BY <1>2, <2>1
  <2> QED
    BY <2>1, <2>2, <2>3, ProductStep
<1> QED
  BY <1>3, <1>4, <1>5, <1>6

\* An auction that is inserted next to an open one, or for a product that is gone, or
\* is opened again, is marked.
LEMMA AuctionsFit ==
    ASSUME CatalogueInv, NEW r \in Editor,
           InsertAuction(r) \/ SoftDeleteProduct(r) \/ WriteOpenStatus(r)
    PROVE  CatalogueInv'
<1>1. CatalogueTypeOK /\ WorkFits(r) /\ PublishedWasReviewed /\ AuctionsOfProduct
  BY DEF CatalogueInv
<1>2. /\ content \in Nat /\ Len(auctions) \in Nat /\ MaxAuctions \in Nat
      /\ Open \subseteq 1..Len(auctions) /\ Orderly \subseteq 1..Len(auctions)
      /\ crossing \subseteq 1..Len(auctions)
      /\ DOMAIN auctions = 1..Len(auctions)
  BY <1>1, CatalogueFacts DEF CatalogueTypeOK
<1>3. ASSUME Proceed(r, NoWork)
      PROVE  /\ work' \in [Editor -> WorkState] /\ \A s \in Editor \ {r} : work'[s] = work[s]
             /\ WorkFits(r)'
  BY <1>1, <1>3, ProceedFacts, NoWorkState DEF WorkFits, Doing
<1>4. CASE InsertAuction(r)
  <2>1. PICK seen, a : seen = work[r].seen /\ a = Len(auctions) + 1
    OBVIOUS
  <2>2. /\ a <= MaxAuctions /\ auctions' = Append(auctions, "OPEN")
        /\ crossing' = IF a # seen + 1 \/ (work[r].live /\ product = "deleted")
                       THEN crossing \union {a} ELSE crossing
        /\ Proceed(r, NoWork)
        /\ UNCHANGED <<product, productStatus, content, reviewed, slipped>>
    BY <1>4, <2>1 DEF InsertAuction, productVars
  <2>3. work[r].live /\ seen \in Nat /\ \A b \in Orderly : b > seen
    BY <1>1, <1>4, <2>1, WorkAt DEF InsertAuction, WorkFits, Doing, CatalogueTypeOK
  <2>4. /\ auctions' \in Seq({"OPEN", "CLOSED"}) /\ Len(auctions') = a /\ Open' = Open \union {a}
    BY <1>1, <2>1, <2>2, AuctionAppended
  <2>5. CatalogueStep
    <3>1. Orderly' \subseteq Nat /\ \A b \in Orderly' : b \in Orderly \/ b > Len(auctions)
      <4>1. Orderly \subseteq Nat /\ a \in Nat /\ a > Len(auctions)
        BY <1>2, <2>1
      <4>2. PICK before, after, last : before = Orderly /\ after = Orderly' /\ last = Len(auctions)
        OBVIOUS
      <4>3. after \subseteq before \union {a} /\ before \subseteq Nat /\ a > last
        BY <2>2, <2>4, <4>1, <4>2 DEF Orderly
      <4>4. after \subseteq Nat /\ \A b \in after : b \in before \/ b > last
        BY <4>1, <4>3
      <4> QED
        BY <4>2, <4>4
    <3>2. Len(auctions) <= Len(auctions')
      BY <1>2, <2>1, <2>4
    <3> QED
      BY <1>2, <2>2, <3>1, <3>2 DEF CatalogueStep
  <2>6. CatalogueTypeOK'
    <3>1. crossing' \subseteq 1..a /\ DOMAIN auctions' = 1..a
      <4>1. crossing' \subseteq crossing \union {a}
        BY <2>2
      <4>2. 1..Len(auctions) \subseteq 1..a /\ a \in 1..a
        BY <1>2, <2>1
      <4> QED
        BY <1>2, <2>4, <4>1, <4>2
    <3> QED
      BY <1>1, <1>3, <2>2, <2>4, <3>1 DEF CatalogueTypeOK
  <2>7. AuctionsOfProduct'
    <3>1. CASE a = seen + 1 /\ product # "deleted"
      <4>1. Orderly = {}
        BY <1>2, <2>1, <2>3, <3>1
      <4>2. Orderly' \subseteq {a}
        BY <2>2, <2>4, <4>1 DEF Orderly
      <4>3. Open' \ crossing' \subseteq {a}
        BY <4>2 DEF Orderly
      <4> QED
        BY <2>2, <3>1, <4>3 DEF AuctionsOfProduct
    <3>2. CASE ~(a = seen + 1 /\ product # "deleted")
      <4>1. Open' \ crossing' \subseteq Open \ crossing
        BY <2>2, <2>3, <2>4, <3>2
      <4> QED
        BY <1>1, <2>2, <4>1 DEF AuctionsOfProduct
    <3> QED
      BY <3>1, <3>2
  <2>8. PublishedWasReviewed'
    BY <1>1, <2>2 DEF PublishedWasReviewed
  <2> QED
    BY <1>3, <2>2, <2>5, <2>6, <2>7, <2>8, HandlerStep
<1>5. CASE SoftDeleteProduct(r)
  <2>1. PICK seen : seen = work[r].seen
    OBVIOUS
  <2>2. /\ product' = "deleted" /\ productStatus' = "DRAFT"
        /\ crossing' = crossing \union ((seen + 1)..Len(auctions))
        /\ Proceed(r, NoWork) /\ UNCHANGED <<content, reviewed, slipped, auctions>>
    BY <1>5, <2>1 DEF SoftDeleteProduct
  <2>3. seen \in Nat /\ \A b \in Orderly : b > seen
    BY <1>1, <1>5, <2>1, WorkAt DEF SoftDeleteProduct, WorkFits, Doing, CatalogueTypeOK
  <2>4. Open' = Open
    BY <2>2 DEF Open
  <2>5. Orderly' = {} /\ Open' \ crossing' = {}
    <3>1. \A b \in Orderly : b \in (seen + 1)..Len(auctions)
      BY <1>2, <2>3
    <3> QED
      BY <2>2, <2>4, <3>1 DEF Orderly
  <2>6. AuctionsOfProduct' /\ PublishedWasReviewed'
    BY <2>2, <2>5 DEF AuctionsOfProduct, PublishedWasReviewed
  <2>7. CatalogueStep
    BY <1>2, <2>2, <2>5 DEF CatalogueStep
  <2>8. CatalogueTypeOK'
    <3>1. crossing' \subseteq DOMAIN auctions'
      <4>1. (seen + 1)..Len(auctions) \subseteq 1..Len(auctions)
        BY <1>2, <2>3
      <4> QED
        BY <1>2, <2>2, <4>1
    <3> QED
      BY <1>1, <1>3, <2>2, <3>1 DEF CatalogueTypeOK, ProductStatus
  <2> QED
    BY <1>3, <2>2, <2>6, <2>7, <2>8, HandlerStep
<1>6. CASE WriteOpenStatus(r)
  <2>1. PICK a : a = work[r].auction
    OBVIOUS
  <2>2. /\ auctions' = [auctions EXCEPT ![a] = "OPEN"] /\ crossing' = crossing \union ({a} \ Open)
        /\ Proceed(r, NoWork)
        /\ UNCHANGED <<product, productStatus, content, reviewed, slipped>>
    BY <1>6, <2>1 DEF WriteOpenStatus, productVars
  <2>3. a \in 1..Len(auctions)
    BY <1>1, <1>6, <2>1 DEF WriteOpenStatus, WorkFits, Doing
  <2>4. /\ auctions' \in Seq({"OPEN", "CLOSED"}) /\ Len(auctions') = Len(auctions)
        /\ Open' = Open \union {a}
    BY <1>1, <2>2, <2>3, AuctionOpened
  <2>5. Orderly' \subseteq Orderly /\ DOMAIN auctions' = 1..Len(auctions)
    BY <1>2, <2>2, <2>4 DEF Orderly
  <2>6. CatalogueStep
    BY <1>2, <2>2, <2>4, <2>5 DEF CatalogueStep
  <2>7. CatalogueTypeOK'
    <3>1. crossing' \subseteq DOMAIN auctions'
      BY <1>2, <2>2, <2>3, <2>5
    <3> QED
      BY <1>1, <1>3, <2>2, <2>4, <3>1 DEF CatalogueTypeOK
  <2>8. AuctionsOfProduct'
    <3>1. Open' \ crossing' \subseteq Open \ crossing
      BY <2>5 DEF Orderly
    <3> QED
      BY <1>1, <2>2, <3>1 DEF AuctionsOfProduct
  <2>9. PublishedWasReviewed'
    BY <1>1, <2>2 DEF PublishedWasReviewed
  <2> QED
    BY <1>3, <2>2, <2>6, <2>7, <2>8, <2>9, HandlerStep
<1> QED
  BY <1>4, <1>5, <1>6

LEMMA ClosingFits ==
    ASSUME CatalogueInv, NEW a \in Open,
           CloseAuction(a) \/ \E r \in Editor : FinalizeAuction(r, a)
    PROVE  CatalogueInv'
<1>1. CatalogueTypeOK /\ PublishedWasReviewed /\ AuctionsOfProduct
  BY DEF CatalogueInv
<1>2. /\ auctions' = [auctions EXCEPT ![a] = "CLOSED"]
      /\ UNCHANGED <<product, productStatus, content, reviewed, slipped, crossing>>
  BY DEF CloseAuction, FinalizeAuction, productVars
<1>3. /\ auctions' \in Seq({"OPEN", "CLOSED"}) /\ Len(auctions') = Len(auctions)
      /\ Open' = Open \ {a} /\ Orderly' = Orderly \ {a} /\ Len(auctions) \in Nat
  BY <1>1, <1>2, AuctionClosed, CatalogueFacts DEF Orderly
<1>4. CatalogueStep
  BY <1>1, <1>2, <1>3, CatalogueFacts DEF CatalogueStep
<1>5. AuctionsOfProduct' /\ PublishedWasReviewed'
  BY <1>1, <1>2, <1>3 DEF AuctionsOfProduct, PublishedWasReviewed
<1>6. ASSUME work' \in [Editor -> WorkState] PROVE CatalogueTypeOK'
  <2>1. DOMAIN auctions' = DOMAIN auctions
    BY <1>2
  <2> QED
    BY <1>1, <1>2, <1>3, <1>6, <2>1 DEF CatalogueTypeOK
<1>7. CASE CloseAuction(a)
  <2>1. work' = work
    BY <1>7 DEF CloseAuction
  <2>2. CatalogueTypeOK'
    BY <1>1, <1>6, <2>1 DEF CatalogueTypeOK
  <2> QED
    BY <1>4, <1>5, <2>1, <2>2, OthersFit DEF CatalogueInv
<1>8. ASSUME NEW r \in Editor, FinalizeAuction(r, a) PROVE CatalogueInv'
  <2>1. [pc |-> "toDraft"] \in WorkState
    BY DEF WorkState
  <2>2. Proceed(r, [pc |-> "toDraft"])
    BY <1>8 DEF FinalizeAuction
  <2>3. /\ work' \in [Editor -> WorkState] /\ work'[r] = [pc |-> "toDraft"]
        /\ \A s \in Editor \ {r} : work'[s] = work[s]
    BY <1>1, <2>1, <2>2, ProceedFacts
  <2>4. WorkFits(r)'
    BY <2>3 DEF WorkFits, Doing
  <2> QED
    BY <1>4, <1>5, <1>6, <2>3, <2>4, HandlerStep
<1> QED
  BY <1>7, <1>8

LEMMA CatalogueInvNext ==
    ASSUME CatalogueInv, [CatalogueNext]_catalogueVars
    PROVE  CatalogueInv'
<1>1. ASSUME NEW r \in Editor, EditorHandler(r) PROVE CatalogueInv'
  BY <1>1, ChecksFit, WritesFit, AuctionsFit, ClosingFits DEF EditorHandler
<1>2. ASSUME NEW a \in Open, CloseAuction(a) PROVE CatalogueInv'
  BY <1>2, ClosingFits
<1>3. CASE UNCHANGED catalogueVars
  <2>1. /\ UNCHANGED <<product, productStatus, content, reviewed, slipped, auctions, crossing, work>>
    BY <1>3 DEF catalogueVars, productVars
  <2>2. Open' = Open /\ Orderly' = Orderly
    BY <2>1 DEF Open, Orderly
  <2> QED
    BY <2>1, <2>2 DEF CatalogueInv, CatalogueTypeOK, PublishedWasReviewed, AuctionsOfProduct,
                      WorkFits, Doing
<1> QED
  BY <1>1, <1>2, <1>3 DEF CatalogueNext

LEMMA CatalogueInvInit == CatalogueInit => CatalogueInv
<1> SUFFICES ASSUME CatalogueInit PROVE CatalogueInv
  OBVIOUS
<1>1. Open = {} /\ Len(auctions) = 0 /\ auctions \in Seq({"OPEN", "CLOSED"})
  BY DEF CatalogueInit, Open
<1>2. CatalogueTypeOK
  BY <1>1, CatalogueAssumption, NoWorkState DEF CatalogueInit, CatalogueTypeOK, ProductStatus
<1>3. PublishedWasReviewed /\ AuctionsOfProduct
  BY <1>1 DEF CatalogueInit, PublishedWasReviewed, AuctionsOfProduct
<1>4. ASSUME NEW r \in Editor PROVE WorkFits(r)
  <2>1. work[r].pc = "idle"
    BY NoWorkState DEF CatalogueInit
  <2> QED
    BY <2>1 DEF WorkFits, Doing
<1> QED
  BY <1>2, <1>3, <1>4 DEF CatalogueInv

-----------------------------------------------------------------------------
(***************************************************************************)
(* The tree of categories.                                                 *)
(***************************************************************************)
LEMMA TaskAt ==
    ASSUME NEW s \in TaskState
    PROVE  /\ s.pc \in {"create", "move"} =>
                 s.category \in Category /\ s.parent \in Category \union {NoParent}
           /\ s.pc \in {"delete", "stock"} => s.category \in Category
           /\ s.pc \in {"create", "move", "delete", "stock"} => s # NoTask
  BY DEF TaskState, NoTask

LEMMA NoTaskState ==
    NoTask \in TaskState /\ NoTask.pc = "idle" /\ TaskNames(NoTask) /\ TaskKnows(NoTask)
  BY DEF NoTask, TaskState, TaskNames, TaskKnows

\* A handler that only reads, or gives up, leaves the tree alone.
LEMMA TaskKept ==
    ASSUME CategoryInv, NEW r \in Admin, NEW state \in TaskState,
           task' = [task EXCEPT ![r] = state], overtaken' = overtaken \ {r},
           UNCHANGED <<treeVars, astray>>, TaskNames(state), TaskKnows(state)
    PROVE  CategoryInv'
<1>1. CategoryTypeOK /\ DeletedCategoryIsEmpty /\ \A x \in Admin : TaskFits(x)
  BY DEF CategoryInv
<1>2. UNCHANGED <<categories, parentId, deletedCategories, stocked, astray>>
  BY DEF treeVars
<1>3. /\ task' \in [Admin -> TaskState] /\ task'[r] = state
      /\ \A x \in Admin \ {r} : task'[x] = task[x]
  BY <1>1 DEF CategoryTypeOK
<1>4. CategoryTypeOK'
  BY <1>1, <1>2, <1>3 DEF CategoryTypeOK
<1>5. DeletedCategoryIsEmpty'
  BY <1>1, <1>2 DEF DeletedCategoryIsEmpty, Children
<1>6. ASSUME NEW x \in Admin PROVE TaskFits(x)'
  <2>1. PICK s : s = task'[x]
    OBVIOUS
  <2>2. TaskNames(s) /\ (x \notin overtaken' => TaskKnows(s))
    <3>1. CASE x = r
      BY <1>3, <2>1, <3>1
    <3>2. CASE x # r
      BY <1>1, <1>3, <2>1, <3>2 DEF TaskFits
    <3> QED
      BY <3>1, <3>2
  <2>3. (TaskNames(s) => TaskNames(s)') /\ (TaskKnows(s) => TaskKnows(s)')
    BY <1>2 DEF TaskNames, TaskKnows, Live, Emptied, Children
  <2> QED
    BY <2>1, <2>2, <2>3 DEF TaskFits, TaskNames, TaskKnows
<1> QED
  BY <1>4, <1>5, <1>6 DEF CategoryInv

\* A handler that writes overtakes all that are between two statements.
LEMMA TaskFinished ==
    ASSUME CategoryInv, NEW r \in Admin, NEW c \in categories \union {NoParent}, Finish(r, c),
           categories \subseteq categories', categories' \subseteq Category
    PROVE  /\ task' \in [Admin -> TaskState]
           /\ overtaken' \subseteq {x \in Admin : task'[x] # NoTask}
           /\ astray' \subseteq categories' /\ astray \subseteq astray'
           /\ r \in overtaken /\ c # NoParent => c \in astray'
           /\ \A x \in Admin : TaskFits(x)'
<1>1. CategoryTypeOK /\ \A x \in Admin : TaskFits(x)
  BY DEF CategoryInv
<1>2. /\ task' \in [Admin -> TaskState] /\ task'[r] = NoTask
      /\ \A x \in Admin \ {r} : task'[x] = task[x]
  BY <1>1, NoTaskState DEF CategoryTypeOK, Finish
<1>3. overtaken' = {x \in Admin \ {r} : task[x] # NoTask}
  BY DEF Finish
<1>4. astray' = IF r \in overtaken THEN astray \union ({c} \intersect Category) ELSE astray
  BY DEF Finish
<1>5. ASSUME NEW x \in Admin PROVE TaskFits(x)'
  <2>1. PICK s : s = task'[x]
    OBVIOUS
  <2>2. TaskNames(s) /\ (x \notin overtaken' => s = NoTask)
    BY <1>1, <1>2, <1>3, <2>1, NoTaskState DEF TaskFits
  <2>3. TaskNames(s) => TaskNames(s)'
    BY DEF TaskNames
  <2>4. s = NoTask => TaskKnows(s)'
    BY NoTaskState DEF TaskKnows
  <2> QED
    BY <2>1, <2>2, <2>3, <2>4 DEF TaskFits, TaskNames, TaskKnows
<1>6. astray \subseteq categories /\ categories \subseteq Category
  BY <1>1 DEF CategoryTypeOK
<1>7. overtaken' \subseteq {x \in Admin : task'[x] # NoTask}
  BY <1>2, <1>3
<1>8. /\ astray' \subseteq categories' /\ astray \subseteq astray'
      /\ r \in overtaken /\ c # NoParent => c \in astray'
  BY <1>4, <1>6, CategoryAssumption
<1> QED
  BY <1>2, <1>5, <1>7, <1>8

\* The rows that a deleted category has: none comes to one that is not marked.
LEMMA RowsWritten ==
    ASSUME CategoryInv, NEW r \in Admin, InsertCategory(r) \/ MoveCategory(r)
    PROVE  CategoryInv'
<1>1. CategoryTypeOK /\ DeletedCategoryIsEmpty /\ TaskFits(r) /\ task[r] \in TaskState
  BY DEF CategoryInv, CategoryTypeOK
<1>2. PICK c, p : c = task[r].category /\ p = task[r].parent
  OBVIOUS
<1>3. c \in Category /\ p \in categories \union {NoParent}
  BY <1>1, <1>2, TaskAt DEF InsertCategory, MoveCategory, Busy, TaskFits, TaskNames
<1>4. r \notin overtaken => p = NoParent \/ Live(p)
  BY <1>1, <1>2 DEF InsertCategory, MoveCategory, Busy, TaskFits, TaskKnows
<1>5. /\ categories' \in {categories, categories \union {c}}
      /\ parentId' = [parentId EXCEPT ![c] = p]
      /\ UNCHANGED <<deletedCategories, stocked>> /\ Finish(r, p)
  BY <1>2 DEF InsertCategory, MoveCategory
<1>6. categories' # categories => c \notin categories
  BY <1>2, <1>5 DEF InsertCategory, MoveCategory
<1>7. categories \subseteq categories' /\ categories' \subseteq Category
  BY <1>1, <1>3, <1>5 DEF CategoryTypeOK
<1>8. /\ task' \in [Admin -> TaskState]
      /\ overtaken' \subseteq {x \in Admin : task'[x] # NoTask}
      /\ astray' \subseteq categories' /\ astray \subseteq astray'
      /\ r \in overtaken /\ p # NoParent => p \in astray'
      /\ \A x \in Admin : TaskFits(x)'
  BY <1>3, <1>5, <1>7, TaskFinished
<1>9. CategoryTypeOK'
  BY <1>1, <1>3, <1>5, <1>7, <1>8 DEF CategoryTypeOK
<1>10. ASSUME NEW d \in deletedCategories' \ astray' PROVE d \notin stocked' /\ (Children(d))' = {}
  <2>1. d \in deletedCategories \ astray /\ d \in Category /\ d # NoParent
    BY <1>1, <1>5, <1>8, CategoryAssumption DEF CategoryTypeOK
  <2>2. d \notin stocked /\ \A e \in categories \ deletedCategories : parentId[e] # d
    BY <1>1, <2>1 DEF DeletedCategoryIsEmpty, Children
  <2>3. p # d
    BY <1>4, <1>8, <2>1 DEF Live
  <2>4. \A e \in categories' \ deletedCategories : parentId'[e] # d
    BY <1>1, <1>3, <1>5, <2>2, <2>3 DEF CategoryTypeOK
  <2> QED
    BY <1>5, <2>2, <2>4 DEF Children
<1> QED
  BY <1>1, <1>8, <1>9, <1>10 DEF CategoryInv, DeletedCategoryIsEmpty

LEMMA CategoryDeleted ==
    ASSUME CategoryInv, NEW r \in Admin, SoftDeleteCategory(r) \/ AddProduct(r)
    PROVE  CategoryInv'
<1>1. CategoryTypeOK /\ DeletedCategoryIsEmpty /\ TaskFits(r) /\ task[r] \in TaskState
  BY DEF CategoryInv, CategoryTypeOK
<1>2. PICK c : c = task[r].category
  OBVIOUS
<1>3. c \in categories /\ c \in Category /\ c # NoParent
  BY <1>1, <1>2, CategoryAssumption
     DEF SoftDeleteCategory, AddProduct, Busy, TaskFits, TaskNames, CategoryTypeOK
<1>4. Finish(r, c) /\ UNCHANGED <<categories, parentId>>
  BY <1>2 DEF SoftDeleteCategory, AddProduct
<1>5. /\ task' \in [Admin -> TaskState]
      /\ overtaken' \subseteq {x \in Admin : task'[x] # NoTask}
      /\ astray' \subseteq categories' /\ astray \subseteq astray'
      /\ r \in overtaken => c \in astray'
      /\ \A x \in Admin : TaskFits(x)'
  <2>1. categories \subseteq categories' /\ categories' \subseteq Category
    BY <1>1, <1>4 DEF CategoryTypeOK
  <2> QED
    BY <1>3, <1>4, <2>1, TaskFinished
<1>6. CASE SoftDeleteCategory(r)
  <2>1. deletedCategories' = deletedCategories \union {c} /\ UNCHANGED stocked
    BY <1>2, <1>6 DEF SoftDeleteCategory
  <2>2. r \notin overtaken => Emptied(c)
    BY <1>1, <1>2, <1>6 DEF SoftDeleteCategory, Busy, TaskFits, TaskKnows
  <2>3. CategoryTypeOK'
    BY <1>1, <1>3, <1>4, <1>5, <2>1 DEF CategoryTypeOK
  <2>4. DeletedCategoryIsEmpty'
    BY <1>1, <1>4, <1>5, <2>1, <2>2 DEF DeletedCategoryIsEmpty, Emptied, Children
  <2> QED
    BY <1>5, <2>3, <2>4 DEF CategoryInv
<1>7. CASE AddProduct(r)
  <2>1. stocked' = stocked \union {c} /\ UNCHANGED deletedCategories
    BY <1>2, <1>7 DEF AddProduct
  <2>2. r \notin overtaken => Live(c)
    BY <1>1, <1>2, <1>7 DEF AddProduct, Busy, TaskFits, TaskKnows
  <2>3. CategoryTypeOK'
    BY <1>1, <1>3, <1>4, <1>5, <2>1 DEF CategoryTypeOK
  <2>4. DeletedCategoryIsEmpty'
    BY <1>1, <1>4, <1>5, <2>1, <2>2 DEF DeletedCategoryIsEmpty, Live, Children
  <2> QED
    BY <1>5, <2>3, <2>4 DEF CategoryInv
<1> QED
  BY <1>6, <1>7

LEMMA CategoryReads ==
    ASSUME CategoryInv, NEW r \in Admin, NEW c \in Category, NEW p \in Category \union {NoParent},
           CreateCategory(r, c, p) \/ UpdateCategory(r, c, p)
              \/ DeleteCategory(r, c) \/ ChooseCategory(r, c)
    PROVE  CategoryInv'
<1>1. CASE CreateCategory(r, c, p) \/ UpdateCategory(r, c, p)
  <2>1. PICK pc \in {"create", "move"} : Start(r, [pc |-> pc, category |-> c, parent |-> p])
    BY <1>1 DEF CreateCategory, UpdateCategory
  <2>2. PICK state : state = [pc |-> pc, category |-> c, parent |-> p]
    OBVIOUS
  <2>3. state \in TaskState
    BY <2>2 DEF TaskState
  <2>4. p = NoParent \/ Live(p)
    BY <1>1 DEF CreateCategory, UpdateCategory
  <2>5. TaskNames(state) /\ TaskKnows(state)
    BY <2>1, <2>2, <2>4 DEF TaskNames, TaskKnows, Live
  <2> QED
    BY <2>1, <2>2, <2>3, <2>5, TaskKept DEF Start
<1>2. CASE DeleteCategory(r, c) \/ ChooseCategory(r, c)
  <2>1. PICK pc \in {"delete", "stock"} :
            /\ Start(r, [pc |-> pc, category |-> c]) /\ Live(c)
            /\ pc = "delete" => Emptied(c)
    BY <1>2 DEF DeleteCategory, ChooseCategory
  <2>2. PICK state : state = [pc |-> pc, category |-> c]
    OBVIOUS
  <2>3. state \in TaskState
    BY <2>2 DEF TaskState
  <2>4. TaskNames(state) /\ TaskKnows(state)
    BY <2>1, <2>2 DEF TaskNames, TaskKnows, Live
  <2> QED
    BY <2>1, <2>2, <2>3, <2>4, TaskKept DEF Start
<1> QED
  BY <1>1, <1>2

LEMMA CategoryInvNext ==
    ASSUME CategoryInv, [CategoryNext]_categoryVars
    PROVE  CategoryInv'
<1>1. ASSUME NEW r \in Admin, GiveUp(r) PROVE CategoryInv'
  BY <1>1, TaskKept, NoTaskState DEF GiveUp
<1>2. ASSUME NEW r \in Admin, CategoryHandler(r) PROVE CategoryInv'
  BY <1>1, <1>2, CategoryReads, RowsWritten, CategoryDeleted DEF CategoryHandler
<1>3. ASSUME NEW c \in stocked, LastProductGoes(c) PROVE CategoryInv'
  <2>1. /\ stocked' \subseteq stocked
        /\ UNCHANGED <<categories, parentId, deletedCategories, task, overtaken, astray>>
    BY <1>3 DEF LastProductGoes
  <2>2. CategoryTypeOK' /\ DeletedCategoryIsEmpty'
    BY <2>1 DEF CategoryInv, CategoryTypeOK, DeletedCategoryIsEmpty, Children
  <2>3. ASSUME NEW x \in Admin PROVE TaskFits(x)'
    BY <2>1 DEF CategoryInv, TaskFits, TaskNames, TaskKnows, Live, Emptied, Children
  <2> QED
    BY <2>2, <2>3 DEF CategoryInv
<1>4. CASE UNCHANGED categoryVars
  BY <1>4 DEF categoryVars, treeVars, CategoryInv, CategoryTypeOK, DeletedCategoryIsEmpty,
              TaskFits, TaskNames, TaskKnows, Live, Emptied, Children
<1> QED
  BY <1>2, <1>3, <1>4 DEF CategoryNext

LEMMA CategoryInvInit == CategoryInit => CategoryInv
  BY NoTaskState DEF CategoryInit, CategoryInv, CategoryTypeOK, DeletedCategoryIsEmpty, TaskFits

-----------------------------------------------------------------------------
(***************************************************************************)
(* The moderation card.                                                    *)
(***************************************************************************)
LEMMA PressAt ==
    ASSUME CardsTypeOK, NEW p \in Press
    PROVE  /\ press[p].at \in {"none", "new", "named", "checked", "written", "failed", "edited"}
           /\ press[p].action \in Action
           /\ press[p].at # "none" => press[p] \in Asked
<1>1. press[p] \in Asked \/ press[p] = NoPress
  BY DEF CardsTypeOK
<1>2. CASE press[p] \in Asked
  <2>1. PICK s \in Asked : s = press[p]
    BY <1>2
  <2>2. s.at \in {"new", "named", "checked", "written", "failed", "edited"} /\ s.action \in Action
    BY DEF Asked
  <2> QED
    BY <2>1, <2>2
<1>3. CASE press[p] = NoPress
  BY <1>3 DEF NoPress, Action
<1> QED
  BY <1>1, <1>2, <1>3

LEMMA NoPressFacts ==
    /\ NoPress \in Asked \union {NoPress} /\ NoPress.at = "none" /\ NoPress.action \in Action
  BY DEF NoPress, Action

LEMMA MoveFacts ==
    ASSUME CardsTypeOK, NEW p \in Press, press[p].at # "none",
           NEW place \in {"named", "checked", "written", "failed", "edited"}, Move(p, place)
    PROVE  /\ press' \in [Press -> Asked \union {NoPress}]
           /\ press'[p] = [at |-> place, action |-> press[p].action]
           /\ \A q \in Press \ {p} : press'[q] = press[q]
<1>1. press \in [Press -> Asked \union {NoPress}] /\ press[p] \in Asked
  BY PressAt DEF CardsTypeOK
<1>2. PICK before : before = press[p]
  OBVIOUS
<1>3. PICK after : after = [at |-> place, action |-> before.action]
  OBVIOUS
<1>4. [before EXCEPT !.at = place] = after /\ after \in Asked
  BY <1>1, <1>2, <1>3 DEF Asked
<1>5. press' = [press EXCEPT ![p] = after]
  BY <1>2, <1>4 DEF Move
<1> QED
  BY <1>1, <1>2, <1>3, <1>4, <1>5

LEMMA CardPosted ==
    ASSUME CardsInv, ReadForCard \/ SendMediaGroup \/ SendCard \/ LosePosting
    PROVE  CardsInv'
<1>1. /\ posting # "done" /\ UNCHANGED <<telegram, goods, press, writes, decidedBy, overlap>>
      /\ posting' \in {"pictures", "text", "done"}
  BY DEF ReadForCard, SendMediaGroup, SendCard, LosePosting
<1>2. /\ CardsTypeOK /\ ~card.buttons /\ Under = {} /\ card.line = "none"
  BY <1>1 DEF CardsInv
<1>3. \/ card' = card
      \/ \E posted \in BOOLEAN : /\ card' = [card EXCEPT !.there = posted, !.buttons = posted]
                                 /\ posting' = "done"
  BY DEF ReadForCard, SendMediaGroup, SendCard, LosePosting, MayPost
<1>4. /\ card' \in [there : BOOLEAN, buttons : BOOLEAN, line : Action \union {"none"}]
      /\ card'.line = "none" /\ (card'.buttons => posting' = "done" /\ card'.there)
  BY <1>2, <1>3 DEF CardsTypeOK
<1>5. CardsTypeOK'
  BY <1>1, <1>2, <1>4 DEF CardsTypeOK
<1>6. Under' = {}
  BY <1>1, <1>2 DEF Under
<1>7. \A p \in Press : press'[p].at = "none"
  BY <1>6 DEF Under
<1> QED
  BY <1>4, <1>5, <1>6, <1>7 DEF CardsInv, CardTellsDecision, Alone, AloneAt

\* While presses do not overlap, a webhook call that goes on is alone.
LEMMA PressGoesOn ==
    ASSUME CardsInv, NEW p \in Press, press[p].at # "none",
           press' \in [Press -> Asked \union {NoPress}],
           \A q \in Press \ {p} : press'[q] = press[q],
           press'[p].at # "none" => press'[p].action = press[p].action,
           goods' \in [status : {"PENDING", "PUBLISHED", "REJECTED", "DRAFT"}, live : BOOLEAN],
           card' \in [there : BOOLEAN, buttons : BOOLEAN, line : Action \union {"none"}],
           decidedBy' \in {"press", "others"},
           UNCHANGED <<telegram, posting, writes, overlap>>,
           CardTellsDecision', card'.line # "none" => ~card'.buttons, card'.there = card.there,
           ~overlap => (AloneAt(p))'
    PROVE  CardsInv'
<1>1. CardsTypeOK /\ p \in Under
  BY DEF CardsInv, Under
<1>2. CardsTypeOK'
  BY <1>1 DEF CardsTypeOK
<1>3. Under' \subseteq Under
  BY <1>1 DEF Under
<1>4. posting' = "done" /\ card'.there
  BY <1>1 DEF CardsInv
<1>5. ASSUME ~overlap' PROVE Alone'
  <2>1. \A q \in Under : q = p
    BY <1>1, <1>5 DEF CardsInv, Alone
  <2>2. ASSUME NEW q \in Press, q # p PROVE (AloneAt(q))'
    <3>1. q \notin Under /\ press'[q] = press[q]
      BY <2>1, <2>2
    <3>2. press'[q].at = "none"
      BY <3>1 DEF Under
    <3> QED
      BY <3>2 DEF AloneAt
  <2> QED
    BY <1>3, <1>5, <2>1, <2>2 DEF Alone
<1> QED
  BY <1>2, <1>4, <1>5 DEF CardsInv

LEMMA PressStarts ==
    ASSUME CardsInv, NEW p \in Press, NEW action \in Action, TelegramWebhook(p, action)
    PROVE  CardsInv'
<1>1. /\ CardsTypeOK /\ card.buttons /\ card.line = "none" /\ posting = "done" /\ card.there
      /\ press[p].at = "none"
  BY DEF TelegramWebhook, CardsInv
<1>2. UNCHANGED <<telegram, goods, posting, card, writes, decidedBy>>
  BY DEF TelegramWebhook
<1>3. PICK new : new = [at |-> "new", action |-> action]
  OBVIOUS
<1>4. /\ new \in Asked /\ press' = [press EXCEPT ![p] = new]
      /\ overlap' = (overlap \/ \E q \in Press \ {p} : press[q].at # "none")
  BY <1>3 DEF TelegramWebhook, Asked
<1>5. /\ press' \in [Press -> Asked \union {NoPress}] /\ press'[p] = new
      /\ \A q \in Press \ {p} : press'[q] = press[q]
  BY <1>1, <1>4 DEF CardsTypeOK
<1>6. CardsTypeOK'
  BY <1>1, <1>2, <1>4, <1>5 DEF CardsTypeOK
<1>7. ASSUME ~overlap' PROVE Alone'
  <2>1. \A q \in Press \ {p} : press'[q].at = "none"
    BY <1>4, <1>5, <1>7
  <2>2. \A q \in Under' : q = p
    BY <2>1 DEF Under
  <2>3. (AloneAt(p))'
    BY <1>1, <1>2, <1>3, <1>5 DEF AloneAt
  <2>4. \A q \in Press \ {p} : (AloneAt(q))'
    BY <2>1 DEF AloneAt
  <2> QED
    BY <2>2, <2>3, <2>4 DEF Alone
<1>8. CardTellsDecision'
  BY <1>1, <1>2 DEF CardTellsDecision
<1> QED
  BY <1>1, <1>2, <1>6, <1>7, <1>8 DEF CardsInv

LEMMA PressDecides ==
    ASSUME CardsInv, NEW p \in Press,
           GetAdminUserId(p) \/ CheckPending(p) \/ WriteDecision(p) \/ EditMessageText(p)
              \/ AnswerCallbackQuery(p) \/ LosePress(p)
    PROVE  CardsInv'
<1>1. CardsTypeOK /\ (~overlap => AloneAt(p)) /\ CardTellsDecision
  BY DEF CardsInv, Alone
<1>2. press[p].at # "none" /\ press[p].action \in Action /\ UNCHANGED <<telegram, posting, writes, overlap>>
  BY <1>1, PressAt DEF GetAdminUserId, CheckPending, WriteDecision, EditMessageText, Decided,
                       AnswerCallbackQuery, LosePress
<1>3. /\ goods \in [status : {"PENDING", "PUBLISHED", "REJECTED", "DRAFT"}, live : BOOLEAN]
      /\ card \in [there : BOOLEAN, buttons : BOOLEAN, line : Action \union {"none"}]
      /\ decidedBy \in {"press", "others"} /\ press \in [Press -> Asked \union {NoPress}]
      /\ (card.line # "none" => ~card.buttons)
  BY DEF CardsInv, CardsTypeOK
<1>4. CASE press' = [press EXCEPT ![p] = NoPress] /\ UNCHANGED <<goods, card, decidedBy>>
  <2>1. /\ press' \in [Press -> Asked \union {NoPress}] /\ press'[p] = NoPress
        /\ \A q \in Press \ {p} : press'[q] = press[q]
    BY <1>3, <1>4
  <2>2. press'[p].at = "none" /\ (AloneAt(p))'
    BY <2>1, NoPressFacts DEF AloneAt
  <2>3. CardTellsDecision'
    BY <1>1, <1>2, <1>4 DEF CardTellsDecision
  <2> QED
    BY <1>2, <1>3, <1>4, <2>1, <2>2, <2>3, PressGoesOn
<1>5. ASSUME NEW place \in {"named", "checked", "written", "failed", "edited"}, Move(p, place),
             goods' \in [status : {"PENDING", "PUBLISHED", "REJECTED", "DRAFT"}, live : BOOLEAN],
             card' \in [there : BOOLEAN, buttons : BOOLEAN, line : Action \union {"none"}],
             decidedBy' \in {"press", "others"},
             CardTellsDecision', card'.line # "none" => ~card'.buttons, card'.there = card.there,
             ~overlap /\ place = "written" /\ decidedBy' = "press"
                => goods'.status = Decision(press[p].action),
             ~overlap /\ card'.line # "none" => place \in {"failed", "edited"}
      PROVE  CardsInv'
  <2>1. /\ press' \in [Press -> Asked \union {NoPress}]
        /\ press'[p] = [at |-> place, action |-> press[p].action]
        /\ \A q \in Press \ {p} : press'[q] = press[q]
    <3>1. CardsTypeOK /\ press[p].at # "none" /\ Move(p, place)
      BY <1>1, <1>2, <1>5
    <3> QED
      BY <3>1, MoveFacts
  <2>2. press'[p].at = place /\ press'[p].action = press[p].action
    BY <2>1
  <2>3. ASSUME ~overlap PROVE (AloneAt(p))'
    BY <1>5, <2>2, <2>3 DEF AloneAt
  <2> QED
    BY <1>2, <1>5, <2>1, <2>2, <2>3, PressGoesOn
<1>6. ASSUME NEW place \in {"named", "checked", "failed"}, Move(p, place),
             press[p].at \in {"new", "named", "checked"}, UNCHANGED <<goods, card, decidedBy>>
      PROVE  CardsInv'
  <2>1. CardTellsDecision'
    BY <1>1, <1>2, <1>6 DEF CardTellsDecision
  <2>2. ~overlap => card.line = "none"
    BY <1>1, <1>6 DEF AloneAt
  <2> QED
    BY <1>3, <1>5, <1>6, <2>1, <2>2
<1>7. CASE GetAdminUserId(p) \/ CheckPending(p)
  BY <1>4, <1>6, <1>7 DEF GetAdminUserId, CheckPending
<1>8. CASE WriteDecision(p)
  <2>1. press[p].at = "checked" /\ UNCHANGED card
    BY <1>8 DEF WriteDecision
  <2>2. ~overlap => card.line = "none"
    BY <1>1, <2>1 DEF AloneAt
  <2>3. CASE /\ goods' = [goods EXCEPT !.status = Decision(press[p].action)]
             /\ decidedBy' = "press"
             /\ Move(p, IF goods.live THEN "written" ELSE "failed")
    <3>1. Decision(press[p].action) \in {"PUBLISHED", "REJECTED"}
      BY DEF Decision
    <3>2. /\ goods' \in [status : {"PENDING", "PUBLISHED", "REJECTED", "DRAFT"}, live : BOOLEAN]
          /\ goods'.status = Decision(press[p].action)
      BY <1>3, <2>3, <3>1
    <3>3. CardTellsDecision'
      BY <1>2, <2>1, <2>2 DEF CardTellsDecision
    <3>4. PICK place \in {"written", "failed"} : Move(p, place)
      BY <2>3
    <3> QED
      BY <1>3, <1>5, <2>1, <2>2, <2>3, <3>2, <3>3, <3>4
  <2>4. CASE Move(p, "failed") /\ UNCHANGED <<goods, decidedBy>>
    BY <1>6, <2>1, <2>4
  <2> QED
    BY <1>8, <2>3, <2>4 DEF WriteDecision
<1>9. CASE EditMessageText(p)
  <2>1. /\ press[p].at = "written" /\ Move(p, "edited") /\ UNCHANGED <<goods, decidedBy>>
        /\ \/ card' = card
           \/ card' = [card EXCEPT !.line = press[p].action, !.buttons = FALSE]
    BY <1>9 DEF EditMessageText, Decided, MayPost
  <2>2. CASE card' = card
    <3>1. CardTellsDecision'
      BY <1>1, <1>2, <2>1, <2>2 DEF CardTellsDecision
    <3> QED
      BY <1>3, <1>5, <2>1, <2>2, <3>1
  <2>3. CASE card' = [card EXCEPT !.line = press[p].action, !.buttons = FALSE]
    <3>1. /\ card' \in [there : BOOLEAN, buttons : BOOLEAN, line : Action \union {"none"}]
          /\ card'.line = press[p].action /\ ~card'.buttons /\ card'.there = card.there
      BY <1>2, <1>3, <2>3
    <3>2. CardTellsDecision'
      BY <1>1, <1>2, <2>1, <3>1 DEF CardTellsDecision, AloneAt
    <3> QED
      BY <1>3, <1>5, <2>1, <3>1, <3>2
  <2> QED
    BY <2>1, <2>2, <2>3
<1>10. CASE AnswerCallbackQuery(p) \/ LosePress(p)
  BY <1>4, <1>10 DEF AnswerCallbackQuery, LosePress
<1> QED
  BY <1>7, <1>8, <1>9, <1>10

LEMMA CardsInvNext ==
    ASSUME CardsInv, [CardsNext]_cardVars
    PROVE  CardsInv'
<1>1. ASSUME NEW status \in {"PENDING", "PUBLISHED", "REJECTED", "DRAFT"}, NEW live \in BOOLEAN,
             Others(status, live)
      PROVE  CardsInv'
  <2>1. /\ goods' = [status |-> status, live |-> live] /\ writes < MaxWrites
        /\ writes' = writes + 1 /\ decidedBy' = "others"
        /\ UNCHANGED <<telegram, posting, card, press, overlap>>
    BY <1>1 DEF Others
  <2>2. CardsTypeOK'
    <3>1. writes' \in 0..MaxWrites
      <4>1. writes \in 0..MaxWrites
        BY DEF CardsInv, CardsTypeOK
      <4> QED
        BY <2>1, <4>1, CardsAssumption
    <3>2. goods' \in [status : {"PENDING", "PUBLISHED", "REJECTED", "DRAFT"}, live : BOOLEAN]
      BY <2>1
    <3> QED
      BY <2>1, <3>1, <3>2 DEF CardsInv, CardsTypeOK
  <2>3. Under' = Under /\ (Alone => Alone')
    BY <2>1 DEF Under, Alone, AloneAt
  <2> QED
    BY <2>1, <2>2, <2>3 DEF CardsInv, CardTellsDecision
<1>2. CASE OwnerEdits \/ OwnerDeletes \/ PanelDecides
  BY <1>1, <1>2 DEF OwnerEdits, OwnerDeletes, PanelDecides, Decision
<1>3. CASE UNCHANGED cardVars
  <2>1. UNCHANGED <<telegram, goods, posting, card, press, writes, decidedBy, overlap>>
    BY <1>3 DEF cardVars
  <2>2. Under' = Under /\ (Alone => Alone')
    BY <2>1 DEF Under, Alone, AloneAt
  <2>3. CardsTypeOK' /\ CardTellsDecision'
    <3>1. CardsTypeOK /\ CardTellsDecision
      BY DEF CardsInv
    <3>2. CardsTypeOK'
      <4>1. /\ goods' \in [status : {"PENDING", "PUBLISHED", "REJECTED", "DRAFT"}, live : BOOLEAN]
            /\ card' \in [there : BOOLEAN, buttons : BOOLEAN, line : Action \union {"none"}]
        BY <2>1, <3>1, Zenon DEF CardsTypeOK
      <4>2. press' \in [Press -> Asked \union {NoPress}]
        BY <2>1, <3>1, Zenon DEF CardsTypeOK
      <4>3. /\ telegram' \in {"off", "no chat", "on"}
            /\ posting' \in {"none", "reading", "pictures", "text", "done"}
            /\ writes' \in 0..MaxWrites
            /\ decidedBy' \in {"press", "others"} /\ overlap' \in BOOLEAN
        BY <2>1, <3>1, Zenon DEF CardsTypeOK
      <4> QED
        BY <4>1, <4>2, <4>3, Zenon DEF CardsTypeOK
    <3>3. CardTellsDecision'
      BY <2>1, <3>1, Zenon DEF CardTellsDecision
    <3> QED
      BY <3>2, <3>3
  <2>4. CardsInv /\ UNCHANGED <<card, posting, overlap>>
    BY <2>1
  <2> HIDE <2>1
  <2> QED
    BY <2>2, <2>3, <2>4 DEF CardsInv
<1> QED
  BY <1>2, <1>3, CardPosted, PressStarts, PressDecides DEF CardsNext

LEMMA CardsInvInit == CardsInit => CardsInv
<1> SUFFICES ASSUME CardsInit PROVE CardsInv
  OBVIOUS
<1>1. \A p \in Press : press[p] = NoPress
  BY DEF CardsInit
<1>2. Under = {} /\ Alone
  BY <1>1, NoPressFacts DEF Under, Alone, AloneAt, CardsInit
<1>3. CardsTypeOK
  <2>1. press \in [Press -> Asked \union {NoPress}]
    BY NoPressFacts DEF CardsInit
  <2>2. writes \in 0..MaxWrites
    <3>1. writes = 0
      BY DEF CardsInit
    <3> QED
      BY <3>1, CardsAssumption
  <2>3. /\ goods \in [status : {"PENDING", "PUBLISHED", "REJECTED", "DRAFT"}, live : BOOLEAN]
        /\ card \in [there : BOOLEAN, buttons : BOOLEAN, line : Action \union {"none"}]
    BY DEF CardsInit
  <2>4. /\ telegram \in {"off", "no chat", "on"} /\ decidedBy \in {"press", "others"}
        /\ posting \in {"none", "reading", "pictures", "text", "done"} /\ overlap \in BOOLEAN
    BY DEF CardsInit
  <2> QED
    BY <2>1, <2>2, <2>3, <2>4 DEF CardsTypeOK
<1> QED
  BY <1>2, <1>3 DEF CardsInit, CardsInv, CardTellsDecision

-----------------------------------------------------------------------------
(***************************************************************************)
(* What the bidders of an auction are told.                                *)
(***************************************************************************)
LEMMA TopIsHighest ==
    ASSUME NEW n \in Nat, NEW S \in SUBSET (1..n), S # {}
    PROVE  Top(S) \in S /\ \A c \in S : c <= Top(S)
<1> DEFINE T == {n - x : x \in S}
<1>1. T \subseteq Nat /\ T # {}
  <2>1. \A x \in S : x \in Nat /\ x <= n /\ n - x \in Nat
    OBVIOUS
  <2> QED
    BY <2>1
<1> HIDE DEF T
<1>2. PICK t \in T : \A s \in T : <<s, t>> \notin OpToRel(<, Nat)
  BY <1>1, WFMin, NatLessThanWellFounded
<1>3. \A s \in T : ~(s < t)
  BY <1>1, <1>2 DEF OpToRel
<1>4. PICK m \in S : t = n - m
  BY DEF T
<1>5. \A x \in S : x <= m
  <2> TAKE x \in S
  <2>1. n - x \in T /\ n - x \in Nat /\ t \in Nat
    BY <1>1 DEF T
  <2>2. ~(n - x < t)
    BY <1>3, <2>1
  <2> QED
    BY <1>4, <2>2
<1> QED
  BY <1>5 DEF Top

LEMMA TellerAt ==
    ASSUME NEW s \in TellerState
    PROVE  /\ s.pc \in {"offer", "outbid"} =>
                 s.user \in Player /\ s.previous \in Player \union {NoPlayer}
           /\ s.pc = "retract" => s.wasWinning \in BOOLEAN
           /\ s.pc \in {"rejected", "winner"} => s.user \in Player
           /\ s.pc \in {"sweep", "end"} => s.users \subseteq Player
  BY DEF TellerState, Quiet

LEMMA QuietState == Quiet \in TellerState /\ Quiet.pc = "idle"
  BY DEF Quiet, TellerState

LEMMA TopOfLive ==
    ASSUME NewsTypeOK, NEW S, S \subseteq DOMAIN offers
    PROVE  /\ S # {} => Top(S) \in S /\ Top(S) # 0
           /\ S = {} => Top(S) = 0
<1>1. PICK Offer : Offer = [by : Player, state : {"live", "rejected", "retracted", "deleted"}]
  OBVIOUS
<1>2. offers \in Seq(Offer)
  BY <1>1 DEF NewsTypeOK
<1>3. PICK n \in Nat : n = Len(offers) /\ S \subseteq 1..n
  BY <1>2
<1>4. S # {} => Top(S) \in S
  BY <1>3, TopIsHighest
<1>5. 0 \notin S
  BY <1>3
<1> QED
  BY <1>4, <1>5 DEF Top

LEMMA OffersFacts ==
    ASSUME NewsTypeOK
    PROVE  /\ Len(offers) \in Nat /\ MaxOffers \in Nat /\ Len(offers) <= MaxOffers
           /\ DOMAIN offers = 1..Len(offers) /\ LiveOffers \subseteq DOMAIN offers
           /\ LiveBidders \subseteq Player
           /\ Leader \in Player \union {NoPlayer} /\ FoundWinning \in Player \union {NoPlayer}
           /\ \A b \in DOMAIN offers : offers[b].by \in Player
<1>1. /\ Len(offers) \in Nat /\ DOMAIN offers = 1..Len(offers) /\ Len(offers) <= MaxOffers
      /\ \A b \in DOMAIN offers : offers[b].by \in Player
  <2>1. PICK Offer : Offer = [by : Player, state : {"live", "rejected", "retracted", "deleted"}]
    OBVIOUS
  <2>2. offers \in Seq(Offer) /\ Len(offers) <= MaxOffers
    BY <2>1 DEF NewsTypeOK
  <2>3. Len(offers) \in Nat /\ DOMAIN offers = 1..Len(offers) /\ \A b \in 1..Len(offers) : offers[b] \in Offer
    BY <2>2
  <2> QED
    BY <2>1, <2>2, <2>3
<1>2. LiveOffers \subseteq DOMAIN offers /\ winning \subseteq DOMAIN offers
  BY DEF LiveOffers, NewsTypeOK
<1>3. LiveBidders \subseteq Player
  BY <1>1, <1>2 DEF LiveBidders
<1>4. \A S \in SUBSET DOMAIN offers : BidderOf(Top(S)) \in Player \union {NoPlayer}
  BY <1>1, TopOfLive DEF BidderOf
<1>5. Leader \in Player \union {NoPlayer} /\ FoundWinning \in Player \union {NoPlayer}
  BY <1>2, <1>4 DEF Leader, FoundWinning
<1> QED
  BY <1>1, <1>2, <1>3, <1>5, NewsAssumption

LEMMA TurnFacts ==
    ASSUME NewsTypeOK, NEW h \in Teller, NEW state \in TellerState, Turn(h, state)
    PROVE  /\ telling' \in [Teller -> TellerState] /\ telling'[h] = state
           /\ \A g \in Teller \ {h} : telling'[g] = telling[g]
  BY DEF NewsTypeOK, Turn

\* A step that changes neither the bids nor the auction, by a handler that has told,
\* or marks as overlooked, whom it no longer is about to tell.
LEMMA NewsKept ==
    ASSUME NewsInv, NEW h \in Teller, NEW state \in TellerState, Turn(h, state),
           UNCHANGED <<offers, winning, outcome>>, believes' \subseteq believes,
           unheard \subseteq unheard', unheard' \subseteq Player,
           heardEnd \subseteq heardEnd', heardEnd' \subseteq Player,
           state.pc \in {"retract", "restore"} => state.bid \in DOMAIN offers,
           \A x \in Told(h) : \/ x \in (Told(h))' \/ x \in unheard'
                              \/ outcome = "no" /\ x \notin believes'
                              \/ outcome # "no" /\ x \in heardEnd'
    PROVE  NewsInv'
<1>1. NewsTypeOK /\ NewsArrives /\ BidsAreThere
  BY DEF NewsInv
<1>2. /\ telling' \in [Teller -> TellerState] /\ telling'[h] = state
      /\ \A g \in Teller \ {h} : telling'[g] = telling[g]
  BY <1>1, TurnFacts
<1>3. LiveOffers' = LiveOffers /\ LiveBidders' = LiveBidders /\ Leader' = Leader
  BY DEF LiveOffers, LiveBidders, Leader, BidderOf
<1>4. NewsTypeOK'
  BY <1>1, <1>2, <1>3 DEF NewsTypeOK
<1>5. BidsAreThere'
  BY <1>1, <1>2 DEF BidsAreThere
<1>6. ASSUME NEW g \in Teller \ {h} PROVE (Told(g))' = Told(g)
  BY <1>2, <1>3 DEF Told, OutbidUser
<1>7. NewsArrives'
  <2>1. ASSUME NEW x, NEW g \in Teller, x \in Told(g)
        PROVE  \/ \E k \in Teller : x \in (Told(k))'
               \/ x \in unheard'
               \/ outcome = "no" /\ x \notin believes'
               \/ outcome # "no" /\ x \in heardEnd'
    BY <1>6, <2>1
  <2>2. ASSUME outcome = "no", NEW x \in believes' \ {Leader}
        PROVE  x \in unheard' \/ \E k \in Teller : x \in (Told(k))'
    <3>1. x \in unheard \/ \E g \in Teller : x \in Told(g)
      BY <1>1, <2>2 DEF NewsArrives
    <3> QED
      BY <2>1, <2>2, <3>1
  <2>3. ASSUME outcome \in {"expired", "finalized"}, NEW x \in LiveBidders
        PROVE  x \in heardEnd' \/ x \in unheard' \/ \E k \in Teller : x \in (Told(k))'
    <3>1. x \in heardEnd \/ x \in unheard \/ \E g \in Teller : x \in Told(g)
      BY <1>1, <2>3 DEF NewsArrives
    <3> QED
      BY <2>1, <2>3, <3>1
  <2> QED
    BY <1>3, <2>2, <2>3 DEF NewsArrives
<1> QED
  BY <1>4, <1>5, <1>7 DEF NewsInv

\* A handler that reads and checks goes on with what it has read.
LEMMA ReadingFits ==
    ASSUME NewsInv, NEW h \in Teller,
           \/ \E u \in Player : StartOffer(h, u)
           \/ \E b \in DOMAIN offers : StartRestore(h, b) \/ StartRetract(h, b)
           \/ SweepAuction(h) \/ CloseEarly(h) \/ StartUpdate(h)
    PROVE  NewsInv'
<1>1. NewsTypeOK /\ unheard \subseteq Player /\ heardEnd \subseteq Player
  BY DEF NewsInv, NewsTypeOK
<1>2. /\ LiveBidders \subseteq Player /\ FoundWinning \in Player \union {NoPlayer}
      /\ DOMAIN offers \subseteq 1..MaxOffers
  <2>1. Len(offers) \in Nat /\ MaxOffers \in Nat /\ Len(offers) <= MaxOffers
        /\ DOMAIN offers = 1..Len(offers)
    BY <1>1, OffersFacts
  <2> QED
    BY <1>1, <2>1, OffersFacts
<1>3. ASSUME NEW state \in TellerState, Turn(h, state),
             state.pc \in {"retract", "restore"} => state.bid \in DOMAIN offers,
             telling[h] = Quiet, UNCHANGED <<offers, winning, outcome, believes, unheard, heardEnd>>
      PROVE  NewsInv'
  <2>1. Told(h) = {}
    BY <1>3, QuietState DEF Told
  <2> QED
    BY <1>1, <1>3, <2>1, NewsKept
<1>4. ASSUME NEW u \in Player, StartOffer(h, u) PROVE NewsInv'
  <2>1. PICK state : state = [pc |-> "offer", user |-> u, previous |-> FoundWinning]
    OBVIOUS
  <2>2. state \in TellerState /\ state.pc = "offer"
    BY <1>2, <2>1 DEF TellerState
  <2> QED
    BY <1>3, <1>4, <2>1, <2>2 DEF StartOffer
<1>5. ASSUME NEW b \in DOMAIN offers, StartRestore(h, b) PROVE NewsInv'
  <2>1. PICK state : state = [pc |-> "restore", bid |-> b]
    OBVIOUS
  <2>2. state \in TellerState /\ state.bid \in DOMAIN offers
    BY <1>2, <2>1 DEF TellerState
  <2> QED
    BY <1>3, <1>5, <2>1, <2>2 DEF StartRestore
<1>6. ASSUME NEW b \in DOMAIN offers, StartRetract(h, b) PROVE NewsInv'
  <2>1. PICK marked : marked = (b \in winning)
    OBVIOUS
  <2>2. PICK state : state = [pc |-> "retract", bid |-> b, wasWinning |-> marked]
    OBVIOUS
  <2>3. marked \in BOOLEAN
    BY <2>1
  <2>4. state \in TellerState /\ state.bid \in DOMAIN offers
    BY <1>2, <2>2, <2>3 DEF TellerState
  <2> QED
    BY <1>3, <1>6, <2>1, <2>2, <2>4 DEF StartRetract
<1>7. CASE SweepAuction(h)
  <2>1. PICK state : state = [pc |-> "sweep", users |-> LiveBidders]
    OBVIOUS
  <2>2. state \in TellerState /\ state.pc = "sweep"
    BY <1>2, <2>1 DEF TellerState
  <2> QED
    BY <1>3, <1>7, <2>1, <2>2 DEF SweepAuction
<1>8. CASE CloseEarly(h) \/ StartUpdate(h)
  <2>1. PICK state \in {[pc |-> "close"], [pc |-> "update"]} : Turn(h, state)
    BY <1>8 DEF CloseEarly, StartUpdate
  <2>2. state \in TellerState /\ state.pc \in {"close", "update"}
    BY <2>1 DEF TellerState
  <2>3. telling[h] = Quiet /\ UNCHANGED <<offers, winning, outcome, believes, unheard, heardEnd>>
    BY <1>8 DEF CloseEarly, StartUpdate
  <2> QED
    BY <1>3, <2>1, <2>2, <2>3
<1> QED
  BY <1>4, <1>5, <1>6, <1>7, <1>8

LEMMA TellingFits ==
    ASSUME NewsInv, NEW h \in Teller,
           \/ TellOutbid(h) \/ TellRejected(h) \/ ReadParticipants(h) \/ TellEnd(h) \/ LoseNews(h)
    PROVE  NewsInv'
<1>1. NewsTypeOK /\ telling[h] \in TellerState /\ believes \subseteq Player
      /\ unheard \subseteq Player /\ heardEnd \subseteq Player
  BY DEF NewsInv, NewsTypeOK
<1>2. UNCHANGED <<offers, winning, outcome>> /\ LiveBidders \subseteq Player
  BY <1>1, OffersFacts DEF TellOutbid, TellRejected, ReadParticipants, TellEnd, LoseNews
<1>3. Told(h) \subseteq Player
  BY <1>1, <1>2, TellerAt DEF Told, OutbidUser
<1>4. CASE TellOutbid(h) \/ TellRejected(h)
  <2>1. PICK gone : gone = Told(h)
    OBVIOUS
  <2>2. /\ outcome = "no" => believes' = believes \ gone
        /\ outcome # "no" => gone = {}
    BY <1>4, <2>1 DEF TellOutbid, TellRejected, On, Told
  <2>3. Turn(h, Quiet) /\ believes' \subseteq believes /\ UNCHANGED <<unheard, heardEnd>>
    BY <1>4 DEF TellOutbid, TellRejected
  <2> QED
    BY <1>1, <1>2, <2>1, <2>2, <2>3, QuietState, NewsKept
<1>5. CASE ReadParticipants(h)
  <2>1. PICK state : state = [pc |-> "end", users |-> LiveBidders]
    OBVIOUS
  <2>2. state \in TellerState /\ state.pc = "end"
    BY <1>2, <2>1 DEF TellerState
  <2>3. Turn(h, state) /\ On(h, "participants") /\ UNCHANGED <<believes, unheard, heardEnd>>
    BY <1>5, <2>1 DEF ReadParticipants
  <2>4. Told(h) = IF outcome # "no" THEN LiveBidders ELSE {}
    BY <2>3 DEF Told, On
  <2>5. telling'[h] = state
    BY <1>1, <2>2, <2>3, TurnFacts
  <2>6. (Told(h))' = IF outcome # "no" THEN LiveBidders ELSE {}
    BY <1>2, <2>1, <2>2, <2>5 DEF Told
  <2> QED
    BY <1>1, <1>2, <2>2, <2>3, <2>4, <2>6, NewsKept
<1>6. CASE TellEnd(h)
  <2>1. /\ On(h, "end") \/ On(h, "winner")
        /\ heardEnd' = heardEnd \union
                       (IF outcome = "no" THEN {}
                        ELSE IF On(h, "end") THEN telling[h].users ELSE {telling[h].user})
        /\ Turn(h, Quiet) /\ UNCHANGED <<believes, unheard>>
    BY <1>6 DEF TellEnd
  <2>2. heardEnd' \subseteq Player /\ heardEnd \subseteq heardEnd'
    BY <1>1, <2>1, TellerAt DEF On
  <2>3. Told(h) \subseteq heardEnd' /\ (outcome = "no" => Told(h) = {})
    BY <2>1, <2>2 DEF Told, On
  <2> QED
    BY <1>1, <1>2, <2>1, <2>2, <2>3, QuietState, NewsKept
<1>7. CASE LoseNews(h)
  <2>1. unheard' = unheard \union Told(h) /\ Turn(h, Quiet) /\ UNCHANGED <<believes, heardEnd>>
    BY <1>7 DEF LoseNews
  <2> QED
    BY <1>1, <1>2, <1>3, <2>1, QuietState, NewsKept
<1> QED
  BY <1>4, <1>5, <1>6, <1>7

\* A change of the auction's status leaves nobody who believes; an end that is to be
\* announced marks or is about to tell every bidder.
LEMMA StatusFits ==
    ASSUME NewsInv, UNCHANGED offers, winning' \subseteq LiveOffers,
           telling' \in [Teller -> TellerState], BidsAreThere',
           outcome' \in {"no", "expired", "finalized", "winner", "updated"},
           believes' = {}, unheard' \subseteq Player, heardEnd' \subseteq Player,
           outcome' \in {"expired", "finalized"} =>
               \E h \in Teller : LiveBidders \subseteq unheard' \union (Told(h))'
    PROVE  NewsInv'
<1>1. LiveOffers' = LiveOffers /\ LiveBidders' = LiveBidders
  BY DEF LiveOffers, LiveBidders
<1>2. NewsTypeOK'
  BY <1>1 DEF NewsInv, NewsTypeOK
<1>3. NewsArrives'
  BY <1>1 DEF NewsArrives
<1> QED
  BY <1>2, <1>3 DEF NewsInv

LEMMA EndsFit ==
    ASSUME NewsInv,
           \/ EndByUpdate
           \/ \E h \in Teller : \/ EndExpired(h) \/ Finalize(h) \/ ReopenByUpdate(h)
                                \/ \E u \in Player : AnnounceWinner(h, u)
    PROVE  NewsInv'
<1>1. NewsTypeOK /\ BidsAreThere
  BY DEF NewsInv
<1>2. UNCHANGED offers /\ LiveBidders \subseteq Player
  BY <1>1, OffersFacts DEF EndByUpdate, EndExpired, Finalize, AnnounceWinner, ReopenByUpdate
<1>3. LiveBidders' = LiveBidders /\ winning \subseteq LiveOffers
  BY <1>1, <1>2 DEF LiveOffers, LiveBidders, NewsTypeOK
<1>4. ASSUME NEW h \in Teller, NEW state \in TellerState, Turn(h, state),
             state.pc \notin {"retract", "restore"}
      PROVE  telling' \in [Teller -> TellerState] /\ BidsAreThere' /\ telling'[h] = state
  <2>1. /\ telling' \in [Teller -> TellerState] /\ telling'[h] = state
        /\ \A g \in Teller \ {h} : telling'[g] = telling[g]
    BY <1>1, <1>4, TurnFacts
  <2>2. BidsAreThere'
    BY <1>1, <1>2, <1>4, <2>1 DEF BidsAreThere
  <2> QED
    BY <2>1, <2>2
<1>5. ASSUME NEW h \in Teller, EndExpired(h) PROVE NewsInv'
  <2>1. PICK users, state : users = telling[h].users /\ state = [pc |-> "end", users |-> users]
    OBVIOUS
  <2>2. telling[h] \in [pc : {"sweep"}, users : SUBSET Player]
    BY <1>1, <1>5 DEF EndExpired, On, TellerState, Quiet, NewsTypeOK
  <2>3. [telling[h] EXCEPT !.pc = "end"] = state /\ state \in TellerState
    BY <2>1, <2>2 DEF TellerState
  <2>4. /\ Turn(h, state) /\ outcome' = "expired" /\ believes' = {} /\ UNCHANGED <<winning, heardEnd>>
        /\ unheard' = (IF outcome = "no" THEN {} ELSE unheard) \union (LiveBidders \ users)
    BY <1>5, <2>1, <2>3 DEF EndExpired
  <2>5. telling' \in [Teller -> TellerState] /\ BidsAreThere' /\ telling'[h] = state
    BY <1>4, <2>1, <2>3, <2>4
  <2>6. (Told(h))' = users
    BY <2>1, <2>4, <2>5 DEF Told
  <2>7. unheard' \subseteq Player /\ LiveBidders \subseteq unheard' \union (Told(h))'
    BY <1>1, <1>2, <2>4, <2>6 DEF NewsTypeOK
  <2>8. heardEnd' \subseteq Player
    BY <1>1, <2>4 DEF NewsTypeOK
  <2> QED
    BY <1>2, <1>3, <2>4, <2>5, <2>7, <2>8, StatusFits
<1>6. ASSUME NEW h \in Teller, Finalize(h) PROVE NewsInv'
  <2>1. PICK state : state = [pc |-> "participants"]
    OBVIOUS
  <2>2. state \in TellerState
    BY <2>1 DEF TellerState
  <2>3. /\ Turn(h, state) /\ outcome' = "finalized" /\ believes' = {} /\ unheard' = {}
        /\ UNCHANGED <<winning, heardEnd>>
    BY <1>6, <2>1 DEF Finalize
  <2>4. telling' \in [Teller -> TellerState] /\ BidsAreThere' /\ telling'[h] = state
    BY <1>4, <2>1, <2>2, <2>3
  <2>5. (Told(h))' = LiveBidders'
    BY <2>1, <2>3, <2>4 DEF Told
  <2>6. heardEnd' \subseteq Player
    BY <1>1, <2>3 DEF NewsTypeOK
  <2> QED
    BY <1>2, <1>3, <2>3, <2>4, <2>5, <2>6, StatusFits
<1>7. ASSUME NEW h \in Teller, NEW u \in Player, AnnounceWinner(h, u) PROVE NewsInv'
  <2>1. PICK state : state = [pc |-> "winner", user |-> u]
    OBVIOUS
  <2>2. /\ Turn(h, state) /\ outcome' = "winner" /\ believes' = {} /\ unheard' = {}
        /\ winning' = {WinningOf(u)} /\ u \in LiveBidders /\ UNCHANGED heardEnd
    BY <1>7, <2>1 DEF AnnounceWinner
  <2>3. state \in TellerState
    BY <1>2, <2>1, <2>2 DEF TellerState
  <2>4. PICK mine : mine = {b \in LiveOffers : offers[b].by = u}
    OBVIOUS
  <2>5. mine # {} /\ mine \subseteq LiveOffers /\ winning' = {Top(mine)}
    BY <2>2, <2>4 DEF LiveBidders, WinningOf
  <2>6. winning' \subseteq LiveOffers
    BY <1>1, <2>5, TopOfLive DEF LiveOffers
  <2>7. telling' \in [Teller -> TellerState] /\ BidsAreThere'
    BY <1>4, <2>1, <2>2, <2>3
  <2>8. heardEnd' \subseteq Player
    BY <1>1, <2>2 DEF NewsTypeOK
  <2> QED
    BY <1>2, <2>2, <2>6, <2>7, <2>8, StatusFits
<1>8. ASSUME NEW h \in Teller, ReopenByUpdate(h) PROVE NewsInv'
  <2>1. /\ Turn(h, Quiet) /\ outcome' = "no" /\ believes' = {} /\ unheard' = {} /\ heardEnd' = {}
        /\ UNCHANGED winning
    BY <1>8 DEF ReopenByUpdate
  <2>2. telling' \in [Teller -> TellerState] /\ BidsAreThere'
    BY <1>4, <2>1, QuietState
  <2> QED
    BY <1>2, <1>3, <2>1, <2>2, StatusFits
<1>9. CASE EndByUpdate
  <2>1. /\ outcome' = "updated" /\ believes' = {} /\ unheard' = {}
        /\ UNCHANGED <<winning, telling, heardEnd>>
    BY <1>9 DEF EndByUpdate
  <2>2. telling' \in [Teller -> TellerState] /\ BidsAreThere' /\ heardEnd' \subseteq Player
    BY <1>1, <1>2, <2>1 DEF NewsTypeOK, BidsAreThere
  <2> QED
    BY <1>2, <1>3, <2>1, <2>2, StatusFits
<1> QED
  BY <1>5, <1>6, <1>7, <1>8, <1>9

\* A step that changes the bids, by a handler that was not about to tell: whoever led
\* and no longer does, and who has a live bid after the end and had none, is marked
\* or about to be told.
LEMMA OffersChange ==
    ASSUME NewsInv, UNCHANGED <<outcome, heardEnd>>, NewsTypeOK', DOMAIN offers \subseteq DOMAIN offers',
           NEW h \in Teller, NEW state \in TellerState, Turn(h, state), Told(h) = {},
           state.pc \notin {"retract", "restore"},
           outcome = "no" =>
              \A x \in believes' \ {Leader'} :
                 \/ x \in unheard' \union (Told(h))'
                 \/ x \in believes \ {Leader} /\ (x \in unheard => x \in unheard'),
           outcome # "no" =>
              \A x \in LiveBidders' :
                 \/ x \in unheard'
                 \/ x \in LiveBidders /\ (x \in unheard => x \in unheard')
    PROVE  NewsInv'
<1>1. NewsTypeOK /\ NewsArrives /\ BidsAreThere
  BY DEF NewsInv
<1>2. /\ telling'[h] = state /\ \A g \in Teller \ {h} : telling'[g] = telling[g]
  BY <1>1, TurnFacts
<1>3. BidsAreThere'
  BY <1>1, <1>2 DEF BidsAreThere
<1>4. \A g \in Teller \ {h} : \A x \in Told(g) :
         outcome = "no" \/ x \in LiveBidders' => x \in (Told(g))'
  BY <1>2 DEF Told, OutbidUser
<1>5. ASSUME outcome = "no", NEW x \in believes' \ {Leader'}
      PROVE  x \in unheard' \/ \E k \in Teller : x \in (Told(k))'
  <2>1. CASE x \in unheard' \union (Told(h))'
    BY <2>1
  <2>2. CASE x \in believes \ {Leader} /\ (x \in unheard => x \in unheard')
    <3>1. x \in unheard \/ \E g \in Teller : x \in Told(g)
      BY <1>1, <1>5, <2>2 DEF NewsArrives
    <3> QED
      BY <1>4, <1>5, <2>2, <3>1
  <2> QED
    BY <1>5, <2>1, <2>2
<1>6. ASSUME outcome \in {"expired", "finalized"}, NEW x \in LiveBidders'
      PROVE  x \in heardEnd' \/ x \in unheard' \/ \E k \in Teller : x \in (Told(k))'
  <2>1. CASE x \in unheard'
    BY <2>1
  <2>2. CASE x \in LiveBidders /\ (x \in unheard => x \in unheard')
    <3>1. x \in heardEnd \/ x \in unheard \/ \E g \in Teller : x \in Told(g)
      BY <1>1, <1>6, <2>2 DEF NewsArrives
    <3> QED
      BY <1>4, <1>6, <2>2, <3>1
  <2> QED
    BY <1>6, <2>1, <2>2
<1>7. NewsArrives'
  BY <1>5, <1>6 DEF NewsArrives
<1> QED
  BY <1>3, <1>7 DEF NewsInv

LEMMA OfferCommitted ==
    ASSUME NewsInv, NEW h \in Teller, CommitOffer(h)
    PROVE  NewsInv'
<1>1. NewsTypeOK /\ telling[h] \in TellerState /\ outcome = "no"
  BY DEF NewsInv, NewsTypeOK, CommitOffer
<1>2. PICK u, p, n : u = telling[h].user /\ p = telling[h].previous /\ n = Len(offers)
  OBVIOUS
<1>3. PICK state : state = [pc |-> "outbid", user |-> u, previous |-> p]
  OBVIOUS
<1>4. PICK kept : kept = [b \in DOMAIN offers |->
                            IF b \in LiveOffers /\ offers[b].by = u
                            THEN [offers[b] EXCEPT !.state = "deleted"] ELSE offers[b]]
  OBVIOUS
<1>5. PICK new : new = [by |-> u, state |-> "live"]
  OBVIOUS
<1>6. /\ On(h, "offer") /\ n < MaxOffers /\ offers' = Append(kept, new) /\ winning' = {n + 1}
      /\ believes' = believes \union {u}
      /\ unheard' = (unheard \union ({Leader} \ {p, NoPlayer})) \ {u}
      /\ Turn(h, state) /\ UNCHANGED <<outcome, heardEnd>>
  BY <1>2, <1>3, <1>4, <1>5 DEF CommitOffer
<1>7. u \in Player /\ p \in Player \union {NoPlayer}
  BY <1>1, <1>2, <1>6, TellerAt DEF On
<1>8. state \in TellerState
  BY <1>3, <1>7 DEF TellerState
<1>9. /\ telling' \in [Teller -> TellerState] /\ telling'[h] = state
  BY <1>1, <1>6, <1>8, TurnFacts
<1>10. PICK Offer : Offer = [by : Player, state : {"live", "rejected", "retracted", "deleted"}]
  OBVIOUS
<1>11. kept \in Seq(Offer) /\ Len(kept) = n /\ n \in Nat /\ n + 1 <= MaxOffers
  <2>1. DOMAIN offers = 1..n /\ n \in Nat /\ MaxOffers \in Nat
    BY <1>1, <1>2, OffersFacts
  <2>2. offers \in Seq(Offer)
    BY <1>1, <1>10 DEF NewsTypeOK
  <2>3. \A b \in 1..n : offers[b] \in Offer
    BY <1>2, <2>2
  <2>4. kept \in [1..n -> Offer]
    BY <1>4, <1>10, <2>1, <2>3
  <2>5. kept \in Seq(Offer) /\ Len(kept) = n
    BY <2>1, <2>4
  <2> QED
    BY <1>6, <2>1, <2>5
<1>12. /\ offers' \in Seq(Offer) /\ Len(offers') = n + 1 /\ DOMAIN offers' = 1..(n + 1)
       /\ offers'[n + 1] = new
  <2>1. new \in Offer
    BY <1>5, <1>7, <1>10
  <2> QED
    BY <1>6, <1>11, <2>1
<1>13. DOMAIN offers \subseteq DOMAIN offers'
  <2>1. DOMAIN offers = 1..n
    BY <1>1, <1>2, OffersFacts
  <2> QED
    BY <1>11, <1>12, <2>1
<1>14. n + 1 \in LiveOffers' /\ LiveOffers' \subseteq 1..(n + 1)
  BY <1>5, <1>11, <1>12 DEF LiveOffers
<1>15. Leader \in Player \union {NoPlayer}
  BY <1>1, OffersFacts
<1>16. NewsTypeOK'
  BY <1>1, <1>6, <1>7, <1>9, <1>10, <1>11, <1>12, <1>14, <1>15 DEF NewsTypeOK
<1>17. Leader' = u
  <2>1. PICK live : live = LiveOffers'
    OBVIOUS
  <2>2. Top(live) = n + 1
    <3>1. Top(live) \in live
      BY <1>11, <1>14, <2>1, TopIsHighest
    <3>2. n + 1 \in live /\ \A c \in live : c <= n + 1 /\ c \in Nat
      BY <1>11, <1>14, <2>1
    <3>3. \A c \in live : c <= Top(live)
      <4>1. \E b \in live : \A c \in live : c <= b
        BY <3>2
      <4> QED
        BY <3>2, <4>1 DEF Top
    <3> QED
      BY <1>11, <3>1, <3>2, <3>3
  <2>3. Leader' = offers'[n + 1].by
    BY <1>11, <2>1, <2>2 DEF Leader, BidderOf
  <2> QED
    BY <1>5, <1>12, <2>3
<1>18. (Told(h))' = {p} \ {NoPlayer, u} /\ Told(h) = {}
  BY <1>1, <1>3, <1>6, <1>9 DEF Told, OutbidUser, On
<1>19. ASSUME NEW x \in believes' \ {Leader'}
       PROVE  \/ x \in unheard' \union (Told(h))'
              \/ x \in believes \ {Leader} /\ (x \in unheard => x \in unheard')
  <2>1. x \in believes /\ x # u /\ x # NoPlayer
    BY <1>1, <1>6, <1>17, NewsAssumption DEF NewsTypeOK
  <2> QED
    BY <1>6, <1>18, <2>1
<1>20. state.pc = "outbid"
  BY <1>3
<1> QED
  BY <1>1, <1>6, <1>8, <1>13, <1>16, <1>18, <1>19, <1>20, OffersChange

\* One bid's state changes.
LEMMA StateOfOffer ==
    ASSUME NewsTypeOK, NEW b \in DOMAIN offers, NEW state \in {"live", "rejected", "retracted", "deleted"},
           offers' = [offers EXCEPT ![b].state = state]
    PROVE  /\ offers' \in Seq([by : Player, state : {"live", "rejected", "retracted", "deleted"}])
           /\ Len(offers') = Len(offers) /\ DOMAIN offers' = DOMAIN offers
           /\ \A c \in DOMAIN offers : offers'[c].by = offers[c].by
           /\ LiveOffers' = IF state = "live" THEN LiveOffers \union {b} ELSE LiveOffers \ {b}
<1>1. PICK Offer : Offer = [by : Player, state : {"live", "rejected", "retracted", "deleted"}]
  OBVIOUS
<1>2. offers \in Seq(Offer)
  BY <1>1 DEF NewsTypeOK
<1>3. PICK old \in Offer : old = offers[b]
  BY <1>2
<1>4. PICK new : new = [by |-> old.by, state |-> state]
  OBVIOUS
<1>5. new \in Offer /\ [old EXCEPT !.state = state] = new
  BY <1>1, <1>3, <1>4
<1>6. offers' = [offers EXCEPT ![b] = new]
  BY <1>3, <1>5
<1>7. /\ offers' \in Seq(Offer) /\ Len(offers') = Len(offers) /\ DOMAIN offers' = DOMAIN offers
      /\ offers'[b] = new /\ \A c \in DOMAIN offers \ {b} : offers'[c] = offers[c]
  <2>1. DOMAIN offers = 1..Len(offers)
    BY <1>2
  <2>2. /\ offers' \in Seq(Offer) /\ Len(offers') = Len(offers)
        /\ \A c \in 1..Len(offers) : offers'[c] = IF c = b THEN new ELSE offers[c]
    <3>1. PICK n \in Nat : n = Len(offers)
      BY <1>2
    <3>2. offers \in [1..n -> Offer]
      BY <1>2, <2>1, <3>1
    <3>3. PICK after : after = [offers EXCEPT ![b] = new]
      OBVIOUS
    <3>4. after \in [1..n -> Offer] /\ \A c \in 1..n : after[c] = IF c = b THEN new ELSE offers[c]
      BY <1>5, <2>1, <3>1, <3>2, <3>3
    <3>5. after \in Seq(Offer) /\ Len(after) = n
      BY <3>4
    <3> QED
      BY <1>6, <3>1, <3>3, <3>4, <3>5
  <2>3. DOMAIN offers' = DOMAIN offers
    BY <1>6
  <2> QED
    BY <2>1, <2>2, <2>3
<1>8. \A c \in DOMAIN offers : offers'[c].by = offers[c].by
  BY <1>3, <1>4, <1>7
<1>9. LiveOffers' = IF state = "live" THEN LiveOffers \union {b} ELSE LiveOffers \ {b}
  BY <1>4, <1>7 DEF LiveOffers
<1> QED
  BY <1>1, <1>7, <1>8, <1>9

\* Without a bid that is not the highest, the highest is the same.
LEMMA TopWithout ==
    ASSUME NewsTypeOK, NEW S, S \subseteq DOMAIN offers, NEW b, b # Top(S)
    PROVE  Top(S \ {b}) = Top(S)
<1>1. PICK n \in Nat : S \subseteq 1..n
  <2>1. Len(offers) \in Nat /\ DOMAIN offers = 1..Len(offers)
    BY OffersFacts
  <2> QED
    BY <2>1
<1>2. CASE S = {}
  BY <1>2
<1>3. CASE S # {}
  <2>1. Top(S) \in S /\ \A c \in S : c <= Top(S)
    BY <1>1, <1>3, TopIsHighest
  <2>2. Top(S) \in S \ {b}
    BY <2>1
  <2>3. Top(S \ {b}) \in S \ {b} /\ \A c \in S \ {b} : c <= Top(S \ {b})
    BY <1>1, <2>2, TopIsHighest
  <2>4. Top(S) <= Top(S \ {b}) /\ Top(S \ {b}) <= Top(S)
    BY <2>1, <2>2, <2>3
  <2>5. Top(S) \in Int /\ Top(S \ {b}) \in Int
    BY <1>1, <2>1, <2>3
  <2> QED
    BY <2>4, <2>5
<1> QED
  BY <1>2, <1>3

LEMMA OfferRetracted ==
    ASSUME NewsInv, NEW h \in Teller, NEW by \in Remover, CommitRetract(h, by)
    PROVE  NewsInv'
<1>1. NewsTypeOK /\ telling[h] \in TellerState /\ BidsAreThere /\ On(h, "retract")
  BY DEF NewsInv, CommitRetract, NewsTypeOK
<1>2. PICK b, u : b = telling[h].bid /\ u = offers[b].by
  OBVIOUS
<1>3. PICK state, to : /\ state = IF by = "seller" THEN [pc |-> "rejected", user |-> u] ELSE Quiet
                       /\ to = IF by = "seller" \/ offers[b].state = "rejected"
                               THEN "rejected" ELSE "retracted"
  OBVIOUS
<1>4. b \in DOMAIN offers
  BY <1>1, <1>2 DEF BidsAreThere, On
<1>5. /\ offers' = [offers EXCEPT ![b].state = to] /\ Turn(h, state)
      /\ winning' = (winning \ {b}) \union (IF telling[h].wasWinning THEN {NextHighest(b)} \ {0} ELSE {})
      /\ believes' = IF by = "bidder" THEN believes \ {u} ELSE believes
      /\ unheard' = IF by = "administrator" THEN unheard \union {u} ELSE unheard
      /\ UNCHANGED <<outcome, heardEnd>>
  BY <1>2, <1>3, <1>4 DEF CommitRetract
<1>6. u \in Player /\ LiveOffers \subseteq DOMAIN offers
  BY <1>1, <1>2, <1>4, OffersFacts
<1>7. state \in TellerState /\ state.pc \in {"rejected", "idle"}
  BY <1>3, <1>6, QuietState DEF TellerState
<1>8. /\ offers' \in Seq([by : Player, state : {"live", "rejected", "retracted", "deleted"}])
      /\ Len(offers') = Len(offers) /\ LiveOffers' = LiveOffers \ {b} /\ DOMAIN offers' = DOMAIN offers
      /\ \A c \in DOMAIN offers : offers'[c].by = offers[c].by
  BY <1>1, <1>3, <1>4, <1>5, StateOfOffer
<1>9. winning' \subseteq LiveOffers'
  <2>1. NextHighest(b) \in LiveOffers \ {b} \/ NextHighest(b) = 0
    BY <1>1, <1>6, TopOfLive DEF NextHighest
  <2>2. winning \subseteq LiveOffers
    BY <1>1 DEF NewsTypeOK
  <2> QED
    BY <1>5, <1>8, <2>1, <2>2
<1>10. telling' \in [Teller -> TellerState] /\ telling'[h] = state
  BY <1>1, <1>5, <1>7, TurnFacts
<1>11. NewsTypeOK'
  BY <1>1, <1>5, <1>6, <1>8, <1>9, <1>10 DEF NewsTypeOK
<1>12. Told(h) = {} /\ (by = "seller" /\ outcome = "no" => (Told(h))' = {u})
  BY <1>1, <1>3, <1>5, <1>10 DEF Told, On
<1>13. u = Leader \/ Leader' = Leader
  <2>1. PICK before, after : before = LiveOffers /\ after = before \ {b}
    OBVIOUS
  <2>2. CASE b = Top(before)
    <3>1. b # 0
      <4>1. Len(offers) \in Nat /\ DOMAIN offers = 1..Len(offers)
        BY <1>1, OffersFacts
      <4> QED
        BY <1>4, <4>1
    <3> QED
      BY <1>2, <2>1, <2>2, <3>1 DEF Leader, BidderOf
  <2>3. CASE b # Top(before)
    <3>1. Top(after) = Top(before)
      BY <1>1, <1>6, <2>1, <2>3, TopWithout
    <3>2. Top(before) = 0 \/ Top(before) \in DOMAIN offers
      BY <1>1, <1>6, <2>1, TopOfLive
    <3>3. LiveOffers' = after
      BY <1>8, <2>1
    <3>4. Leader' = Leader
      BY <1>8, <2>1, <3>1, <3>2, <3>3 DEF Leader, BidderOf
    <3> QED
      BY <3>4
  <2> QED
    BY <2>2, <2>3
<1>14. ASSUME outcome = "no", NEW x \in believes' \ {Leader'}
       PROVE  \/ x \in unheard' \union (Told(h))'
              \/ x \in believes \ {Leader} /\ (x \in unheard => x \in unheard')
  BY <1>4, <1>5, <1>12, <1>13, <1>14 DEF Remover
<1>15. ASSUME NEW x \in LiveBidders'
       PROVE  x \in LiveBidders /\ (x \in unheard => x \in unheard')
  BY <1>5, <1>6, <1>8 DEF LiveBidders
<1> QED
  BY <1>5, <1>7, <1>8, <1>11, <1>12, <1>14, <1>15, OffersChange

LEMMA OfferRestored ==
    ASSUME NewsInv, NEW h \in Teller, CommitRestore(h)
    PROVE  NewsInv'
<1>1. NewsTypeOK /\ telling[h] \in TellerState /\ BidsAreThere /\ On(h, "restore")
  BY DEF NewsInv, CommitRestore, NewsTypeOK
<1>2. PICK b, live : b = telling[h].bid /\ live = LiveOffers \union {b}
  OBVIOUS
<1>3. PICK top : top = Top(live)
  OBVIOUS
<1>4. b \in DOMAIN offers
  BY <1>1, <1>2 DEF BidsAreThere, On
<1>5. /\ offers' = [offers EXCEPT ![b].state = "live"] /\ winning' = {top} /\ Turn(h, Quiet)
      /\ unheard' = unheard \union (IF outcome = "no" THEN {Leader} \ {offers[top].by, NoPlayer}
                                                      ELSE {offers[b].by})
      /\ UNCHANGED <<outcome, believes, heardEnd>>
  BY <1>2, <1>3 DEF CommitRestore
<1>6. /\ LiveOffers \subseteq DOMAIN offers /\ Leader \in Player \union {NoPlayer}
      /\ offers[b].by \in Player
  BY <1>1, <1>4, OffersFacts
<1>7. /\ offers' \in Seq([by : Player, state : {"live", "rejected", "retracted", "deleted"}])
      /\ Len(offers') = Len(offers) /\ LiveOffers' = live /\ DOMAIN offers' = DOMAIN offers
      /\ \A c \in DOMAIN offers : offers'[c].by = offers[c].by
  BY <1>1, <1>2, <1>4, <1>5, StateOfOffer
<1>8. top \in live /\ top \in DOMAIN offers /\ top # 0
  BY <1>1, <1>2, <1>3, <1>4, <1>6, TopOfLive
<1>9. telling' \in [Teller -> TellerState]
  BY <1>1, <1>5, QuietState, TurnFacts
<1>10. NewsTypeOK'
  BY <1>1, <1>5, <1>6, <1>7, <1>8, <1>9 DEF NewsTypeOK
<1>11. Leader' = offers[top].by
  BY <1>3, <1>7, <1>8 DEF Leader, BidderOf
<1>12. Told(h) = {}
  BY <1>1 DEF Told, On
<1>13. ASSUME outcome = "no", NEW x \in believes' \ {Leader'}
       PROVE  \/ x \in unheard' \union (Told(h))'
              \/ x \in believes \ {Leader} /\ (x \in unheard => x \in unheard')
  <2>1. x \in believes /\ x # NoPlayer
    BY <1>1, <1>5, <1>13, NewsAssumption DEF NewsTypeOK
  <2> QED
    BY <1>5, <1>11, <1>13, <2>1
<1>14. ASSUME outcome # "no", NEW x \in LiveBidders'
       PROVE  \/ x \in unheard'
              \/ x \in LiveBidders /\ (x \in unheard => x \in unheard')
  BY <1>2, <1>4, <1>5, <1>6, <1>7, <1>14 DEF LiveBidders
<1> QED
  BY <1>5, <1>7, <1>10, <1>12, <1>13, <1>14, QuietState, OffersChange

LEMMA NewsInvNext ==
    ASSUME NewsInv, [NewsNext]_newsVars
    PROVE  NewsInv'
<1>1. ASSUME NewsNext PROVE NewsInv'
  BY <1>1, ReadingFits, TellingFits, EndsFit, OfferCommitted, OfferRetracted, OfferRestored
     DEF NewsNext
<1>2. CASE UNCHANGED newsVars
  <2>1. UNCHANGED <<offers, winning, outcome, telling, believes, unheard, heardEnd>>
    BY <1>2 DEF newsVars
  <2>2. LiveOffers' = LiveOffers /\ LiveBidders' = LiveBidders /\ Leader' = Leader
    BY <2>1 DEF LiveOffers, LiveBidders, Leader, BidderOf
  <2>3. \A g \in Teller : (Told(g))' = Told(g)
    BY <2>1, <2>2 DEF Told, OutbidUser
  <2>4. NewsTypeOK' /\ BidsAreThere'
    BY <2>1, <2>2 DEF NewsInv, NewsTypeOK, BidsAreThere
  <2>5. NewsArrives'
    BY <2>1, <2>2, <2>3 DEF NewsInv, NewsArrives
  <2> QED
    BY <2>4, <2>5 DEF NewsInv
<1> QED
  BY <1>1, <1>2

LEMMA NewsInvInit == NewsInit => NewsInv
<1> SUFFICES ASSUME NewsInit PROVE NewsInv
  OBVIOUS
<1>1. /\ offers = <<>> /\ winning = {} /\ outcome = "no" /\ believes = {} /\ unheard = {} /\ heardEnd = {}
      /\ telling = [h \in Teller |-> Quiet]
  BY DEF NewsInit
<1>2. /\ LiveOffers = {} /\ Len(offers) = 0
      /\ offers \in Seq([by : Player, state : {"live", "rejected", "retracted", "deleted"}])
  BY <1>1 DEF LiveOffers
<1>3. NewsTypeOK
  BY <1>1, <1>2, NewsAssumption, QuietState DEF NewsTypeOK
<1>4. NewsArrives /\ BidsAreThere
  BY <1>1, QuietState DEF NewsArrives, BidsAreThere
<1> QED
  BY <1>3, <1>4 DEF NewsInv

-----------------------------------------------------------------------------
(***************************************************************************)
(* The rows that the lists are made from.                                  *)
(***************************************************************************)
LEMMA RowReplaced ==
    ASSUME NEW S, NEW rows \in Seq(S), NEW i \in DOMAIN rows, NEW row \in S
    PROVE  /\ [rows EXCEPT ![i] = row] \in Seq(S)
           /\ Len([rows EXCEPT ![i] = row]) = Len(rows)
<1>1. PICK n \in Nat : n = Len(rows)
  OBVIOUS
<1>2. rows \in [1..n -> S] /\ i \in 1..n
  BY <1>1
<1>3. PICK after : after = [rows EXCEPT ![i] = row]
  OBVIOUS
<1>4. after \in [1..n -> S]
  BY <1>2, <1>3
<1>5. after \in Seq(S) /\ Len(after) = n
  BY <1>4
<1> QED
  BY <1>1, <1>3, <1>5

LEMMA RowAppended ==
    ASSUME NEW S, NEW rows \in Seq(S), NEW row \in S
    PROVE  Append(rows, row) \in Seq(S) /\ Len(Append(rows, row)) = Len(rows) + 1
  OBVIOUS

LEMMA LotSet ==
    ASSUME StorefrontTypeOK, NEW a \in DOMAIN lots, NEW lot \in Lot, SetLot(a, lot)
    PROVE  lots' \in Seq(Lot) /\ Len(lots') = Len(lots)
<1>1. lots \in Seq(Lot)
  BY DEF StorefrontTypeOK
<1> QED
  BY <1>1, RowReplaced DEF SetLot

LEMMA StorefrontFacts ==
    ASSUME StorefrontTypeOK
    PROVE  /\ clock \in Nat /\ MaxRows \in Nat /\ Nobody \notin Shopper
           /\ Len(lots) \in Nat /\ Len(purchases) \in Nat
           /\ NewEnds \subseteq Nat
           /\ \A a \in DOMAIN lots : lots[a] \in Lot
           /\ \A o \in DOMAIN purchases : purchases[o] \in Purchase
<1>1. lots \in Seq(Lot) /\ purchases \in Seq(Purchase) /\ clock \in 0..MaxClock
  BY DEF StorefrontTypeOK
<1>2. clock \in Nat /\ MaxRows \in Nat /\ Nobody \notin Shopper
  BY <1>1, StorefrontAssumption
<1>3. /\ \A a \in DOMAIN lots : lots[a] \in Lot
      /\ \A o \in DOMAIN purchases : purchases[o] \in Purchase
      /\ Len(lots) \in Nat /\ Len(purchases) \in Nat
  BY <1>1
<1>4. NewEnds \subseteq Nat
  <2>1. ASSUME NEW hours \in Duration PROVE clock + hours \in Nat
    BY <1>2, StorefrontAssumption
  <2> QED
    BY <2>1 DEF NewEnds
<1> QED
  BY <1>2, <1>3, <1>4

\* What a handler writes to the row of an auction.
LotFits(a, lot) ==
    /\ lot.gone \/ lot.status # "CANCELLED"
    /\ lot.status \in {"PENDING", "ACTIVE"} /\ ~lot.gone => a \in OpenLots

LotSteps(a) ==
    \/ \E u \in Shopper : \/ BidOnLot(a, u) \/ RetractFromLot(a, u) \/ RestoreOnLot(a, u)
                          \/ PickWinner(a, u)
    \/ EndLot(a) \/ UpdateLot(a) \/ CancelLot(a) \/ DropWinner(a)

LEMMA LotWrites ==
    ASSUME StorefrontTypeOK, NEW a \in DOMAIN lots, LotSteps(a)
    PROVE  \E lot \in Lot : SetLot(a, lot) /\ LotFits(a, lot)
<1>1. PICK old \in Lot : old = lots[a]
  BY StorefrontFacts
<1>2. NewEnds \subseteq Nat /\ old.ends \in Nat /\ old.bidders \subseteq Shopper
  BY StorefrontFacts DEF Lot
<1>3. ASSUME NEW u \in Shopper, BidOnLot(a, u)
      PROVE  \E lot \in Lot : SetLot(a, lot) /\ LotFits(a, lot)
  <2>1. PICK ends \in Nat : SetLot(a, [old EXCEPT !.status = "ACTIVE", !.ends = ends,
                                                 !.hasBids = TRUE, !.bidders = @ \union {u}])
    BY <1>1, <1>2, <1>3 DEF BidOnLot
  <2>2. PICK lot : lot = [old EXCEPT !.status = "ACTIVE", !.ends = ends, !.hasBids = TRUE,
                                     !.bidders = @ \union {u}]
    OBVIOUS
  <2>3. lot \in Lot /\ lot.status = "ACTIVE"
    BY <2>2 DEF Lot
  <2>4. LotFits(a, lot)
    BY <1>3, <2>3 DEF BidOnLot, TakesBidsOn, LotFits
  <2> QED
    BY <2>1, <2>2, <2>3, <2>4
<1>4. ASSUME NEW u \in Shopper, RetractFromLot(a, u) \/ RestoreOnLot(a, u)
      PROVE  \E lot \in Lot : SetLot(a, lot) /\ LotFits(a, lot)
  <2>1. PICK bidders \in SUBSET Shopper : SetLot(a, [old EXCEPT !.bidders = bidders])
    <3>1. \/ SetLot(a, [old EXCEPT !.bidders = old.bidders \ {u}])
          \/ SetLot(a, [old EXCEPT !.bidders = old.bidders \union {u}])
      BY <1>1, <1>4 DEF RetractFromLot, RestoreOnLot
    <3> QED
      BY <1>2, <3>1
  <2>2. PICK lot : lot = [old EXCEPT !.bidders = bidders]
    OBVIOUS
  <2>3. lot \in Lot /\ lot.status = old.status
    BY <2>2 DEF Lot
  <2>4. LotFits(a, lot)
    BY <1>1, <1>4, <2>3 DEF RetractFromLot, RestoreOnLot, LotFits
  <2> QED
    BY <2>1, <2>2, <2>3, <2>4
<1>5. ASSUME NEW u \in Shopper, PickWinner(a, u)
      PROVE  \E lot \in Lot : SetLot(a, lot) /\ LotFits(a, lot)
  <2>1. PICK lot : lot = [old EXCEPT !.status = "ENDED", !.winner = u]
    OBVIOUS
  <2>2. lot \in Lot /\ lot.status = "ENDED"
    BY <2>1 DEF Lot
  <2> QED
    BY <1>1, <1>5, <2>1, <2>2 DEF PickWinner, LotFits
<1>6. ASSUME EndLot(a) PROVE \E lot \in Lot : SetLot(a, lot) /\ LotFits(a, lot)
  <2>1. PICK lot : lot = [old EXCEPT !.status = "ENDED", !.winner = Nobody]
    OBVIOUS
  <2>2. lot \in Lot /\ lot.status = "ENDED"
    BY <2>1 DEF Lot
  <2> QED
    BY <1>1, <1>6, <2>1, <2>2 DEF EndLot, LotFits
<1>7. ASSUME UpdateLot(a) PROVE \E lot \in Lot : SetLot(a, lot) /\ LotFits(a, lot)
  <2>1. PICK ends \in Nat, status \in {"PENDING", "ACTIVE", "ENDED"} :
            SetLot(a, [old EXCEPT !.ends = ends, !.status = status])
    BY <1>1, <1>2, <1>7 DEF UpdateLot
  <2>2. PICK lot : lot = [old EXCEPT !.ends = ends, !.status = status]
    OBVIOUS
  <2>3. lot \in Lot /\ lot.status = status
    BY <2>2 DEF Lot
  <2>4. LotFits(a, lot)
    BY <1>7, <2>3 DEF UpdateLot, LotFits
  <2> QED
    BY <2>1, <2>2, <2>3, <2>4
<1>8. ASSUME CancelLot(a) PROVE \E lot \in Lot : SetLot(a, lot) /\ LotFits(a, lot)
  <2>1. PICK lot : lot = [old EXCEPT !.status = "CANCELLED", !.gone = TRUE]
    OBVIOUS
  <2>2. lot \in Lot /\ lot.gone
    BY <2>1 DEF Lot
  <2> QED
    BY <1>1, <1>8, <2>1, <2>2 DEF CancelLot, LotFits
<1>9. ASSUME DropWinner(a) PROVE \E lot \in Lot : SetLot(a, lot) /\ LotFits(a, lot)
  <2>1. PICK lot : lot = [old EXCEPT !.winner = Nobody, !.bidders = old.bidders \ {old.winner}]
    OBVIOUS
  <2>2. lot \in Lot /\ lot.status = old.status
    BY <2>1 DEF Lot
  <2>3. SetLot(a, lot) /\ old.status = "ENDED"
    BY <1>1, <1>9, <2>1 DEF DropWinner
  <2> QED
    BY <2>2, <2>3 DEF LotFits
<1> QED
  BY <1>3, <1>4, <1>5, <1>6, <1>7, <1>8, <1>9 DEF LotSteps

LEMMA LotsWritten ==
    ASSUME StorefrontTypeOK, NEW a \in DOMAIN lots, LotSteps(a)
    PROVE  lots' \in Seq(Lot) /\ Len(lots') = Len(lots)
  BY LotWrites, LotSet

LEMMA OrderChanged ==
    ASSUME StorefrontTypeOK, NEW o \in DOMAIN purchases,
           NEW status \in {"PROCESSING", "SHIPPED", "DELIVERED", "CANCELLED"}, NEW gone \in BOOLEAN,
           \/ purchases' = [purchases EXCEPT ![o].status = status]
           \/ purchases' = [purchases EXCEPT ![o].gone = gone, ![o].status = status]
    PROVE  purchases' \in Seq(Purchase) /\ Len(purchases') = Len(purchases)
<1>1. purchases \in Seq(Purchase)
  BY DEF StorefrontTypeOK
<1>2. PICK old \in Purchase : old = purchases[o]
  BY StorefrontFacts
<1>3. CASE purchases' = [purchases EXCEPT ![o].status = status]
  <2>1. PICK new : new = [old EXCEPT !.status = status]
    OBVIOUS
  <2>2. new \in Purchase
    BY <2>1 DEF Purchase
  <2>3. purchases' = [purchases EXCEPT ![o] = new]
    BY <1>2, <1>3, <2>1
  <2> QED
    BY <1>1, <2>2, <2>3, RowReplaced
<1>4. CASE purchases' = [purchases EXCEPT ![o].gone = gone, ![o].status = status]
  <2>1. PICK new : new = [old EXCEPT !.gone = gone, !.status = status]
    OBVIOUS
  <2>2. new \in Purchase
    BY <2>1 DEF Purchase
  <2>3. purchases' = [purchases EXCEPT ![o] = new]
    BY <1>1, <1>2, <1>4, <2>1
  <2> QED
    BY <1>1, <2>2, <2>3, RowReplaced
<1> QED
  BY <1>3, <1>4

LEMMA OrdersWritten ==
    ASSUME StorefrontTypeOK,
           \/ \E a \in DOMAIN lots, u \in Shopper : PickWinner(a, u)
           \/ \E a \in DOMAIN lots : DropWinner(a)
           \/ \E u \in Shopper : Buy(u)
           \/ \E o \in DOMAIN purchases : AdvanceOrder(o) \/ RemoveOrder(o)
    PROVE  /\ purchases' \in Seq(Purchase)
           /\ \/ Len(purchases') = Len(purchases)
              \/ MayInsert /\ Len(purchases') = Len(purchases) + 1
<1>1. purchases \in Seq(Purchase) /\ DOMAIN lots \subseteq Nat
  BY DEF StorefrontTypeOK
<1>2. ASSUME NEW u \in Shopper, NEW a \in Nat, MayInsert,
             purchases' = Append(purchases, NewPurchase(u, a))
      PROVE  purchases' \in Seq(Purchase) /\ MayInsert /\ Len(purchases') = Len(purchases) + 1
  <2>1. NewPurchase(u, a) \in Purchase
    BY DEF NewPurchase, Purchase
  <2> QED
    BY <1>1, <1>2, <2>1, RowAppended
<1>3. ASSUME NEW a \in DOMAIN lots, NEW u \in Shopper, PickWinner(a, u)
      PROVE  /\ purchases' \in Seq(Purchase)
             /\ \/ Len(purchases') = Len(purchases)
                \/ MayInsert /\ Len(purchases') = Len(purchases) + 1
  BY <1>1, <1>2, <1>3 DEF PickWinner
<1>4. ASSUME NEW u \in Shopper, Buy(u)
      PROVE  purchases' \in Seq(Purchase) /\ MayInsert /\ Len(purchases') = Len(purchases) + 1
  BY <1>2, <1>4 DEF Buy
<1>5. ASSUME NEW a \in DOMAIN lots, DropWinner(a)
      PROVE  purchases' \in Seq(Purchase) /\ Len(purchases') = Len(purchases)
  <2>1. CASE UNCHANGED purchases
    BY <1>1, <2>1
  <2>2. ASSUME NEW o \in DOMAIN purchases, purchases' = [purchases EXCEPT ![o].status = "CANCELLED"]
        PROVE  purchases' \in Seq(Purchase) /\ Len(purchases') = Len(purchases)
    BY <2>2, OrderChanged
  <2>3. UNCHANGED purchases \/
        \E o \in DOMAIN purchases : purchases' = [purchases EXCEPT ![o].status = "CANCELLED"]
    BY <1>5 DEF DropWinner, OrderOnLot
  <2> QED
    BY <2>1, <2>2, <2>3
<1>6. ASSUME NEW o \in DOMAIN purchases, AdvanceOrder(o) \/ RemoveOrder(o)
      PROVE  purchases' \in Seq(Purchase) /\ Len(purchases') = Len(purchases)
  <2>1. CASE AdvanceOrder(o)
    <3>1. purchases[o].status \in {"PROCESSING", "SHIPPED", "DELIVERED", "CANCELLED"}
      BY StorefrontFacts DEF Purchase
    <3>2. PICK to \in {"SHIPPED", "DELIVERED", "CANCELLED"} :
              purchases' = [purchases EXCEPT ![o].status = to]
      BY <2>1, <3>1 DEF AdvanceOrder
    <3> QED
      BY <3>2, OrderChanged
  <2>2. CASE RemoveOrder(o)
    BY <2>2, OrderChanged DEF RemoveOrder
  <2> QED
    BY <1>6, <2>1, <2>2
<1> QED
  BY <1>3, <1>4, <1>5, <1>6

LEMMA StorefrontTypeNext ==
    ASSUME StorefrontTypeOK, [StorefrontNext]_shopVars
    PROVE  StorefrontTypeOK'
<1>1. /\ lots \in Seq(Lot) /\ purchases \in Seq(Purchase) /\ clock \in 0..MaxClock
      /\ listing \in [status : ListingStatus, gone : BOOLEAN]
      /\ Len(lots) + Len(purchases) <= MaxRows
  BY DEF StorefrontTypeOK
<1>2. /\ clock \in Nat /\ MaxRows \in Nat /\ MaxClock \in Nat
      /\ Len(lots) \in Nat /\ Len(purchases) \in Nat
  BY StorefrontFacts, StorefrontAssumption
<1>3. ASSUME listing' \in [status : ListingStatus, gone : BOOLEAN], UNCHANGED clock,
             lots' \in Seq(Lot), purchases' \in Seq(Purchase),
             \/ Len(lots') = Len(lots) /\ Len(purchases') = Len(purchases)
             \/ Len(lots') = Len(lots) + 1 /\ Len(purchases') = Len(purchases) /\ MayInsert
             \/ Len(lots') = Len(lots) /\ Len(purchases') = Len(purchases) + 1 /\ MayInsert
      PROVE  StorefrontTypeOK'
  <2>1. Len(lots') + Len(purchases') <= MaxRows
    BY <1>1, <1>2, <1>3 DEF MayInsert
  <2> QED
    BY <1>1, <1>3, <2>1 DEF StorefrontTypeOK
<1>4. CASE Hour
  <2>1. clock' \in 0..MaxClock /\ UNCHANGED <<listing, lots, purchases>>
    BY <1>2, <1>4 DEF Hour
  <2> QED
    BY <1>1, <2>1 DEF StorefrontTypeOK
<1>5. CASE SetListingStatus \/ RemoveListing
  <2>1. listing' \in [status : ListingStatus, gone : BOOLEAN]
    <3>1. \/ listing' = [status |-> "DRAFT", gone |-> TRUE]
          \/ \E to \in ListingStatus : listing' = [listing EXCEPT !.status = to]
      BY <1>5 DEF SetListingStatus, RemoveListing
    <3>2. "DRAFT" \in ListingStatus
      BY DEF ListingStatus
    <3>3. [status |-> "DRAFT", gone |-> TRUE] \in [status : ListingStatus, gone : BOOLEAN]
      BY <3>2
    <3>4. ASSUME NEW to \in ListingStatus
          PROVE  [listing EXCEPT !.status = to] \in [status : ListingStatus, gone : BOOLEAN]
      BY <1>1
    <3> QED
      BY <3>1, <3>3, <3>4
  <2> QED
    BY <1>1, <1>3, <1>5, <2>1 DEF SetListingStatus, RemoveListing
<1>6. CASE OpenLot
  <2>1. PICK lot : lot = [status |-> "PENDING", ends |-> clock, bidders |-> {},
                          hasBids |-> FALSE, winner |-> Nobody, gone |-> FALSE]
    OBVIOUS
  <2>2. lot \in Lot
    BY <1>2, <2>1 DEF Lot
  <2>3. lots' = Append(lots, lot) /\ MayInsert /\ UNCHANGED <<listing, purchases, clock>>
    BY <1>6, <2>1 DEF OpenLot
  <2>4. lots' \in Seq(Lot) /\ Len(lots') = Len(lots) + 1
    BY <1>1, <2>2, <2>3, RowAppended
  <2> QED
    BY <1>1, <1>3, <2>3, <2>4
<1>7. ASSUME NEW a \in DOMAIN lots, NEW u \in Shopper,
             BidOnLot(a, u) \/ RetractFromLot(a, u) \/ RestoreOnLot(a, u)
      PROVE  StorefrontTypeOK'
  <2>1. lots' \in Seq(Lot) /\ Len(lots') = Len(lots)
    BY <1>7, LotsWritten DEF LotSteps
  <2>2. UNCHANGED <<listing, purchases, clock>>
    BY <1>7 DEF BidOnLot, RetractFromLot, RestoreOnLot
  <2> QED
    BY <1>1, <1>3, <2>1, <2>2
<1>8. ASSUME NEW a \in DOMAIN lots, EndLot(a) \/ UpdateLot(a) \/ CancelLot(a)
      PROVE  StorefrontTypeOK'
  <2>1. lots' \in Seq(Lot) /\ Len(lots') = Len(lots)
    BY <1>8, LotsWritten DEF LotSteps
  <2>2. UNCHANGED <<purchases, clock>> /\ listing' \in {listing, [listing EXCEPT !.status = "DRAFT"]}
    BY <1>8 DEF EndLot, UpdateLot, CancelLot
  <2>3. listing' \in [status : ListingStatus, gone : BOOLEAN]
    BY <1>1, <2>2 DEF ListingStatus
  <2> QED
    BY <1>1, <1>3, <2>1, <2>2, <2>3
<1>9. ASSUME NEW a \in DOMAIN lots, DropWinner(a) \/ \E u \in Shopper : PickWinner(a, u)
      PROVE  StorefrontTypeOK'
  <2>1. lots' \in Seq(Lot) /\ Len(lots') = Len(lots)
    BY <1>9, LotsWritten DEF LotSteps
  <2>2. /\ purchases' \in Seq(Purchase)
        /\ \/ Len(purchases') = Len(purchases)
           \/ MayInsert /\ Len(purchases') = Len(purchases) + 1
    BY <1>9, OrdersWritten
  <2>3. UNCHANGED <<listing, clock>>
    BY <1>9 DEF DropWinner, PickWinner
  <2> QED
    BY <1>1, <1>3, <2>1, <2>2, <2>3
<1>10. CASE \/ \E u \in Shopper : Buy(u)
            \/ \E o \in DOMAIN purchases : AdvanceOrder(o) \/ RemoveOrder(o)
  <2>1. /\ purchases' \in Seq(Purchase)
        /\ \/ Len(purchases') = Len(purchases)
           \/ MayInsert /\ Len(purchases') = Len(purchases) + 1
    BY <1>10, OrdersWritten
  <2>2. UNCHANGED <<listing, lots, clock>>
    BY <1>10 DEF Buy, AdvanceOrder, RemoveOrder
  <2> QED
    BY <1>1, <1>3, <2>1, <2>2
<1>11. CASE UNCHANGED shopVars
  BY <1>11 DEF shopVars, StorefrontTypeOK
<1> QED
  BY <1>4, <1>5, <1>6, <1>7, <1>8, <1>9, <1>10, <1>11 DEF StorefrontNext


\* A row is written that is open only if it was, and of which some number bounds the end.
LEMMA LotSetFits ==
    ASSUME ShopInv, NEW a \in DOMAIN lots, NEW lot \in Lot, SetLot(a, lot),
           LotFits(a, lot)
    PROVE  LotsFit'
<1>1. lots \in Seq(Lot) /\ lots' = [lots EXCEPT ![a] = lot]
  BY DEF ShopInv, StorefrontTypeOK, SetLot
<1>2. /\ DOMAIN lots' = DOMAIN lots /\ lots'[a] = lot
      /\ \A b \in DOMAIN lots \ {a} : lots'[b] = lots[b]
  BY <1>1
<1>3. OpenLots' \subseteq OpenLots
  BY <1>2 DEF OpenLots, LotFits
<1>4. \A b \in ShownLots' : lots'[b].status # "CANCELLED"
  BY <1>2 DEF ShopInv, LotsFit, ShownLots, LotFits
<1>5. \E n \in Nat : \A b \in DOMAIN lots' : lots'[b].ends <= n
  <2>1. PICK n \in Nat : \A b \in DOMAIN lots : lots[b].ends <= n
    BY DEF ShopInv, LotsFit
  <2>2. PICK ends \in Nat : ends = lot.ends
    BY DEF Lot
  <2>3. \A b \in DOMAIN lots : lots[b].ends \in Nat
    BY StorefrontFacts DEF ShopInv, Lot
  <2>4. \A b \in DOMAIN lots' : lots'[b].ends <= n + ends
    BY <1>2, <2>1, <2>2, <2>3
  <2> QED
    BY <2>1, <2>2, <2>4
<1> QED
  BY <1>3, <1>4, <1>5 DEF ShopInv, LotsFit

LEMMA LotsFitNext == ASSUME ShopInv, [StorefrontNext]_shopVars PROVE LotsFit'
<1>0. StorefrontTypeOK /\ LotsFit /\ lots \in Seq(Lot)
  BY DEF ShopInv, StorefrontTypeOK
<1>1. ASSUME UNCHANGED lots PROVE LotsFit'
  BY <1>0, <1>1 DEF LotsFit, OpenLots, ShownLots
<1>2. CASE OpenLot
  <2>1. PICK lot : lot = [status |-> "PENDING", ends |-> clock, bidders |-> {},
                          hasBids |-> FALSE, winner |-> Nobody, gone |-> FALSE]
    OBVIOUS
  <2>2. /\ DOMAIN lots' = DOMAIN lots \union {Len(lots) + 1} /\ lots'[Len(lots) + 1] = lot
        /\ \A a \in DOMAIN lots : lots'[a] = lots[a]
    BY <1>0, <1>2, <2>1 DEF OpenLot
  <2>3. OpenLots = {} /\ lot.ends = clock /\ lot.status = "PENDING" /\ clock \in Nat
    BY <1>0, <1>2, <2>1, StorefrontFacts DEF OpenLot
  <2>4. \A a, b \in OpenLots' : a = b
    BY <2>2, <2>3 DEF OpenLots
  <2>5. \A a \in ShownLots' : lots'[a].status # "CANCELLED"
    BY <1>0, <2>2, <2>3 DEF LotsFit, ShownLots
  <2>6. \E n \in Nat : \A a \in DOMAIN lots' : lots'[a].ends <= n
    <3>1. PICK n \in Nat : \A a \in DOMAIN lots : lots[a].ends <= n
      BY <1>0 DEF LotsFit
    <3>2. \A a \in DOMAIN lots : lots[a].ends \in Nat
      BY <1>0, StorefrontFacts DEF Lot
    <3>3. \A a \in DOMAIN lots' : lots'[a].ends <= n + clock
      BY <2>2, <2>3, <3>1, <3>2
    <3> QED
      BY <2>3, <3>1, <3>3
  <2> QED
    BY <2>4, <2>5, <2>6 DEF LotsFit
<1>3. ASSUME NEW a \in DOMAIN lots, LotSteps(a) PROVE LotsFit'
  BY <1>0, <1>3, LotWrites, LotSetFits
<1> QED
  BY <1>1, <1>2, <1>3 DEF StorefrontNext, LotSteps, shopVars, Hour, SetListingStatus, RemoveListing, Buy,
                          AdvanceOrder, RemoveOrder

-----------------------------------------------------------------------------
(***************************************************************************)
(* What the lists show.                                                    *)
(***************************************************************************)
\* A set of numbers that has a bound has a largest one.
LEMMA LargestExists ==
    ASSUME NEW S \in SUBSET Nat, S # {}, NEW n \in Nat, \A x \in S : x <= n
    PROVE  \E m \in S : \A x \in S : x <= m
<1> DEFINE T == {n - x : x \in S}
<1>1. \A x \in S : x \in Nat /\ n - x \in Nat
  OBVIOUS
<1>2. T \subseteq Nat /\ T # {}
  BY <1>1
<1> HIDE DEF T
<1>3. PICK t \in T : \A s \in T : <<s, t>> \notin OpToRel(<, Nat)
  BY <1>2, WFMin, NatLessThanWellFounded
<1>4. \A s \in T : ~(s < t)
  BY <1>2, <1>3 DEF OpToRel
<1>5. PICK m \in S : t = n - m
  BY DEF T
<1>6. ASSUME NEW x \in S PROVE x <= m
  <2>1. ~(n - x < t)
    BY <1>4 DEF T
  <2> QED
    BY <1>1, <1>5, <2>1
<1> QED
  BY <1>6

\* A product is shown with some auction if it has one, and with its newest order.
LEMMA SomeAuctionIsShown ==
    ASSUME ShopInv
    PROVE  /\ ActiveAuctions # {}
           /\ \A a \in ActiveAuctions :
                  IF ShownLots = {} THEN a = 0
                  ELSE /\ a \in ShownLots /\ a # 0
                       /\ \A b \in ShownLots : lots[b].ends <= lots[a].ends
<1>1. ShownLots \subseteq DOMAIN lots /\ DOMAIN lots \subseteq Nat \ {0}
  BY DEF ShopInv, StorefrontTypeOK, ShownLots
<1>2. CASE ShownLots = {}
  BY <1>2 DEF ActiveAuctions
<1>3. CASE ShownLots # {}
  <2>1. PICK n \in Nat : \A a \in DOMAIN lots : lots[a].ends <= n
    BY DEF ShopInv, LotsFit
  <2>2. \A a \in DOMAIN lots : lots[a].ends \in Nat
    BY StorefrontFacts DEF ShopInv, Lot
  <2> DEFINE ends == {lots[a].ends : a \in ShownLots}
  <2>3. ends \subseteq Nat /\ ends # {} /\ \A x \in ends : x <= n
    BY <1>1, <1>3, <2>1, <2>2
  <2> HIDE DEF ends
  <2>4. PICK m \in ends : \A x \in ends : x <= m
    BY <2>3, LargestExists
  <2>5. PICK a \in ShownLots : m = lots[a].ends
    BY DEF ends
  <2>6. \A b \in ShownLots : lots[b].ends <= lots[a].ends
    BY <2>4, <2>5 DEF ends
  <2> QED
    BY <1>1, <1>3, <2>6 DEF ActiveAuctions
<1> QED
  BY <1>2, <1>3

LEMMA NewestOrder ==
    ASSUME ShopInv, ShownOrders # {}
    PROVE  \E o \in ShownOrders : LastOrderStatus = purchases[o].status
<1>1. purchases \in Seq(Purchase)
  BY DEF ShopInv, StorefrontTypeOK
<1>2. /\ ShownOrders \subseteq Nat /\ Len(purchases) \in Nat
      /\ \A o \in ShownOrders : o <= Len(purchases)
  BY <1>1 DEF ShownOrders
<1>3. \E o \in ShownOrders : \A p \in ShownOrders : p <= o
  BY <1>2, LargestExists
<1> QED
  BY <1>3 DEF LastOrderStatus

LEMMA OrderIsLast ==
    ASSUME ShopInv
    PROVE  /\ \A status \in {"PROCESSING", "SHIPPED", "DELIVERED"} :
                  LastOrderStatus = status => \E o \in ShownOrders : purchases[o].status = status
           /\ LastOrderStatus \in {"none", "PROCESSING", "SHIPPED", "DELIVERED", "CANCELLED"}
           /\ LastOrderStatus = "none" <=> ShownOrders = {}
<1>1. CASE ShownOrders = {}
  BY <1>1 DEF LastOrderStatus
<1>2. CASE ShownOrders # {}
  <2>1. PICK o \in ShownOrders : LastOrderStatus = purchases[o].status
    BY <1>2, NewestOrder
  <2>2. purchases[o].status \in {"PROCESSING", "SHIPPED", "DELIVERED", "CANCELLED"}
    BY StorefrontFacts DEF ShopInv, ShownOrders, Purchase
  <2> QED
    BY <1>2, <2>1, <2>2
<1> QED
  BY <1>1, <1>2

\* The cards of a product that is found.
LEMMA CardIs ==
    ASSUME ShopInv, NEW found \in BOOLEAN, NEW shop \in CardsOf(found)
    PROVE  /\ found /\ shop.sale = SaleStatus(shop.auction)
           /\ \/ ShownLots = {} /\ shop.auction = 0
              \/ /\ shop.auction \in ShownLots /\ shop.auction # 0
                 /\ \A b \in ShownLots : lots[b].ends <= lots[shop.auction].ends
<1>1. PICK a \in ActiveAuctions : found /\ shop = [auction |-> a, sale |-> SaleStatus(a)]
  BY DEF CardsOf
<1>2. shop.auction = a /\ shop.sale = SaleStatus(a)
  BY <1>1
<1> QED
  BY <1>1, <1>2, SomeAuctionIsShown

LEMMA FoundHasCard == ASSUME ShopInv, NEW found \in BOOLEAN PROVE CardsOf(found) # {} <=> found
  BY SomeAuctionIsShown DEF CardsOf

LEMMA LotKinds ==
    ASSUME ShopInv, NEW a \in ShownLots
    PROVE  /\ lots[a].status \in {"PENDING", "ACTIVE", "ENDED"} /\ lots[a].ends \in Nat
           /\ ~lots[a].gone /\ a \in DOMAIN lots
  BY StorefrontFacts DEF ShopInv, LotsFit, ShownLots, Lot

LEMMA LabelsFit == ASSUME ShopInv, NEW shop \in PageCards PROVE LabelFits(shop)
<1> DEFINE a == shop.auction
<1>0. FindProductById \in BOOLEAN /\ clock \in Nat
  BY StorefrontFacts DEF FindProductById, ShopInv
<1>1. /\ ~listing.gone /\ shop.sale = SaleStatus(a)
      /\ \/ ShownLots = {} /\ a = 0
         \/ /\ a \in ShownLots /\ a # 0
            /\ \A b \in ShownLots : lots[b].ends <= lots[a].ends
  BY <1>0, CardIs DEF PageCards, FindProductById
<1> HIDE DEF a
<1>2. ASSUME shop.sale = "onAuction"
      PROVE  InPhase("in_auction") /\ (TakesBidsOn(a) \/ clock = lots[a].ends)
  <2>1. a \in ShownLots /\ OnAuction(a)
    BY <1>1, <1>2 DEF SaleStatus
  <2> QED
    BY <1>0, <2>1, LotKinds DEF InPhase, OnAuction, TakesBidsOn, OpenLots
<1>3. ASSUME shop.sale = "available", NEW b \in ShownLots PROVE ~TakesBidsOn(b)
  <2> SUFFICES ASSUME TakesBidsOn(b) PROVE FALSE
    OBVIOUS
  <2>1. a \in ShownLots /\ ~OnAuction(a) /\ lots[a].status # "ENDED" /\ lots[b].ends <= lots[a].ends
    BY <1>1, <1>3 DEF SaleStatus
  <2>2. lots[a].status = "ACTIVE" /\ lots[a].ends < clock
    BY <1>0, <2>1, LotKinds DEF OnAuction
  <2>3. a \in OpenLots /\ b \in OpenLots
    BY <2>1, <2>2, LotKinds DEF OpenLots, TakesBidsOn
  <2>4. a = b
    BY <2>3 DEF ShopInv, LotsFit
  <2> QED
    BY <1>0, <2>1, <2>2, <2>4, LotKinds DEF TakesBidsOn
<1>4. ASSUME shop.sale = "sold" PROVE shop \in FindAllCards(Owner, TRUE, "any", "sold", TRUE)
  <2>1. InPhase("sold")
    <3>1. (a \in ShownLots /\ lots[a].status = "ENDED") \/ LastOrderStatus = "DELIVERED"
      BY <1>1, <1>4 DEF SaleStatus
    <3> QED
      BY <3>1, OrderIsLast DEF InPhase, HasOrder
  <2>2. FindAllProducts(Owner, TRUE, "any", "sold", TRUE)
    BY <1>1, <2>1 DEF FindAllProducts, MayAsk
  <2> QED
    BY <1>1, <2>2 DEF FindAllCards, CardsOf, PageCards, FindProductById
<1>5. ASSUME shop.sale = "awaitingDelivery" PROVE Counted("in_delivery")
  <2>1. LastOrderStatus \in {"PROCESSING", "SHIPPED"}
    BY <1>1, <1>5 DEF SaleStatus
  <2> QED
    BY <1>1, <2>1, OrderIsLast DEF Counted, InPhase, HasOrder
<1> QED
  BY <1>2, <1>3, <1>4, <1>5 DEF LabelFits, a

\* What the seller finds under a tab.
LEMMA UnderTab ==
    ASSUME ShopInv, NEW phase \in {"in_auction", "sold", "in_delivery"}
    PROVE  /\ FindAllProducts(Owner, TRUE, "any", phase, TRUE) \in BOOLEAN
           /\ FindAllProducts(Owner, TRUE, "any", phase, TRUE) <=>
                  /\ ~listing.gone /\ InPhase(phase)
                  /\ phase = "in_auction" => ~HasOrder({"DELIVERED"})
  BY DEF FindAllProducts, MayAsk

LEMMA TabsFit ==
    ASSUME ShopInv, NEW phase \in {"in_auction", "sold", "in_delivery"}
    PROVE  TabFits(phase) /\ CountFits(phase)
<1> DEFINE found == FindAllProducts(Owner, TRUE, "any", phase, TRUE)
<1>0. clock \in Nat
  BY StorefrontFacts DEF ShopInv
<1>1. ASSUME NEW shop \in FindAllCards(Owner, TRUE, "any", phase, TRUE)
      PROVE  IF phase = "in_auction"
             THEN shop.sale = "onAuction" \/
                  \E a, b \in ShownLots :
                      OnAuction(a) /\ ~OnAuction(b) /\ lots[a].ends <= lots[b].ends
             ELSE shop.sale = "available" =>
                      LastOrderStatus = "CANCELLED" \/ lots[shop.auction].status = "ACTIVE"
  <2>1. /\ InPhase(phase) /\ shop.sale = SaleStatus(shop.auction)
        /\ \/ ShownLots = {} /\ shop.auction = 0
           \/ /\ shop.auction \in ShownLots /\ shop.auction # 0
              /\ \A b \in ShownLots : lots[b].ends <= lots[shop.auction].ends
    BY UnderTab, CardIs DEF FindAllCards
  <2>2. CASE phase = "in_auction"
    <3>1. PICK a \in ShownLots : OnAuction(a)
      BY <2>1, <2>2 DEF InPhase
    <3>2. CASE OnAuction(shop.auction)
      BY <2>1, <2>2, <3>1, <3>2 DEF SaleStatus
    <3>3. CASE ~OnAuction(shop.auction)
      BY <2>1, <2>2, <3>1, <3>3
    <3> QED
      BY <3>2, <3>3
  <2>3. ASSUME phase # "in_auction", shop.sale = "available", LastOrderStatus # "CANCELLED"
        PROVE  lots[shop.auction].status = "ACTIVE"
    <3>1. LastOrderStatus = "none"
      BY <2>1, <2>3, OrderIsLast DEF SaleStatus
    <3>2. ShownOrders = {}
      BY <3>1, OrderIsLast
    <3>3. ShownLots # {}
      BY <2>1, <2>3, <3>2 DEF InPhase, HasOrder
    <3>4. /\ shop.auction \in ShownLots /\ ~OnAuction(shop.auction)
          /\ lots[shop.auction].status # "ENDED"
      BY <2>1, <2>3, <3>3 DEF SaleStatus
    <3> QED
      BY <3>4, LotKinds DEF OnAuction
  <2> QED
    BY <2>2, <2>3
<1>2. FindAllCards(Owner, TRUE, "any", phase, TRUE) # {} <=> found
  BY UnderTab, FoundHasCard DEF FindAllCards
<1>3. CountFits(phase)
  BY <1>2, UnderTab DEF CountFits, Counted
<1> QED
  BY <1>1, <1>3 DEF TabFits

LEMMA SellerDoes == ASSUME ShopInv PROVE SellerFinds
<1>1. FindAllProducts(Owner, TRUE, "any", "any", TRUE) <=> ~listing.gone /\ ~HasOrder({"DELIVERED"})
  BY DEF FindAllProducts, MayAsk
<1>2. HasOrder({"DELIVERED"}) => InPhase("sold")
  BY DEF InPhase
<1> QED
  BY <1>1, <1>2, UnderTab DEF SellerFinds

LEMMA VisitorDoes == ASSUME ShopInv PROVE VisitorFinds
<1> DEFINE found == FindAllProducts("visitor", TRUE, "any", "any", FALSE)
<1>1. found \in BOOLEAN /\ (found <=> CountedInCategory /\ ~HasOrder({"DELIVERED"}))
  BY DEF FindAllProducts, MayAsk, CountedInCategory
<1>2. /\ SearchProducts("any") \in BOOLEAN
      /\ SearchProducts("any") <=> CountedInCategory /\ ~HasOrder({"DELIVERED"})
  BY DEF SearchProducts, CountedInCategory
<1>3. CountedInCategory => FindProductById
  BY DEF CountedInCategory, FindProductById
<1>4. FindAllCards("visitor", TRUE, "any", "any", FALSE) \subseteq PageCards
  BY <1>1, <1>3 DEF FindAllCards, PageCards, CardsOf
<1>5. SearchCards("any") \subseteq PageCards
  BY <1>2, <1>3 DEF SearchCards, PageCards, CardsOf
<1>6. FindAllCards("visitor", TRUE, "any", "any", FALSE) # {} <=> found
  BY <1>1, FoundHasCard DEF FindAllCards
<1>7. HasOrder({"DELIVERED"}) => SearchCards("any") = {}
  BY <1>2 DEF SearchCards, CardsOf
<1> QED
  BY <1>1, <1>4, <1>5, <1>6, <1>7 DEF VisitorFinds

LEMMA ShopInvSays == ShopInv => StorefrontAgrees
<1> SUFFICES ASSUME ShopInv PROVE StorefrontAgrees
  OBVIOUS
<1>1. ShownLots = FindAllAuctions(TRUE) \union FindAllAuctions(FALSE)
  <2>1. clock \in Nat
    BY StorefrontFacts DEF ShopInv
  <2>2. \A a \in ShownLots : a \in FindAllAuctions(TRUE) \/ a \in FindAllAuctions(FALSE)
    BY <2>1, LotKinds DEF FindAllAuctions, OnAuction
  <2> QED
    BY <2>2 DEF FindAllAuctions
<1>2. \A u \in Shopper \union {Owner} : FindAllOrders(u) \subseteq FindOrderById(u)
  BY DEF FindAllOrders, FindOrderById
<1> QED
  BY <1>1, <1>2, LabelsFit, TabsFit, SellerDoes, VisitorDoes DEF StorefrontAgrees

-----------------------------------------------------------------------------
(***************************************************************************)
(* The market.  Its parts have no state in common.                         *)
(***************************************************************************)
MarketInv == CatalogueInv /\ CategoryInv /\ CardsInv /\ NewsInv /\ ShopInv /\ part \in Part

LEMMA PartsAlone ==
    ASSUME [Next]_<<partVars, part>>
    PROVE  /\ [CatalogueNext]_catalogueVars /\ [CategoryNext]_categoryVars /\ [CardsNext]_cardVars
           /\ [NewsNext]_newsVars /\ [StorefrontNext]_shopVars
           /\ UNCHANGED part
  BY DEF Next, Only, Keep, partVars

LEMMA Inductive == MarketInv /\ [Next]_<<partVars, part>> => MarketInv'
  BY PartsAlone, CatalogueInvNext, CategoryInvNext, CardsInvNext, NewsInvNext, StorefrontTypeNext,
     LotsFitNext DEF MarketInv, ShopInv

LEMMA Initially == Init => MarketInv
<1>1. StorefrontInit => ShopInv
  <2> SUFFICES ASSUME StorefrontInit PROVE ShopInv
    OBVIOUS
  <2>1. lots \in Seq(Lot) /\ purchases \in Seq(Purchase) /\ Len(lots) = 0 /\ Len(purchases) = 0
    BY DEF StorefrontInit
  <2>2. listing \in [status : ListingStatus, gone : BOOLEAN] /\ clock = 0
    BY DEF StorefrontInit, ListingStatus
  <2>3. clock \in 0..MaxClock
    BY <2>2, StorefrontAssumption
  <2>4. Len(lots) + Len(purchases) <= MaxRows
    BY <2>1, StorefrontAssumption
  <2>5. LotsFit
    <3>1. DOMAIN lots = {} /\ 0 \in Nat
      BY <2>1
    <3> QED
      BY <3>1 DEF LotsFit, OpenLots, ShownLots
  <2> QED
    BY <2>1, <2>2, <2>3, <2>4, <2>5 DEF StorefrontTypeOK, ShopInv
<1> QED
  BY <1>1, CatalogueInvInit, CategoryInvInit, CardsInvInit, NewsInvInit DEF Init, MarketInv

THEOREM Invariance == Spec => []MarketInv
  BY Initially, Inductive, PTL DEF Spec

\* The rows of every table, and what handlers carry between two statements, have the
\* shape that the model gives them.
THEOREM TypeCorrect == Spec => []TypeOK
<1>1. MarketInv => TypeOK
  BY DEF MarketInv, CatalogueInv, CategoryInv, CardsInv, NewsInv, ShopInv, Part, TypeOK
<1> QED
  BY <1>1, Invariance, PTL

\* What visitors are shown was seen by staff, or written by a handler that overlapped
\* with another.
THEOREM ShownWasReviewedCorrect == Spec => []ShownWasReviewed
<1>1. MarketInv => ShownWasReviewed
  BY DEF MarketInv, CatalogueInv, PublishedWasReviewed, ShownWasReviewed, Listed, Found
<1> QED
  BY <1>1, Invariance, PTL

\* A product has one open auction at most, and none once it is deleted, but for those
\* created at once with another or with the deletion.
THEOREM AuctionsOfProductCorrect == Spec => []AuctionsOfProduct
<1>1. MarketInv => AuctionsOfProduct
  BY DEF MarketInv, CatalogueInv
<1> QED
  BY <1>1, Invariance, PTL

\* A deleted category has neither products nor categories below it, but for what
\* handlers did that were overtaken.
THEOREM DeletedCategoryIsEmptyCorrect == Spec => []DeletedCategoryIsEmpty
<1>1. MarketInv => DeletedCategoryIsEmpty
  BY DEF MarketInv, CategoryInv
<1> QED
  BY <1>1, Invariance, PTL

\* The line on a moderation card is the decision that stands.
THEOREM CardTellsDecisionCorrect == Spec => []CardTellsDecision
<1>1. MarketInv => CardTellsDecision
  BY DEF MarketInv, CardsInv
<1> QED
  BY <1>1, Invariance, PTL

\* Whoever wrongly believes to lead, or that the auction goes on, is about to be
\* told, or was overlooked for a known reason.
THEOREM NewsArrivesCorrect == Spec => []NewsArrives
<1>1. MarketInv => NewsArrives
  BY DEF MarketInv, NewsInv
<1> QED
  BY <1>1, Invariance, PTL

\* A product's labels, tabs, counts, lists, auctions and orders agree with one another
\* and with what the handlers accept, for any number of auctions and orders, any
\* durations and whatever was cancelled, relisted, bought twice or deleted in between.
THEOREM StorefrontAgreesCorrect == Spec => []StorefrontAgrees
<1>1. MarketInv => StorefrontAgrees
  BY ShopInvSays DEF MarketInv
<1> QED
  BY <1>1, Invariance, PTL
=============================================================================
