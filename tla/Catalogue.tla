------------------------------- MODULE Catalogue -------------------------------
(***************************************************************************)
(* One product on its way through moderation, and its auctions             *)
(* (product.service.ts, and createAuction and updateAuction of             *)
(* auction.service.ts).                                                    *)
(*                                                                         *)
(* What the seller writes must be seen by a moderator before visitors see  *)
(* it; staff, that is administrators and moderators, publish what they     *)
(* like.  A product has one open auction at most, and none once it is      *)
(* deleted.  Every handler checks what it has read and writes by id later, *)
(* so that others come in between.  Bids, winners and the time of an       *)
(* auction are the subjects of BidBook and AuctionClock, the publication   *)
(* credit is in PaymentLedger, and orders are in Trade.                    *)
(***************************************************************************)
EXTENDS Integers, Sequences

CONSTANTS
    Editor,       \* handlers that can be between two statements at once
    MaxEdits,     \* bound on the edits of what the product says
    MaxAuctions   \* bound on its auctions

ASSUME CatalogueAssumption == MaxEdits \in Nat /\ MaxAuctions \in Nat

ProductStatus == {"DRAFT", "PENDING", "PUBLISHED", "REJECTED"}

VARIABLES
    \* whether it is there ("absent", "live", "deleted"), its status, the version of
    \* its title, description, price and pictures
    product, productStatus, content,
    \* the status of each auction: "OPEN" is PENDING or ACTIVE, "CLOSED" is
    \* ENDED or CANCELLED
    auctions,
    \* handlers between two statements
    work,
    \* history: versions that staff who had looked at them published, or wrote;
    \* versions that were published by staff who had looked at another, or by a
    \* handler that had read an earlier state
    reviewed, slipped,
    \* history: auctions created at once with another, or while the product was being
    \* deleted, and auctions that were opened again
    crossing

productVars == <<product, productStatus, content, reviewed, slipped>>
catalogueVars == <<productVars, auctions, crossing, work>>

NoWork == [pc |-> "idle"]
WorkState ==
    UNION {{NoWork},
           [pc : {"update"}, read : ProductStatus, write : {"PENDING", "keep"}],
           [pc : {"updateAny"}, edits : BOOLEAN, seen : 0..MaxEdits,
            write : ProductStatus \union {"keep"}],
           [pc : {"approve"}, seen : 0..MaxEdits], [pc : {"reject"}],
           [pc : {"delete"}, seen : 0..MaxAuctions],
           [pc : {"updateAuction"}, auction : 1..MaxAuctions],
           [pc : {"createAuction", "toDraft"}],
           [pc : {"openAuction"}, live : BOOLEAN],
           [pc : {"insertAuction"}, live : BOOLEAN, seen : 0..MaxAuctions]}

Doing(r, pc) == work[r].pc = pc
Proceed(r, state) == work' = [work EXCEPT ![r] = state]
Open == {a \in DOMAIN auctions : auctions[a] = "OPEN"}

CatalogueInit ==
    /\ product = "absent" /\ productStatus = "DRAFT" /\ content = 0
    /\ reviewed = {} /\ slipped = {}
    /\ auctions = <<>> /\ crossing = {}
    /\ work = [r \in Editor |-> NoWork]

\* A handler fails or its process crashes between two statements; an exception
\* that a check throws ends it in the same way.
Fail(r) ==
    /\ work[r] # NoWork
    /\ Proceed(r, NoWork)
    /\ UNCHANGED <<productVars, auctions, crossing>>

(***************************************************************************)
(* The product                                                             *)
(***************************************************************************)
\* The product is committed before its auction is created, which may fail.
CreateProduct(r, withAuction) ==
    /\ product = "absent" /\ work[r] = NoWork
    /\ product' = "live"
    /\ productStatus' = "PENDING"
    /\ Proceed(r, IF withAuction THEN [pc |-> "createAuction"] ELSE NoWork)
    /\ UNCHANGED <<content, reviewed, slipped, auctions, crossing>>

\* What the seller changes goes back to moderation.  It stays PENDING, and no
\* status is written, if it is there.  (Where the product is, whether it is
\* featured and whether it is for charity may change without.)
FaultTriggersModeration(status) == status \in {"DRAFT", "REJECTED"}
TriggersModeration(status) == status \in {"DRAFT", "REJECTED", "PUBLISHED"}

\* An update that changes neither what the product says nor its status is left out:
\* it may ask for an auction, as FindProduct does.
UpdateProduct(r) ==
    /\ work[r] = NoWork
    /\ product = "live"
    /\ Proceed(r, [pc |-> "update", read |-> productStatus,
                   write |-> IF TriggersModeration(productStatus) THEN "PENDING" ELSE "keep"])
    /\ UNCHANGED <<productVars, auctions, crossing>>

\* Staff may set the status (to), with an edit or without.  seen: the version that
\* they have looked at, any that the product has had.
UpdateAnyProduct(r, edits, to, seen) ==
    /\ work[r] = NoWork
    /\ product = "live"
    /\ edits \/ to # "keep"
    /\ Proceed(r, [pc |-> "updateAny", edits |-> edits, seen |-> seen, write |-> to])
    /\ UNCHANGED <<productVars, auctions, crossing>>

\* What staff write they have seen, unless the product is no longer what they had
\* looked at.  An owner's edit that was to stay PENDING, and is not by now, has
\* been seen by nobody.
WriteProduct(r) ==
    LET q == work[r]
        staff == Doing(r, "updateAny")
        new == IF staff /\ ~q.edits THEN content ELSE content + 1
        unseen == IF staff THEN q.seen # content
                           ELSE q.read = "PENDING" /\ productStatus # "PENDING" IN
    /\ Doing(r, "update") \/ staff
    /\ new <= MaxEdits
    /\ content' = new
    /\ productStatus' = IF q.write = "keep" THEN productStatus ELSE q.write
    /\ reviewed' = IF staff /\ ~unseen THEN reviewed \union {new} ELSE reviewed
    /\ slipped' = IF unseen THEN slipped \union {new} ELSE slipped
    /\ \/ Proceed(r, NoWork)
       \/ Open = {} /\ Proceed(r, [pc |-> "createAuction"])
    /\ UNCHANGED <<product, auctions, crossing>>

\* moderateProduct checks PENDING and writes by id.  What it reads is seen by
\* nobody: who presses has looked at the product before, or at its card, which is
\* posted when the product is created and never again.
ModerateProduct(r, action, seen) ==
    /\ work[r] = NoWork
    /\ product # "absent"
    /\ productStatus = "PENDING"
    /\ Proceed(r, IF action = "approve" THEN [pc |-> action, seen |-> seen] ELSE [pc |-> action])
    /\ UNCHANGED <<productVars, auctions, crossing>>

Approve(r) ==
    /\ Doing(r, "approve")
    /\ productStatus' = "PUBLISHED"
    /\ reviewed' = reviewed \union {work[r].seen}
    /\ slipped' = IF content # work[r].seen THEN slipped \union {content} ELSE slipped
    /\ Proceed(r, NoWork)
    /\ UNCHANGED <<product, content, auctions, crossing>>

Reject(r) ==
    /\ Doing(r, "reject")
    /\ productStatus' = "REJECTED"
    /\ Proceed(r, NoWork)
    /\ UNCHANGED <<product, content, reviewed, slipped, auctions, crossing>>

FaultDeletable == TRUE
Deletable == Open = {}

DeleteProduct(r) ==
    /\ work[r] = NoWork
    /\ product = "live"
    /\ Deletable
    /\ Proceed(r, [pc |-> "delete", seen |-> Len(auctions)])
    /\ UNCHANGED <<productVars, auctions, crossing>>

SoftDeleteProduct(r) ==
    /\ Doing(r, "delete")
    /\ product' = "deleted"
    /\ productStatus' = "DRAFT"
    /\ crossing' = crossing \union ((work[r].seen + 1)..Len(auctions))
    /\ Proceed(r, NoWork)
    /\ UNCHANGED <<content, reviewed, slipped, auctions>>

(***************************************************************************)
(* Its auctions                                                            *)
(***************************************************************************)
MayHaveAuction == product = "live" /\ productStatus \in {"PUBLISHED", "PENDING"}

\* createAuction, called for by the seller or by createProduct and updateProduct:
\* the product, then its open auctions, then the row.
FindProduct(r) ==
    /\ work[r] = NoWork \/ Doing(r, "createAuction")
    /\ MayHaveAuction
    /\ Proceed(r, [pc |-> "openAuction", live |-> product = "live"])
    /\ UNCHANGED <<productVars, auctions, crossing>>

FindOpenAuction(r) ==
    /\ Doing(r, "openAuction")
    /\ Open = {}
    /\ Proceed(r, [pc |-> "insertAuction", live |-> work[r].live, seen |-> Len(auctions)])
    /\ UNCHANGED <<productVars, auctions, crossing>>

InsertAuction(r) ==
    LET q == work[r]
        a == Len(auctions) + 1 IN
    /\ Doing(r, "insertAuction")
    /\ a <= MaxAuctions
    /\ auctions' = Append(auctions, "OPEN")
    /\ crossing' = IF a # q.seen + 1 \/ (q.live /\ product = "deleted")
                   THEN crossing \union {a} ELSE crossing
    /\ Proceed(r, NoWork)
    /\ UNCHANGED <<productVars>>

\* An auction ends with a winner or with bids, or is ended or cancelled by an update...
CloseAuction(a) ==
    /\ a \in Open
    /\ auctions' = [auctions EXCEPT ![a] = "CLOSED"]
    /\ UNCHANGED <<productVars, crossing, work>>

\* ...or finalizeAuction ends it without a bid and takes the product off the list.
FinalizeAuction(r, a) ==
    /\ work[r] = NoWork
    /\ a \in Open
    /\ auctions' = [auctions EXCEPT ![a] = "CLOSED"]
    /\ Proceed(r, [pc |-> "toDraft"])
    /\ UNCHANGED <<productVars, crossing>>

ToDraft(r) ==
    /\ Doing(r, "toDraft")
    /\ productStatus' = "DRAFT"
    /\ Proceed(r, NoWork)
    /\ UNCHANGED <<product, content, reviewed, slipped, auctions, crossing>>

\* updateAuction checks the status on the row that it reads and writes another by id,
\* when the auction may have ended.  (One that it ends or cancels is closed, like any
\* other, when the row is written.)
UpdateAuction(r, a) ==
    /\ work[r] = NoWork
    /\ a \in Open
    /\ Proceed(r, [pc |-> "updateAuction", auction |-> a])
    /\ UNCHANGED <<productVars, auctions, crossing>>

WriteOpenStatus(r) ==
    LET a == work[r].auction IN
    /\ Doing(r, "updateAuction")
    /\ auctions' = [auctions EXCEPT ![a] = "OPEN"]
    /\ crossing' = crossing \union ({a} \ Open)
    /\ Proceed(r, NoWork)
    /\ UNCHANGED productVars

-----------------------------------------------------------------------------
EditorHandler(r) ==
    \/ \E withAuction \in BOOLEAN : CreateProduct(r, withAuction)
    \/ UpdateProduct(r)
    \/ \E edits \in BOOLEAN, to \in ProductStatus \union {"keep"}, seen \in 0..content :
           UpdateAnyProduct(r, edits, to, seen)
    \/ WriteProduct(r)
    \/ \E action \in {"approve", "reject"}, seen \in 0..content : ModerateProduct(r, action, seen)
    \/ Approve(r) \/ Reject(r)
    \/ DeleteProduct(r) \/ SoftDeleteProduct(r)
    \/ FindProduct(r) \/ FindOpenAuction(r) \/ InsertAuction(r)
    \/ \E a \in Open : FinalizeAuction(r, a) \/ UpdateAuction(r, a)
    \/ WriteOpenStatus(r)
    \/ ToDraft(r)
    \/ Fail(r)

CatalogueNext ==
    \/ \E r \in Editor : EditorHandler(r)
    \/ \E a \in Open : CloseAuction(a)

-----------------------------------------------------------------------------
CatalogueTypeOK ==
    /\ product \in {"absent", "live", "deleted"}
    /\ productStatus \in ProductStatus
    /\ content \in 0..MaxEdits
    /\ reviewed \subseteq 0..content /\ slipped \subseteq 0..content
    /\ auctions \in Seq({"OPEN", "CLOSED"}) /\ Len(auctions) <= MaxAuctions
    /\ crossing \subseteq DOMAIN auctions
    /\ work \in [Editor -> WorkState]

\* What findAll and searchProducts show to visitors who ask for no status, seller
\* or phase of the sale, as long as no order for it is DELIVERED.
Listed == product = "live" /\ productStatus = "PUBLISHED"
Found == product # "deleted" /\ productStatus = "PUBLISHED"

\* What visitors are shown was looked at by whoever published it: no order of edits,
\* approvals, rejections and auctions that end gets around moderation.  Excepted is
\* what staff publish after they looked at another version, as they do when the
\* seller edits a PENDING product behind its card, and an owner's edit that is written
\* to a product which was PENDING when it was read and has been decided on since.
ShownWasReviewed == Listed \/ Found => content \in reviewed \union slipped

\* A product has at most one open auction, and none after its deletion, except for
\* an auction created at once with another or with the deletion, and one that a
\* late updateAuction opens again.
AuctionsOfProduct ==
    LET orderly == Open \ crossing IN
    /\ \A a, b \in orderly : a = b
    /\ product = "deleted" => orderly = {}
=============================================================================
