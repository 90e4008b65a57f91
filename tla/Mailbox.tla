-------------------------------- MODULE Mailbox --------------------------------
(***************************************************************************)
(* The conversations of a seller, of the buyers of one product and of the  *)
(* administration, as conversation.service.ts opens them and as it shows   *)
(* them: lists, single conversations, search and the cards on them.        *)
(*                                                                         *)
(* A request looks a conversation up and creates or changes one in         *)
(* statements of their own, and those of other requests run in between,    *)
(* the transaction of a support conversation included: under READ          *)
(* COMMITTED it locks nothing it only read.  Conversations are numbered in *)
(* the order of createdAt; none is ever deleted.  Chat says what a         *)
(* conversation does with its messages, Trade when it closes.              *)
(***************************************************************************)
EXTENDS Naturals, Sequences, FiniteSetsExt

CONSTANTS
    Seller,             \* of the one product
    Buyer,              \* each may order it once, which is also the name of the order
    Dedicated,          \* the account with isAdministrationChat
    StaffAdmin,         \* an account with the role ADMIN
    EnvAdministrator,   \* ADMIN_USER_ID, or NoOne
    NoOne,
    Caller,             \* requests that can be between two statements at once
    MaxConversations,   \* bound on the conversations
    MaxMail             \* bound on the requests and on what participants do

Client == {Seller} \union Buyer
Person == Client \union {Dedicated, StaffAdmin}

ASSUME MailboxAssumption ==
    /\ EnvAdministrator \in {NoOne, StaffAdmin}
    /\ NoOne \notin Person /\ {Seller, Dedicated, StaffAdmin} \intersect Buyer = {}
    /\ Seller \notin {Dedicated, StaffAdmin} /\ Dedicated # StaffAdmin
    /\ MaxConversations \in Nat /\ MaxMail \in Nat

VARIABLES
    conversations,  \* the rows, oldest first
    userBlocks,     \* <<blocker, blocked>>
    appointed,      \* administration accounts that are not deleted
    ordered,        \* buyers with an order
    mailCall,       \* requests between two statements
    mailed,         \* how many of the things MaxMail bounds were begun
    bothSought      \* (history) clients two of whose requests looked for a
                    \* support conversation before either had created it

mailVars == <<conversations, userBlocks, appointed, ordered, mailCall, mailed, bothSought>>

Ids == DOMAIN conversations
With(i) == conversations[i].participants
OtherOf(i, u) == CHOOSE v \in With(i) : v # u
IsSupport(i) == ~conversations[i].product /\ conversations[i].order = NoOne

\* A row as create() leaves it; texts: whose messages there have not been deleted.
NewConversation(pair, product, order) ==
    [participants |-> pair, product |-> product, order |-> order, isActive |-> TRUE,
     archivedBy |-> {}, blockedBy |-> {}, texts |-> {}, welcomes |-> 0]

Done == [pc |-> "done"]
Job == {"open", "welcome", "reject"}
CallState ==
    {Done} \union [pc : {"create"}, pair : SUBSET Person, order : Buyer \union {NoOne}]
      \union [pc : {"order"}, order : Buyer]
      \union [pc : {"link"}, conversation : 1..MaxConversations, order : Buyer]
      \union [pc : {"find", "createSupport"}, user : Client, admin : Person,
              sender : Person \union {NoOne}, job : Job]
      \union [pc : {"rejecting"}, sender : Person]
      \union [pc : {"welcoming"}, conversation : 1..MaxConversations]
      \union [pc : {"send"}, conversation : 1..MaxConversations, sender : Person, job : Job]

MailboxTypeOK ==
    /\ conversations \in Seq([participants : SUBSET Person, product : BOOLEAN,
                              order : Buyer \union {NoOne}, isActive : BOOLEAN,
                              archivedBy : SUBSET Person, blockedBy : SUBSET Person,
                              texts : SUBSET Person, welcomes : Nat])
    /\ \A i \in Ids : Cardinality(With(i)) = 2
    /\ userBlocks \subseteq Person \X Person
    /\ appointed \subseteq {Dedicated, StaffAdmin} /\ ordered \subseteq Buyer
    /\ mailCall \in [Caller -> CallState]
    /\ mailed \in 0..MaxMail /\ bothSought \subseteq Client

MailboxInit ==
    /\ conversations = <<>> /\ userBlocks = {} /\ ordered = {} /\ mailed = 0 /\ bothSought = {}
    /\ appointed = {Dedicated, StaffAdmin}
    /\ mailCall = [r \in Caller |-> Done]

-----------------------------------------------------------------------------
ResumeAt(r, state) == mailCall' = [mailCall EXCEPT ![r] = state]

AppendRow(row) ==
    /\ Len(conversations) < MaxConversations
    /\ conversations' = Append(conversations, row)

OnlyCall == UNCHANGED <<conversations, userBlocks, appointed, ordered, mailed, bothSought>>

Count == mailed < MaxMail /\ mailed' = mailed + 1

\* A request that begins, and leaves everything but its own state alone.
StartCall(r, state) ==
    /\ mailCall[r] = Done /\ ResumeAt(r, state)
    /\ Count /\ UNCHANGED <<conversations, userBlocks, appointed, ordered, bothSought>>

\* A request fails, or its process crashes, between two statements.
AbortCall(r) == mailCall[r] # Done /\ ResumeAt(r, Done) /\ OnlyCall

(***************************************************************************)
(* Conversations about the product and its orders                          *)
(***************************************************************************)
\* Only the newest conversation of the one who asks is looked at.
NewestIsWith(u, target) ==
    LET mine == {i \in Ids : conversations[i].product /\ u \in With(i)} IN
    mine # {} /\ target \in With(Max(mine))

\* getOrCreateConversationByProduct; a buyer's target is the seller.
ResolveByProduct(r, u, target) ==
    /\ target # u /\ Seller \in {u, target}
    /\ ~NewestIsWith(u, target)
    /\ StartCall(r, [pc |-> "create", pair |-> {u, target}, order |-> NoOne])

\* openChatForProduct comes to the same for a buyer.
OpenChatForProduct(r, u) == ResolveByProduct(r, u, Seller)

\* resolveOrderConversation, asked by the buyer or the seller.
ResolveByOrder(r, b) ==
    /\ b \in ordered
    /\ \A i \in Ids : conversations[i].order # b
    /\ StartCall(r, [pc |-> "create", pair |-> {b, Seller}, order |-> b])

CreateFor(r) ==
    /\ mailCall[r].pc = "create"
    /\ AppendRow(NewConversation(mailCall[r].pair, TRUE, mailCall[r].order))
    /\ ResumeAt(r, Done)
    /\ UNCHANGED <<userBlocks, appointed, ordered, mailed, bothSought>>

\* The order is written, then createConversationForOrder is called.
PlaceOrder(r, b) ==
    /\ mailCall[r] = Done /\ ResumeAt(r, [pc |-> "order", order |-> b])
    /\ b \notin ordered /\ ordered' = ordered \union {b}
    /\ Count /\ UNCHANGED <<conversations, userBlocks, appointed, bothSought>>

\* Conversations of seller and buyer about the product, without an order.
FaultExistingForProduct(b) ==
    {i \in Ids : conversations[i].product /\ conversations[i].order = NoOne}
ExistingForProduct(b) ==
    {i \in Ids : /\ conversations[i].product /\ conversations[i].order = NoOne
                 /\ With(i) = {Seller, b}}

ForOrder(r) ==
    LET b == mailCall[r].order
        existing == {i \in Ids : conversations[i].order = b /\ conversations[i].isActive} IN
    /\ mailCall[r].pc = "order"
    /\ IF existing # {} THEN ResumeAt(r, Done)
       ELSE \/ \E i \in ExistingForProduct(b) :
                  ResumeAt(r, [pc |-> "link", conversation |-> i, order |-> b])
            \/ /\ ExistingForProduct(b) = {}
               /\ ResumeAt(r, [pc |-> "create", pair |-> {Seller, b}, order |-> b])
    /\ OnlyCall

LinkToOrder(r) ==
    /\ mailCall[r].pc = "link"
    /\ conversations' =
          [conversations EXCEPT ![mailCall[r].conversation].order = mailCall[r].order]
    /\ ResumeAt(r, Done)
    /\ UNCHANGED <<userBlocks, appointed, ordered, mailed, bothSought>>

(***************************************************************************)
(* The conversation with the administration                                *)
(***************************************************************************)
\* getAdministrationUserId.  ADMIN_USER_ID is taken as it is, deleted or not.
AdministrationUserId ==
    IF Dedicated \in appointed THEN Dedicated
    ELSE IF EnvAdministrator # NoOne THEN EnvAdministrator
    ELSE IF StaffAdmin \in appointed THEN StaffAdmin ELSE NoOne

Dismiss(a) ==
    /\ a \in appointed /\ appointed' = appointed \ {a}
    /\ UNCHANGED <<conversations, userBlocks, ordered, mailCall, mailed, bothSought>>

Looking(u, sender, job) ==
    [pc |-> "find", user |-> u, admin |-> AdministrationUserId, sender |-> sender, job |-> job]

\* resolveConversation with SUPPORT, and the end of every login.
ResolveSupport(r, u) ==
    AdministrationUserId # NoOne /\ StartCall(r, Looking(u, NoOne, "open"))

EnsureAndWelcome(r, u) ==
    AdministrationUserId # NoOne /\ StartCall(r, Looking(u, NoOne, "welcome"))

\* notifyProductModerationRejected asks who the sender is, and
\* getOrCreateAdministrationConversation asks again.
ModerationRejected(r) ==
    /\ AdministrationUserId # NoOne
    /\ StartCall(r, [pc |-> "rejecting", sender |-> AdministrationUserId])

FindForRejection(r) ==
    /\ mailCall[r].pc = "rejecting"
    /\ ResumeAt(r, IF AdministrationUserId = NoOne THEN Done
               ELSE Looking(Seller, mailCall[r].sender, "reject"))
    /\ OnlyCall

\* What follows once the conversation is there, created or found.
GoOn(r, i, created) ==
    LET q == mailCall[r] IN
    ResumeAt(r, CASE q.job = "reject" ->
                     [pc |-> "send", conversation |-> i, sender |-> q.sender, job |-> "reject"]
              [] q.job = "welcome" /\ created -> [pc |-> "welcoming", conversation |-> i]
              [] OTHER -> Done)

FaultSupportOf(u, admin) == {i \in Ids : IsSupport(i) /\ admin \in With(i)}
SupportOf(u, admin) == {i \in Ids : IsSupport(i) /\ {u, admin} \subseteq With(i)}

FindSupport(r) ==
    LET q == mailCall[r]
        existing == SupportOf(q.user, q.admin) IN
    /\ q.pc = "find"
    /\ \/ \E i \in existing : GoOn(r, i, FALSE) /\ UNCHANGED bothSought
       \/ /\ existing = {}
          /\ ResumeAt(r, [q EXCEPT !.pc = "createSupport"])
          /\ bothSought' = IF \E p \in Caller \ {r} :
                              mailCall[p].pc = "createSupport" /\ mailCall[p].user = q.user
                        THEN bothSought \union {q.user} ELSE bothSought
    /\ UNCHANGED <<conversations, userBlocks, appointed, ordered, mailed>>

CreateSupport(r) ==
    LET q == mailCall[r] IN
    /\ q.pc = "createSupport"
    /\ AppendRow(NewConversation({q.user, q.admin}, FALSE, NoOne))
    /\ GoOn(r, Len(conversations'), TRUE)
    /\ UNCHANGED <<userBlocks, appointed, ordered, mailed, bothSought>>

\* The welcome is signed by whoever is the administration by now.
SignWelcome(r) ==
    /\ mailCall[r].pc = "welcoming"
    /\ ResumeAt(r, IF AdministrationUserId = NoOne THEN Done
               ELSE [pc |-> "send", conversation |-> mailCall[r].conversation,
                     sender |-> AdministrationUserId, job |-> "welcome"])
    /\ OnlyCall

\* sendMessageAsSender refuses a sender who is not in the conversation; the
\* callers log that and go on.
SendAs(r) ==
    LET q == mailCall[r] IN
    /\ q.pc = "send"
    /\ conversations' =
          IF q.sender \in With(q.conversation)
          THEN [conversations EXCEPT ![q.conversation].texts = @ \union {q.sender},
                                     ![q.conversation].welcomes =
                                         @ + (IF q.job = "welcome" THEN 1 ELSE 0)]
          ELSE conversations
    /\ ResumeAt(r, Done)
    /\ UNCHANGED <<userBlocks, appointed, ordered, mailed, bothSought>>

(***************************************************************************)
(* What the participants do with a conversation                            *)
(***************************************************************************)
Mark == Count /\ UNCHANGED <<appointed, ordered, mailCall, bothSought>>

Alter(i, row) == Mark /\ conversations' = [conversations EXCEPT ![i] = row] /\ UNCHANGED userBlocks

Flip(u, set) == IF u \in set THEN set \ {u} ELSE set \union {u}

\* updateConversation with isArchived, and with isBlocked.
Archive(i, u) == Alter(i, [conversations[i] EXCEPT !.archivedBy = Flip(u, @)])
BlockConversation(i, u) == Alter(i, [conversations[i] EXCEPT !.blockedBy = Flip(u, @)])

Deactivate(i) == conversations[i].isActive /\ Alter(i, [conversations[i] EXCEPT !.isActive = FALSE])

BlockPerson(u, v) ==
    /\ u # v
    /\ userBlocks' = Flip(<<u, v>>, userBlocks)
    /\ Mark /\ UNCHANGED conversations

\* The block that counts is the one the other has set, and none against the
\* dedicated account.
BlockedFrom(u, v) == v # Dedicated /\ <<v, u>> \in userBlocks

MayWrite(i, u) ==
    /\ conversations[i].isActive /\ conversations[i].blockedBy = {}
    /\ ~BlockedFrom(u, OtherOf(i, u))

Write(i, u) == MayWrite(i, u) /\ Alter(i, [conversations[i] EXCEPT !.texts = @ \union {u}])

Erase(i, u) ==
    u \in conversations[i].texts /\ Alter(i, [conversations[i] EXCEPT !.texts = @ \ {u}])

-----------------------------------------------------------------------------
MailboxNext ==
    \/ \E r \in Caller :
          \/ \E u, v \in Client : ResolveByProduct(r, u, v)
          \/ \E u \in Client : OpenChatForProduct(r, u)
          \/ \E b \in Buyer : ResolveByOrder(r, b) \/ PlaceOrder(r, b)
          \/ CreateFor(r) \/ ForOrder(r) \/ LinkToOrder(r)
          \/ \E u \in Client : ResolveSupport(r, u) \/ EnsureAndWelcome(r, u)
          \/ ModerationRejected(r) \/ FindForRejection(r) \/ FindSupport(r)
          \/ CreateSupport(r) \/ SignWelcome(r) \/ SendAs(r) \/ AbortCall(r)
    \/ \E a \in appointed : Dismiss(a)
    \/ \E i \in Ids :
          \/ \E u \in With(i) :
                Archive(i, u) \/ BlockConversation(i, u) \/ Write(i, u) \/ Erase(i, u)
          \/ Deactivate(i)
          \/ \E u, v \in With(i) : BlockPerson(u, v)

-----------------------------------------------------------------------------
(***************************************************************************)
(* What is shown                                                           *)
(***************************************************************************)
\* buildVisibleConversationWhere; `archived' holds the values let through.
Visible(u, archived) ==
    {i \in Ids : u \in With(i) /\ (u \in conversations[i].archivedBy) \in archived}

GetBlockedUserIds(u, others) == {v \in others \ {u} : <<u, v>> \in userBlocks}

IsUserBlockingOtherUser(u, v) == u # v /\ <<u, v>> \in userBlocks

SellerOn(i) == IF conversations[i].product THEN Seller ELSE NoOne

\* The buyer of the order; without an order, the participant who does not sell.
BuyerOn(i) ==
    IF conversations[i].order # NoOne THEN conversations[i].order
    ELSE IF conversations[i].product THEN OtherOf(i, Seller) ELSE NoOne

RoleOf(i, p) ==
    IF SellerOn(i) = NoOne \/ conversations[i].order = NoOne THEN "none"
    ELSE IF p = SellerOn(i) THEN "seller"
    ELSE IF p = conversations[i].order THEN "consumer" ELSE "none"

\* mapConversationToDto for u.
Card(i, u, blocked) ==
    [id |-> i, seller |-> SellerOn(i), buyer |-> BuyerOn(i),
     role |-> [p \in With(i) |-> RoleOf(i, p)], blocked |-> blocked,
     isArchived |-> u \in conversations[i].archivedBy,
     isBlocked |-> u \in conversations[i].blockedBy,
     isActive |-> conversations[i].isActive, pinnedOrder |-> conversations[i].order]

GetConversationById(i, u) == Card(i, u, IsUserBlockingOtherUser(u, OtherOf(i, u)))

GetConversations(u, archived) ==
    LET shown == Visible(u, archived)
        blocked == GetBlockedUserIds(u, {OtherOf(i, u) : i \in shown}) IN
    {Card(i, u, OtherOf(i, u) \in blocked) : i \in shown}

\* The conversations with a message that is found.
SearchMessages(u) == {i \in Visible(u, BOOLEAN) : conversations[i].texts # {}}

\* The buyers a product is shown with to its seller, each with a conversation.
GetInterestedBuyers ==
    {b \in [user : Person \ {Seller}, conversation : Ids] :
        LET c == conversations[b.conversation] IN
        c.product /\ c.isActive /\ Seller \in c.participants /\ b.user \in c.texts}

\* The list of those u has blocked leaves out deleted accounts.
GetBlockedUsers(u) == {v \in Client \union appointed : <<u, v>> \in userBlocks}

-----------------------------------------------------------------------------
\* The seller and the buyer on a card about the product are the two who talk
\* there, whatever order it was linked to; with an order, each has their role.
CardFits(i) ==
    conversations[i].product =>
        LET card == GetConversationById(i, Seller) IN
        /\ {card.seller, card.buyer} = With(i)
        /\ card.pinnedOrder # NoOne => card.role[card.seller] = "seller"
                                       /\ card.role[card.buyer] = "consumer"

\* The list, split by its archive or not, and the single conversation show the
\* same cards, and search finds what is live in any of them; whoever a card shows
\* as blocked is on the list of the blocked, unless their account is deleted.
ListAgrees(u) ==
    /\ GetConversations(u, BOOLEAN) = {GetConversationById(i, u) : i \in Visible(u, BOOLEAN)}
    /\ GetConversations(u, BOOLEAN) =
          GetConversations(u, {TRUE}) \union GetConversations(u, {FALSE})
    /\ SearchMessages(u) = {i \in Ids : u \in With(i) /\ conversations[i].texts # {}}
    /\ {OtherOf(c.id, u) : c \in {b \in GetConversations(u, BOOLEAN) : b.blocked}}
          \subseteq GetBlockedUsers(u) \union ({Dedicated, StaffAdmin} \ appointed)

\* Whether u may write is what the two participants' cards say together, but
\* that a block of the dedicated administration's account has no effect.
CardsTellWhoMayWrite(i, u) ==
    LET mine == GetConversationById(i, u)
        theirs == GetConversationById(i, OtherOf(i, u)) IN
    MayWrite(i, u) <=> /\ mine.isActive /\ ~mine.isBlocked /\ ~theirs.isBlocked
                       /\ theirs.blocked => OtherOf(i, u) = Dedicated

\* The buyers interested in a product are the buyers on cards that its seller finds.
InterestIsOnCards ==
    \A b \in GetInterestedBuyers :
        \E card \in GetConversations(Seller, BOOLEAN) :
            card.id = b.conversation /\ card.buyer = b.user /\ card.isActive

\* A client has one conversation with each account that was the administration,
\* unless two requests crossed in opening it, and is welcomed in it once.
OneSupportChat(u) ==
    /\ \A a \in {Dedicated, StaffAdmin} : u \notin bothSought => Cardinality(SupportOf(u, a)) <= 1
    /\ \A i \in Ids : conversations[i].welcomes <= 1

(***************************************************************************)
(* Whatever requests cross, what a participant is shown of a conversation  *)
(* fits the people in it, is the same on every screen and agrees with what *)
(* sending a message will do; and the administration does not split into   *)
(* several conversations with one client.                                  *)
(***************************************************************************)
MailboxAgrees ==
    /\ \A i \in Ids : CardFits(i) /\ \A u \in With(i) : CardsTellWhoMayWrite(i, u)
    /\ \A u \in Person : ListAgrees(u)
    /\ InterestIsOnCards
    /\ \A u \in Client : OneSupportChat(u)
=============================================================================
