--------------------------------- MODULE Trade ---------------------------------
(***************************************************************************)
(* From a winner to a closed chat: the orders of one product               *)
(* (order.service.ts, and chooseWinner and cancelWinner of                 *)
(* auction.service.ts), the conversations its seller has about it          *)
(* (conversation.service.ts), and the jobs that close those conversations  *)
(* once an order is delivered (jobs/conversation).                         *)
(*                                                                         *)
(* The product has one seller and one auction, which has ended.  A         *)
(* conversation is between the seller and one other user; nothing ever     *)
(* changes its participants.  Rows are numbered as they are created, so    *)
(* the newest has the highest number.  What users say to each other is the *)
(* subject of Chat.                                                        *)
(*                                                                         *)
(* Creating an order is a chain of writes in separate transactions: the    *)
(* winner, the order, its conversation, the winner's conversation.  Each   *)
(* is a step here, and looking for orders that are in the way is another,  *)
(* as is reading the order that an update will write.  A request can be    *)
(* interrupted between two of them, and may fail; other handlers run       *)
(* meanwhile.  A conversation is looked up and created in one step.        *)
(***************************************************************************)
EXTENDS Integers, FiniteSetsExt

CONSTANTS
    Buyer,             \* users other than the seller
    Seller,
    MaxOrders,         \* bound on the orders created
    MaxConversations,  \* bound on the conversations created
    MaxRows,           \* bound on both together, an order counting twice
    BatchSize,         \* cron.jobs.conversations.batchSize
    Request,           \* handlers that can be interrupted between two statements;
                       \* the others run at once
    None

Order == 1..MaxOrders
Conversation == 1..MaxConversations
OrderStatus == {"PROCESSING", "SHIPPED", "DELIVERED", "CANCELLED"}

ASSUME TradeAssumption ==
    /\ MaxOrders \in Nat /\ MaxConversations \in Nat /\ MaxRows \in Nat
    /\ BatchSize \in Nat \ {0}
    /\ Seller \notin Buyer
    /\ None \notin Buyer \union {Seller} \union OrderStatus \union Nat

VARIABLES
    \* the ended auction's winner
    winnerId,
    \* orders: how many, and their columns (deliveredAt and deletedAt: who has one)
    orders, buyerId, fromAuction, status, deliveredAt, deletedAt,
    \* conversations: how many, the user the seller talks to, and the columns
    conversations, peer, orderId, isActive,
    \* deactivate-conversation-by-order jobs in the queue
    jobs,
    \* requests between two writes
    req,
    \* history: orders put back to an earlier status, by an update with a date or by
    \* one that had read the order before it moved on; orders another of whose buyer came in between
    \* the search for it and the insertion
    revived, twins

orderRows == <<orders, buyerId, fromAuction>>
orderVars == <<orderRows, status, deliveredAt, deletedAt, revived, twins>>
chatVars == <<conversations, peer, orderId, isActive>>
vars == <<winnerId, orderVars, chatVars, jobs, req>>

Orders == 1..orders
Chats == 1..conversations
HasRoom(n) == 2 * orders + conversations + n <= MaxRows
Live(o) == status[o] # "CANCELLED" /\ o \notin deletedAt

-----------------------------------------------------------------------------
Idle == [pc |-> "idle"]
RequestState ==
    UNION {{Idle}, [pc : {"winnerOrder"}, buyer : Buyer],
           [pc : {"orderChat"}, order : Order, forWinner : BOOLEAN],
           [pc : {"winnerChat"}, order : Order],
           [pc : {"insert"}, buyer : Buyer, auction : BOOLEAN, forWinner : BOOLEAN,
            seen : 0..MaxOrders],
           [pc : {"update"}, order : Order, read : OrderStatus \union {None},
            write : OrderStatus \union {None}, closes : BOOLEAN,
            delivered : BOOLEAN]}

At(r, pc) == req[r].pc = pc
Goto(r, state) == req' = [req EXCEPT ![r] = state]

Init ==
    /\ winnerId = None
    /\ orders = 0
    /\ buyerId = [o \in Order |-> None] /\ fromAuction = {}
    /\ status = [o \in Order |-> None] /\ deliveredAt = {} /\ deletedAt = {}
    /\ conversations = 0
    /\ peer = [c \in Conversation |-> None] /\ orderId = [c \in Conversation |-> None]
    /\ isActive = {}
    /\ jobs = {}
    /\ req = [r \in Request |-> Idle]
    /\ revived = {} /\ twins = {}

\* A request fails or its process crashes between two writes.
Abort(r) ==
    /\ req[r] # Idle
    /\ Goto(r, Idle)
    /\ UNCHANGED <<winnerId, orderVars, chatVars, jobs>>

(***************************************************************************)
(* Creating an order                                                       *)
(***************************************************************************)
\* The orders that stand in the way of another one.
FaultConflictsIfProcessing(b, auction) ==
    {o \in Orders : buyerId[o] = b /\ o \notin deletedAt /\ status[o] = "PROCESSING"}
Conflicts(b, auction) ==
    {o \in Orders : /\ buyerId[o] = b
                    /\ o \notin deletedAt
                    /\ IF auction THEN o \in fromAuction /\ status[o] # "CANCELLED"
                                  ELSE status[o] = "PROCESSING"}

\* They are looked for before the order is inserted.  createOrder does both in one
\* transaction, which at the default isolation level locks nothing.
MayOrder(b, auction) == Conflicts(b, auction) = {} /\ (auction => winnerId = b)

\* seen is how many orders there were when b's were looked for.
Insert(b, auction, seen) ==
    LET o == orders + 1 IN
    /\ HasRoom(2) /\ o \in Order
    /\ orders' = o
    /\ buyerId' = [buyerId EXCEPT ![o] = b]
    /\ fromAuction' = IF auction THEN fromAuction \union {o} ELSE fromAuction
    /\ status' = [status EXCEPT ![o] = "PROCESSING"]
    /\ twins' = IF \E p \in (seen + 1)..orders : buyerId[p] = b THEN twins \union {o}
                                                               ELSE twins
    /\ UNCHANGED <<winnerId, deliveredAt, deletedAt, revived, chatVars, jobs>>

CheckOrder(r, b, auction, forWinner) ==
    /\ MayOrder(b, auction)
    /\ Goto(r, [pc |-> "insert", buyer |-> b, auction |-> auction,
                forWinner |-> forWinner, seen |-> orders])
    /\ UNCHANGED <<winnerId, orderVars, chatVars, jobs>>

InsertOrder(r) ==
    LET q == req[r] IN
    /\ At(r, "insert")
    /\ Insert(q.buyer, q.auction, q.seen)
    /\ Goto(r, [pc |-> "orderChat", order |-> orders', forWinner |-> q.forWinner])

CreateOrder(r, b, auction) == req[r] = Idle /\ HasRoom(2) /\ CheckOrder(r, b, auction, FALSE)

\* Another request creates an order at once and gets no further.
CreateOrderOnly(b, auction) ==
    MayOrder(b, auction) /\ Insert(b, auction, orders) /\ UNCHANGED req

ChooseWinner(r, b) ==
    /\ req[r] = Idle
    /\ winnerId' = b
    /\ Goto(r, [pc |-> "winnerOrder", buyer |-> b])
    /\ UNCHANGED <<orderVars, chatVars, jobs>>

\* createOrderFromAuctionWinner.  When it throws, chooseWinner logs the error
\* and is done.
CreateOrderFromAuctionWinner(r) ==
    /\ At(r, "winnerOrder")
    /\ CheckOrder(r, req[r].buyer, TRUE, TRUE)

(***************************************************************************)
(* Giving an order a conversation                                          *)
(***************************************************************************)
OrderChats(o) == {c \in Chats : orderId[c] = o}

\* Conversations about the product that createConversationForOrder may take over.
FaultAnyFreeChat(o) == {c \in Chats : orderId[c] = None}
FreeChats(o) == {c \in Chats : orderId[c] = None /\ peer[c] = buyerId[o]}

\* A new conversation row between the seller and u.
Converse(u, order) ==
    LET c == conversations + 1 IN
    /\ HasRoom(1) /\ c \in Conversation
    /\ conversations' = c
    /\ peer' = [peer EXCEPT ![c] = u]
    /\ orderId' = [orderId EXCEPT ![c] = order]
    /\ isActive' = isActive \union {c}

Link(c, order) ==
    /\ orderId' = [orderId EXCEPT ![c] = order]
    /\ UNCHANGED <<conversations, peer, isActive>>

\* An active conversation of the order is enough; a closed one is not, and a
\* free conversation is taken over even if it is closed.
CreateConversationForOrder(r) ==
    LET o == req[r].order IN
    /\ At(r, "orderChat")
    /\ IF o \in deletedAt \/ OrderChats(o) \intersect isActive # {} THEN UNCHANGED chatVars
       ELSE IF FreeChats(o) # {} THEN \E c \in FreeChats(o) : Link(c, o)
       ELSE Converse(buyerId[o], o)
    /\ Goto(r, IF req[r].forWinner THEN [pc |-> "winnerChat", order |-> o] ELSE Idle)
    /\ UNCHANGED <<winnerId, orderVars, jobs>>

\* getOrCreateConversationByProduct looks at the newest conversation about the
\* product that the asking user is in, and at no other: None if that one is not
\* with the other user.
FoundFor(asking, u) ==
    LET mine == {c \in Chats : asking = Seller \/ peer[c] = asking}
    IN  IF mine # {} /\ peer[Max(mine)] = u THEN Max(mine) ELSE None

\* chooseWinner asks on behalf of the seller, and gives the conversation the
\* order if it has none.
GetWinnerConversation(r) ==
    LET o == req[r].order
        c == FoundFor(Seller, buyerId[o]) IN
    /\ At(r, "winnerChat")
    /\ IF c = None THEN Converse(buyerId[o], o)
       ELSE IF orderId[c] = None THEN Link(c, o)
       ELSE UNCHANGED chatVars
    /\ Goto(r, Idle)
    /\ UNCHANGED <<winnerId, orderVars, jobs>>

(***************************************************************************)
(* Conversations opened and changed by their users                         *)
(***************************************************************************)
\* resolveConversation for an order: any conversation of it will do.
ResolveOrderConversation(o) ==
    /\ o \in Orders /\ OrderChats(o) = {}
    /\ Converse(buyerId[o], o)
    /\ UNCHANGED <<winnerId, orderVars, jobs, req>>

\* resolveConversation for the product: a buyer asks for the seller, or the
\* seller for some user.
GetOrCreateConversationByProduct(asking, b) ==
    /\ asking \in {b, Seller}
    /\ FoundFor(asking, IF asking = Seller THEN b ELSE asking) = None
    /\ Converse(b, None)
    /\ UNCHANGED <<winnerId, orderVars, jobs, req>>

\* updateConversation: a participant links an order between the two of them, or
\* unlinks it.  (Its productId may be cleared too; that would only take the
\* conversation out of reach of the job and of FreeChats, and is left out.)
Linkable(c, o) == o \notin deletedAt /\ buyerId[o] = peer[c]

UpdateConversation(c, o) ==
    /\ c \in Chats
    /\ o \in Orders \union {None}
    /\ o \notin {None, orderId[c]} => Linkable(c, o)
    /\ Link(c, o)
    /\ UNCHANGED <<winnerId, orderVars, jobs, req>>

\* sendMessage in an active conversation closes it when its order has been
\* delivered: this message was the last.
SendMessage(c) ==
    /\ c \in isActive
    /\ orderId[c] # None
    /\ status[orderId[c]] = "DELIVERED" \/ orderId[c] \in deliveredAt
    /\ isActive' = isActive \ {c}
    /\ UNCHANGED <<winnerId, orderVars, conversations, peer, orderId, jobs, req>>

(***************************************************************************)
(* Updating, deleting and cancelling orders                                *)
(***************************************************************************)
\* validateStatusTransition, and the two checks after it.
FaultAllowsAny(from, to) == TRUE
Allowed(from, to) ==
    \/ from = to
    \/ from = "PROCESSING" /\ to \in {"SHIPPED", "CANCELLED"}
    \/ from = "SHIPPED" /\ to \in {"DELIVERED", "CANCELLED"}

\* A date sets the status that goes with it, past those checks: deliveredAt wins
\* over shippedAt, and shippedAt over the status that was asked for.
StatusToWrite(from, to, shipped, delivered) ==
    IF delivered /\ from # "DELIVERED" THEN "DELIVERED"
    ELSE IF shipped /\ from \notin {"SHIPPED", "DELIVERED"} THEN "SHIPPED" ELSE to

\* Only the seller (or an administrator) does more than cancel.
MayUpdate(o, by, to, dated) ==
    by = Seller \/ (by = buyerId[o] /\ to = "CANCELLED" /\ ~dated)

\* Queues the job when the order became DELIVERED.
FaultClosesOnShipment(from, to) == to # from
ClosesChat(from, to) == to # from /\ to = "DELIVERED"

\* A write q puts its order back by design if it carries a date, and unknowingly
\* if the order has moved on since q was prepared.
GoesBack(from, to) ==
    \/ from = "CANCELLED" /\ to # "CANCELLED"
    \/ from \in {"SHIPPED", "DELIVERED"} /\ to = "PROCESSING"
    \/ from = "DELIVERED" /\ to = "SHIPPED"

Revives(q) ==
    /\ q.write # None /\ GoesBack(status[q.order], q.write)
    /\ q.read # status[q.order]

\* What updateOrder will write, decided on the order as it read it.
\* read is what it took from the order's status, None if it takes it from a date.
Prepared(o, to, shipped, delivered) ==
    LET write == StatusToWrite(status[o], to, shipped, delivered) IN
    [pc |-> "update", order |-> o,
     read |-> IF shipped \/ delivered THEN None ELSE status[o],
     write |-> write, closes |-> write # None /\ ClosesChat(status[o], write),
     delivered |-> delivered \/ to = "DELIVERED"]

Updates(o) ==
    {Prepared(o, u[1], u[2], u[3]) :
        u \in {v \in (OrderStatus \union {None}) \X BOOLEAN \X BOOLEAN :
                 /\ v # <<None, FALSE, FALSE>>
                 /\ \E by \in {buyerId[o], Seller} : MayUpdate(o, by, v[1], v[2] \/ v[3])
                 /\ v[1] # None => Allowed(status[o], v[1])}}

\* The job follows the update, and failing to queue it is only logged.
Write(q) ==
    LET o == q.order IN
    /\ status' = [status EXCEPT ![o] = IF q.write = None THEN @ ELSE q.write]
    /\ deliveredAt' = IF q.delivered THEN deliveredAt \union {o} ELSE deliveredAt
    /\ revived' = IF Revives(q) THEN revived \union {o} ELSE revived
    /\ \/ q.closes /\ jobs' = jobs \union {o}
       \/ UNCHANGED jobs
    /\ UNCHANGED <<winnerId, orderRows, deletedAt, twins, chatVars>>

\* Bound: an order that was put back is not updated again.
Followed == Orders \ (deletedAt \union revived)

ReadForUpdate(r, o) ==
    /\ req[r] = Idle
    /\ o \in Followed
    /\ \E q \in Updates(o) : Goto(r, q)
    /\ UNCHANGED <<winnerId, orderVars, chatVars, jobs>>

WriteUpdate(r) == At(r, "update") /\ Write(req[r]) /\ Goto(r, Idle)

UpdateOrder(o) ==
    /\ o \in Followed
    /\ \E q \in Updates(o) : Write(q)
    /\ UNCHANGED req

DeleteOrder(o) ==
    /\ o \in Orders \ deletedAt
    /\ status[o] # "DELIVERED"
    /\ deletedAt' = deletedAt \union {o}
    /\ status' = [status EXCEPT ![o] = "CANCELLED"]
    /\ UNCHANGED <<winnerId, orderRows, deliveredAt, revived, twins, chatVars, jobs, req>>

\* Whichever order of the winner the database returns first is cancelled,
\* delivered or not.
Cancel(o) == status' = [status EXCEPT ![o] = "CANCELLED"]

CancelWinner ==
    LET candidates == {o \in Orders \intersect fromAuction : buyerId[o] = winnerId} IN
    /\ winnerId # None
    /\ winnerId' = None
    /\ IF candidates = {} THEN UNCHANGED status ELSE \E o \in candidates : Cancel(o)
    /\ UNCHANGED <<orderRows, deliveredAt, deletedAt, revived, twins, chatVars, jobs, req>>

(***************************************************************************)
(* The conversation queue                                                  *)
(***************************************************************************)
\* deactivate-conversation-by-order closes every conversation about the
\* product, whoever it is with.
DeactivateByOrder(o) ==
    /\ o \in jobs
    /\ jobs' = jobs \ {o}
    /\ isActive' = {}
    /\ UNCHANGED <<winnerId, orderVars, conversations, peer, orderId, req>>

\* The sweep closes a conversation when its order is DELIVERED.  When its order
\* has been delivered and is no longer DELIVERED, it depends on whether the last
\* message is newer than deliveredAt, a date clients may choose.
FaultJobOnly(c) == FALSE
MustClose(c) == status[orderId[c]] = "DELIVERED"
MayClose(c) == orderId[c] \in deliveredAt /\ status[orderId[c]] # "DELIVERED"

Swept == {c \in isActive : orderId[c] # None /\ orderId[c] \notin deletedAt}
Batches == {B \in SUBSET Swept : Cardinality(B) = Min({BatchSize, Cardinality(Swept)})}

\* It closes by id what it read before.  Nothing opens a conversation again, so
\* reading and closing are one step here.
Sweep ==
    \E B \in Batches : \E late \in SUBSET {c \in B : MayClose(c)} :
        /\ isActive' = isActive \ ({c \in B : MustClose(c)} \union late)
        /\ UNCHANGED <<winnerId, orderVars, conversations, peer, orderId, jobs, req>>

-----------------------------------------------------------------------------
Handle(r) ==
    \/ \E b \in Buyer : ChooseWinner(r, b)
    \/ \E b \in Buyer, auction \in BOOLEAN : CreateOrder(r, b, auction)
    \/ CreateOrderFromAuctionWinner(r)
    \/ InsertOrder(r)
    \/ \E o \in Order : ReadForUpdate(r, o)
    \/ WriteUpdate(r)
    \/ CreateConversationForOrder(r)
    \/ GetWinnerConversation(r)
    \/ Abort(r)

OrderHandler(o) ==
    \/ UpdateOrder(o)
    \/ DeleteOrder(o)
    \/ ResolveOrderConversation(o)
    \/ DeactivateByOrder(o)

ChatHandler(c) ==
    \/ \E o \in Order \union {None} : UpdateConversation(c, o)
    \/ SendMessage(c)

Next ==
    \/ \E r \in Request : Handle(r)
    \/ \E o \in Order : OrderHandler(o)
    \/ \E c \in Conversation : ChatHandler(c)
    \/ \E b \in Buyer, asking \in Buyer \union {Seller} :
           GetOrCreateConversationByProduct(asking, b)
    \/ \E b \in Buyer, auction \in BOOLEAN : CreateOrderOnly(b, auction)
    \/ CancelWinner
    \/ Sweep

Spec == Init /\ [][Next]_vars

\* The cron queues a sweep every half hour and Bull runs it; clients may stop
\* at any time.
FairSpec == Spec /\ WF_vars(Sweep)

-----------------------------------------------------------------------------
TypeOK ==
    /\ winnerId \in Buyer \union {None}
    /\ orders \in 0..MaxOrders
    /\ buyerId \in [Order -> Buyer \union {None}]
    /\ status \in [Order -> OrderStatus \union {None}]
    /\ fromAuction \subseteq Orders /\ deliveredAt \subseteq Orders
    /\ deletedAt \subseteq Orders /\ revived \subseteq Orders
    /\ twins \subseteq Orders
    /\ \A o \in Orders : buyerId[o] # None /\ status[o] # None
    /\ conversations \in 0..MaxConversations
    /\ peer \in [Conversation -> Buyer \union {None}]
    /\ orderId \in [Conversation -> Orders \union {None}]
    /\ isActive \subseteq Chats
    /\ jobs \subseteq deliveredAt
    /\ req \in [Request -> RequestState]

\* A buyer has at most one order under way for one won auction, and at most one
\* purchase that is being processed: what the ConflictExceptions of createOrder
\* and createOrderFromAuctionWinner are there for.  An order that was put back may
\* stand beside its replacement, and so may two that were inserted at once.
OneLiveOrder ==
    \A o, p \in Orders \ (revived \union twins) :
        o # p /\ buyerId[o] = buyerId[p] =>
            /\ ~(o \in fromAuction /\ p \in fromAuction /\ Live(o) /\ Live(p))
            /\ ~(/\ o \notin fromAuction /\ p \notin fromAuction
                 /\ status[o] = "PROCESSING" /\ status[p] = "PROCESSING")

\* A conversation that carries an order is between that order's buyer and the
\* seller, however it came by the order: taken over, created with it, chosen for
\* the winner or linked by hand.
ChatIsWithBuyer == \A c \in Chats : orderId[c] # None => peer[c] = buyerId[orderId[c]]

\* An order goes from PROCESSING over SHIPPED to DELIVERED, and nothing follows
\* CANCELLED.  Only an update that carries a date puts one back, or an update that
\* read the order before it moved on; no status alone, deletion or cancelled winner.
OrderMovesForward ==
    [][\A o \in Orders : GoesBack(status[o], status'[o]) => o \in revived']_vars

\* The conversation of an order that is delivered gets closed even if the job was
\* never queued: the sweep finds it, also when other conversations to be closed fill
\* its batch first.  It need not find it when as many conversations as a batch holds
\* are to stay open: the batch has no order, and nothing takes them out of its way.
DeliveredChatCloses ==
    LET delivered(c) == status[orderId[c]] = "DELIVERED"
        waits(c) == c \in Swept /\ delivered(c)
        batchIsTaken == Cardinality({d \in Swept : ~delivered(d)}) >= BatchSize
    IN  \A c \in Conversation : waits(c) ~> ~waits(c) \/ batchIsTaken
=============================================================================
