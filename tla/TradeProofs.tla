----------------------------- MODULE TradeProofs -----------------------------
(***************************************************************************)
(* Proofs about Trade, for any number of buyers, orders, conversations and *)
(* requests in flight.                                                     *)
(*                                                                         *)
(* The checks of order.service.ts are made before the writes they allow,   *)
(* in transactions of their own.  What survives in between is what rows    *)
(* never lose: an order that was out of the way when it was looked at is   *)
(* still out of the way when the new one is inserted, unless an update put *)
(* it back, because statuses otherwise only move forward.                  *)
(***************************************************************************)
EXTENDS Trade, TLAPS

\* Orders that were deleted are cancelled, unless an update put them back.
DeletedAreCancelled == \A o \in deletedAt \ revived : status[o] = "CANCELLED"

\* What a request carries: orders that exist; of an order to be inserted, that
\* none there was when the check was made is in its way now, unless put back; of
\* an update, a status its order may go to from the one that was read.
PreparedUpdate(q) ==
    /\ q.closes => q.delivered
    /\ q.read = None \/ q.write = None \/ Allowed(q.read, q.write)
Sound(r) ==
    /\ req[r].pc \in {"orderChat", "winnerChat", "update"} => req[r].order \in Orders
    /\ At(r, "insert") =>
          /\ req[r].seen \in 0..orders
          /\ \A o \in Conflicts(req[r].buyer, req[r].auction) :
                o <= req[r].seen => o \in revived
    /\ At(r, "update") => PreparedUpdate(req[r])

IInv == TypeOK /\ DeletedAreCancelled /\ \A r \in Request : Sound(r)

\* What no step does to the orders there are: change their buyer or origin, put
\* one back without marking it, undo a deletion or a mark.
OrderStep ==
    /\ orders' >= orders
    /\ \A o \in Orders :
          /\ buyerId'[o] = buyerId[o]
          /\ o \in fromAuction' <=> o \in fromAuction
          /\ GoesBack(status[o], status'[o]) => o \in revived'
    /\ deletedAt \subseteq deletedAt' /\ revived \subseteq revived' /\ twins \subseteq twins'

-----------------------------------------------------------------------------
(***************************************************************************)
(* Statuses and updates.                                                   *)
(***************************************************************************)
LEMMA Facts ==
    ASSUME TypeOK
    PROVE  /\ orders \in Nat /\ Orders \subseteq Order /\ Orders \subseteq Nat
           /\ None \notin Orders /\ None \notin OrderStatus /\ None \notin Buyer
           /\ \A o \in Orders : buyerId[o] \in Buyer /\ status[o] \in OrderStatus
<1>1. orders \in Nat /\ orders <= MaxOrders
  BY TradeAssumption DEF TypeOK
<1>2. Orders \subseteq Order /\ Orders \subseteq Nat
  BY <1>1, TradeAssumption DEF Orders, Order
<1>3. None \notin Orders /\ None \notin OrderStatus /\ None \notin Buyer
  BY <1>2, TradeAssumption
<1> QED
  BY <1>1, <1>2, <1>3 DEF TypeOK

\* What is allowed is no way back, and staying is none.
LEMMA AllowedIsForward ==
    ASSUME NEW from, NEW to, Allowed(from, to)
    PROVE  ~GoesBack(from, to)
  BY DEF Allowed, GoesBack

LEMMA StateAt ==
    ASSUME NEW s \in RequestState
    PROVE  /\ s.pc = "winnerOrder" => s.buyer \in Buyer
           /\ s.pc = "orderChat" => s.order \in Order /\ s.forWinner \in BOOLEAN
           /\ s.pc = "winnerChat" => s.order \in Order
           /\ s.pc = "insert" => /\ s.buyer \in Buyer /\ s.auction \in BOOLEAN
                                 /\ s.forWinner \in BOOLEAN /\ s.seen \in 0..MaxOrders
           /\ s.pc = "update" => /\ s.order \in Order /\ s.read \in OrderStatus \union {None}
                                 /\ s.write \in OrderStatus \union {None}
                                 /\ s.closes \in BOOLEAN /\ s.delivered \in BOOLEAN
  BY DEF RequestState, Idle

LEMMA IdleState == Idle \in RequestState /\ Idle.pc = "idle"
  BY DEF Idle, RequestState

LEMMA UpdatesArePrepared ==
    ASSUME TypeOK, NEW o \in Orders, NEW q \in Updates(o)
    PROVE  q \in RequestState /\ q.pc = "update" /\ q.order = o /\ PreparedUpdate(q)
<1>1. status[o] \in OrderStatus /\ o \in Order /\ None \notin OrderStatus
  BY Facts
<1>2. PICK to \in OrderStatus \union {None}, shipped \in BOOLEAN, delivered \in BOOLEAN :
          /\ q = Prepared(o, to, shipped, delivered)
          /\ to # None => Allowed(status[o], to)
  BY DEF Updates
<1> DEFINE write == StatusToWrite(status[o], to, shipped, delivered)
           read == IF shipped \/ delivered THEN None ELSE status[o]
           closes == write # None /\ ClosesChat(status[o], write)
<1>3. write \in OrderStatus \union {None}
  BY <1>2 DEF StatusToWrite, OrderStatus
<1>4. /\ q = [pc |-> "update", order |-> o, read |-> read, write |-> write,
              closes |-> closes, delivered |-> delivered \/ to = "DELIVERED"]
  BY <1>2 DEF Prepared
<1>5. read \in OrderStatus \union {None} /\ closes \in BOOLEAN
  BY <1>1 DEF ClosesChat
<1>6. closes => delivered \/ to = "DELIVERED"
  BY <1>2 DEF ClosesChat, StatusToWrite
<1>7. read = None \/ write = None \/ Allowed(read, write)
  BY <1>2 DEF StatusToWrite
<1> HIDE DEF write, read, closes
<1>8. q \in [pc : {"update"}, order : Order, read : OrderStatus \union {None},
             write : OrderStatus \union {None}, closes : BOOLEAN, delivered : BOOLEAN]
  BY <1>1, <1>3, <1>4, <1>5
<1> QED
  BY <1>4, <1>6, <1>7, <1>8 DEF RequestState, PreparedUpdate

-----------------------------------------------------------------------------
(***************************************************************************)
(* Orders: what every step keeps.                                          *)
(***************************************************************************)
LEMMA WriteMovesForward ==
    ASSUME IInv, NEW q \in RequestState, q.pc = "update", q.order \in Orders, PreparedUpdate(q),
           Write(q)
    PROVE  OrderStep
<1> DEFINE o == q.order
<1>1. orders \in Nat /\ o \in Order /\ status \in [Order -> OrderStatus \union {None}]
      /\ status[o] \in OrderStatus /\ None \notin OrderStatus
  BY Facts DEF IInv, TypeOK
<1>2. UNCHANGED <<orders, buyerId, fromAuction, deletedAt, twins>>
  BY DEF Write, orderRows
<1>3. revived' = (IF Revives(q) THEN revived \union {o} ELSE revived)
  BY DEF Write
<1>4. \A p \in Orders \ {o} : status'[p] = status[p] /\ ~GoesBack(status[p], status[p])
  BY <1>1 DEF Write, GoesBack
<1>5. ASSUME GoesBack(status[o], status'[o]) PROVE o \in revived'
  <2>1. q.write # None /\ status'[o] = q.write
    BY <1>1, <1>5 DEF Write, GoesBack
  <2>2. q.read # status[o]
    BY <1>1, <1>5, <2>1, AllowedIsForward DEF PreparedUpdate
  <2> QED
    BY <1>3, <1>5, <2>1, <2>2 DEF Revives
<1> QED
  BY <1>1, <1>2, <1>3, <1>4, <1>5 DEF OrderStep

LEMMA CancellingMovesForward ==
    ASSUME IInv, NEW o \in Order, status' = [status EXCEPT ![o] = "CANCELLED"],
           UNCHANGED <<orderRows, revived, twins>>, deletedAt \subseteq deletedAt'
    PROVE  OrderStep
<1>1. orders \in Nat /\ status \in [Order -> OrderStatus \union {None}] /\ Orders \subseteq Order
  BY Facts DEF IInv, TypeOK
<1>2. \A p \in Orders : ~GoesBack(status[p], status'[p])
  BY <1>1 DEF GoesBack
<1> QED
  BY <1>1, <1>2 DEF OrderStep, orderRows

LEMMA InsertMovesForward ==
    ASSUME IInv, NEW b, NEW auction, NEW seen, Insert(b, auction, seen)
    PROVE  OrderStep
<1> DEFINE o == orders + 1
<1>1. orders \in Nat /\ o \notin Orders /\ o \in Order
  BY Facts DEF IInv, Insert, Orders
<1>2. Orders \subseteq Order /\ status \in [Order -> OrderStatus \union {None}]
      /\ buyerId \in [Order -> Buyer \union {None}]
  BY Facts DEF IInv, TypeOK
<1>3. \A p \in Orders : buyerId'[p] = buyerId[p] /\ status'[p] = status[p]
  BY <1>1, <1>2 DEF Insert
<1>4. \A p \in Orders : ~GoesBack(status[p], status[p])
  BY DEF GoesBack
<1> QED
  BY <1>1, <1>3, <1>4 DEF Insert, OrderStep

LEMMA OrdersUnchanged ==
    ASSUME TypeOK, UNCHANGED orderVars
    PROVE  OrderStep
  BY Facts DEF orderVars, orderRows, OrderStep, GoesBack

\* A request that does not move stays sound while orders move forward.
LEMMA StaysSound ==
    ASSUME IInv, OrderStep, orders' \in Nat, NEW s \in Request, req'[s] = req[s]
    PROVE  Sound(s)'
<1> DEFINE q == req[s]
<1>1. /\ orders \in Nat /\ Orders \subseteq Nat
      /\ \A o \in Orders : status[o] \in OrderStatus
  BY Facts DEF IInv
<1>2. Sound(s) /\ q \in RequestState
  BY DEF IInv, TypeOK
<1>3. Orders \subseteq Orders'
  BY <1>1 DEF Orders, OrderStep
<1>4. ASSUME q.pc = "insert"
      PROVE  /\ q.seen \in 0..orders'
             /\ \A o \in Conflicts(q.buyer, q.auction)' : o <= q.seen => o \in revived'
  <2>1. q.seen \in 0..orders /\ \A o \in Conflicts(q.buyer, q.auction) : o <= q.seen => o \in revived
    BY <1>2, <1>4 DEF Sound, At
  <2>2. q.seen \in 0..orders'
    BY <1>1, <2>1 DEF OrderStep
  <2>3. ASSUME NEW o \in Conflicts(q.buyer, q.auction)', o <= q.seen
        PROVE  o \in revived'
    <3>1. o \in Orders
      BY <1>1, <2>1, <2>3 DEF Conflicts, Orders
    <3>2. buyerId[o] = q.buyer /\ o \notin deletedAt
      BY <2>3, <3>1 DEF Conflicts, OrderStep
    <3>3. CASE o \in Conflicts(q.buyer, q.auction)
      BY <2>1, <2>3, <3>3 DEF OrderStep
    <3>4. CASE o \notin Conflicts(q.buyer, q.auction)
      <4>1. GoesBack(status[o], status'[o])
        BY <1>1, <2>3, <3>1, <3>2, <3>4 DEF Conflicts, GoesBack, OrderStep, OrderStatus
      <4> QED
        BY <3>1, <4>1 DEF OrderStep
    <3> QED
      BY <3>3, <3>4
  <2> QED
    BY <2>2, <2>3
<1> QED
  BY <1>2, <1>3, <1>4 DEF Sound, At

LEMMA IdleIsSound ==
    ASSUME NEW s \in Request, req'[s].pc \in {"idle", "winnerOrder"}
    PROVE  Sound(s)'
  BY DEF Sound, At

LEMMA RequestMoves ==
    ASSUME IInv, OrderStep, orders' \in Nat, NEW r \in Request, NEW state \in RequestState,
           Goto(r, state), Sound(r)'
    PROVE  req' \in [Request -> RequestState] /\ \A s \in Request : Sound(s)'
<1>1. req \in [Request -> RequestState]
  BY DEF IInv, TypeOK
<1>2. req' \in [Request -> RequestState] /\ \A s \in Request \ {r} : req'[s] = req[s]
  BY <1>1 DEF Goto
<1> QED
  BY <1>2, StaysSound

LEMMA RequestsStay ==
    ASSUME IInv, OrderStep, orders' \in Nat, UNCHANGED req
    PROVE  req' \in [Request -> RequestState] /\ \A s \in Request : Sound(s)'
  BY StaysSound DEF IInv, TypeOK

LEMMA RequestEnds ==
    ASSUME IInv, OrderStep, orders' \in Nat, NEW r \in Request, Goto(r, Idle)
    PROVE  req' \in [Request -> RequestState] /\ \A s \in Request : Sound(s)'
<1>1. req'[r] = Idle
  BY DEF Goto, IInv, TypeOK
<1> QED
  BY <1>1, IdleState, IdleIsSound, RequestMoves

LEMMA DeletedStayCancelled ==
    ASSUME IInv, OrderStep, \A o \in deletedAt' \ deletedAt : status'[o] = "CANCELLED"
    PROVE  DeletedAreCancelled'
<1> SUFFICES ASSUME NEW o \in deletedAt' \ revived' PROVE status'[o] = "CANCELLED"
  BY DEF DeletedAreCancelled
<1>1. CASE o \in deletedAt
  BY <1>1 DEF IInv, DeletedAreCancelled, TypeOK, OrderStep, GoesBack
<1> QED
  BY <1>1

-----------------------------------------------------------------------------
(***************************************************************************)
(* Steps that write no order: conversations, jobs, reads.                  *)
(***************************************************************************)
ChatTypes ==
    /\ conversations \in 0..MaxConversations
    /\ peer \in [Conversation -> Buyer \union {None}]
    /\ orderId \in [Conversation -> Orders \union {None}]
    /\ isActive \subseteq Chats

LEMMA ChatStepPreserves ==
    ASSUME IInv, UNCHANGED orderVars, winnerId' \in Buyer \union {None}, ChatTypes',
           jobs' \subseteq jobs, req' \in [Request -> RequestState],
           \A s \in Request : Sound(s)'
    PROVE  IInv'
<1> USE DEF orderVars, orderRows
<1>1. TypeOK'
  BY DEF IInv, TypeOK, ChatTypes, Orders
<1>2. DeletedAreCancelled'
  BY DEF IInv, DeletedAreCancelled
<1> QED
  BY <1>1, <1>2 DEF IInv

LEMMA ConverseTypes ==
    ASSUME TypeOK, UNCHANGED orders, NEW u \in Buyer, NEW o \in Orders \union {None}, Converse(u, o)
    PROVE  ChatTypes'
<1>1. conversations' \in 0..MaxConversations /\ Chats \union {conversations + 1} \subseteq Chats'
  BY TradeAssumption DEF TypeOK, Converse, Conversation, Chats
<1>2. isActive' \subseteq Chats'
  BY <1>1 DEF TypeOK, Converse
<1> QED
  BY <1>1, <1>2 DEF TypeOK, Converse, ChatTypes, Orders

LEMMA LinkTypes ==
    ASSUME TypeOK, UNCHANGED orders, NEW c, NEW o \in Orders \union {None}, Link(c, o)
    PROVE  ChatTypes'
  BY DEF TypeOK, Link, ChatTypes, Chats, Orders

LEMMA SameChatTypes ==
    ASSUME TypeOK, UNCHANGED <<orders, conversations, peer, orderId>>, isActive' \subseteq isActive
    PROVE  ChatTypes'
  BY DEF TypeOK, ChatTypes, Chats, Orders

LEMMA RequestChatStepsPreserve ==
    ASSUME IInv, NEW r \in Request, CreateConversationForOrder(r) \/ GetWinnerConversation(r)
    PROVE  IInv'
<1> DEFINE o == req[r].order
<1> USE DEF orderVars, orderRows
<1>1. UNCHANGED orderVars /\ UNCHANGED <<winnerId, jobs>> /\ orders' \in Nat /\ OrderStep
  BY OrdersUnchanged, Facts DEF CreateConversationForOrder, GetWinnerConversation, IInv
<1>2. o \in Orders /\ buyerId[o] \in Buyer
  BY Facts DEF CreateConversationForOrder, GetWinnerConversation, IInv, Sound, At
<1>3. ChatTypes'
  <2>1. \/ UNCHANGED chatVars
        \/ \E c : Link(c, o)
        \/ Converse(buyerId[o], o)
    BY DEF CreateConversationForOrder, GetWinnerConversation
  <2>2. CASE UNCHANGED chatVars
    BY <1>1, <2>2, SameChatTypes DEF chatVars, IInv
  <2> QED
    BY <1>1, <1>2, <2>1, <2>2, LinkTypes, ConverseTypes DEF IInv
<1>4. PICK state \in {Idle, [pc |-> "winnerChat", order |-> o]} : Goto(r, state)
  BY DEF CreateConversationForOrder, GetWinnerConversation
<1>5. req' \in [Request -> RequestState] /\ \A s \in Request : Sound(s)'
  <2>1. CASE state = Idle
    BY <1>1, <1>4, <2>1, RequestEnds
  <2>2. CASE state = [pc |-> "winnerChat", order |-> o]
    <3>1. state \in RequestState /\ req'[r] = state
      BY <1>2, <1>4, <2>2, Facts DEF RequestState, Goto, IInv, TypeOK
    <3>2. Sound(r)'
      BY <1>1, <1>2, <2>2, <3>1 DEF Sound, At, Orders
    <3> QED
      BY <1>1, <1>4, <3>1, <3>2, RequestMoves
  <2> QED
    BY <2>1, <2>2
<1> QED
  BY <1>1, <1>3, <1>5, ChatStepPreserves DEF IInv, TypeOK

LEMMA UserChatStepsPreserve ==
    ASSUME IInv, UNCHANGED <<winnerId, orderVars, req>>,
           \/ \E o \in Order : ResolveOrderConversation(o) \/ DeactivateByOrder(o)
           \/ \E c \in Conversation : ChatHandler(c)
           \/ \E b \in Buyer, asking \in Buyer \union {Seller} :
                 GetOrCreateConversationByProduct(asking, b)
           \/ Sweep
    PROVE  IInv'
<1> USE DEF orderVars, orderRows
<1>1. orders' \in Nat /\ OrderStep
  BY OrdersUnchanged, Facts DEF IInv
<1>2. req' \in [Request -> RequestState] /\ \A s \in Request : Sound(s)'
  BY <1>1, RequestsStay
<1>3. ChatTypes' /\ jobs' \subseteq jobs
  <2>1. ASSUME NEW o \in Order, ResolveOrderConversation(o) PROVE ChatTypes' /\ UNCHANGED jobs
    BY <2>1, Facts, ConverseTypes DEF ResolveOrderConversation, IInv
  <2>2. ASSUME NEW b \in Buyer, NEW asking, GetOrCreateConversationByProduct(asking, b)
        PROVE  ChatTypes' /\ UNCHANGED jobs
    BY <2>2, ConverseTypes DEF GetOrCreateConversationByProduct, IInv
  <2>3. ASSUME NEW c \in Conversation, ChatHandler(c) PROVE ChatTypes' /\ UNCHANGED jobs
    BY <2>3, LinkTypes, SameChatTypes DEF ChatHandler, UpdateConversation, SendMessage, IInv
  <2>4. CASE Sweep \/ \E o \in Order : DeactivateByOrder(o)
    BY <2>4, SameChatTypes DEF Sweep, DeactivateByOrder, IInv
  <2> QED
    BY <2>1, <2>2, <2>3, <2>4
<1> QED
  BY <1>2, <1>3, ChatStepPreserves DEF IInv, TypeOK

LEMMA ReadsPreserve ==
    ASSUME IInv, NEW r \in Request,
           \/ \E b \in Buyer : ChooseWinner(r, b)
           \/ \E b \in Buyer, auction \in BOOLEAN : CreateOrder(r, b, auction)
           \/ CreateOrderFromAuctionWinner(r)
           \/ \E o \in Order : ReadForUpdate(r, o)
           \/ Abort(r)
    PROVE  IInv'
<1> USE DEF orderVars, orderRows
<1>1. ASSUME UNCHANGED <<orderVars, chatVars, jobs>>, winnerId' \in Buyer \union {None},
             NEW state \in RequestState, Goto(r, state), Sound(r)'
      PROVE  IInv'
  <2>1. orders' \in Nat /\ OrderStep /\ ChatTypes'
    BY <1>1, OrdersUnchanged, SameChatTypes, Facts DEF IInv, chatVars
  <2> QED
    BY <1>1, <2>1, RequestMoves, ChatStepPreserves
<1>2. winnerId \in Buyer \union {None} /\ req \in [Request -> RequestState]
  BY DEF IInv, TypeOK
<1>3. ASSUME NEW b \in Buyer, NEW auction \in BOOLEAN, NEW forWinner \in BOOLEAN,
             CheckOrder(r, b, auction, forWinner)
      PROVE  IInv'
  <2> DEFINE state == [pc |-> "insert", buyer |-> b, auction |-> auction,
                       forWinner |-> forWinner, seen |-> orders]
  <2>1. orders \in 0..orders /\ orders \in 0..MaxOrders
    BY Facts DEF IInv, TypeOK
  <2>2. state \in [pc : {"insert"}, buyer : Buyer, auction : BOOLEAN, forWinner : BOOLEAN,
                   seen : 0..MaxOrders]
    BY <2>1
  <2>3. state \in RequestState
    BY <2>2 DEF RequestState
  <2>4. UNCHANGED <<winnerId, orderVars, chatVars, jobs>> /\ Goto(r, state)
    BY <1>3 DEF CheckOrder
  <2>5. req'[r] = state
    BY <1>2, <2>3, <2>4 DEF Goto
  <2>6. Conflicts(b, auction)' = {}
    BY <1>3, <2>4 DEF CheckOrder, MayOrder, Conflicts, Orders
  <2>7. Sound(r)'
    BY <2>1, <2>4, <2>5, <2>6 DEF Sound, At
  <2> HIDE DEF state
  <2> QED
    BY <1>1, <1>2, <2>3, <2>4, <2>7
<1>4. ASSUME NEW b \in Buyer, ChooseWinner(r, b) PROVE IInv'
  <2> DEFINE state == [pc |-> "winnerOrder", buyer |-> b]
  <2>1. state \in RequestState /\ Goto(r, state)
    BY <1>4 DEF ChooseWinner, RequestState
  <2>2. Sound(r)'
    BY <1>2, <2>1, IdleIsSound DEF Goto
  <2> QED
    BY <1>1, <1>4, <2>1, <2>2 DEF ChooseWinner
<1>5. CASE CreateOrderFromAuctionWinner(r)
  <2>1. req[r].buyer \in Buyer
    BY <1>2, <1>5, StateAt DEF CreateOrderFromAuctionWinner, At
  <2> QED
    BY <1>3, <1>5, <2>1 DEF CreateOrderFromAuctionWinner
<1>6. ASSUME NEW o \in Order, ReadForUpdate(r, o) PROVE IInv'
  <2>1. o \in Orders /\ UNCHANGED <<winnerId, orderVars, chatVars, jobs>>
    BY <1>6 DEF ReadForUpdate, Followed
  <2>2. PICK q \in Updates(o) : Goto(r, q)
    BY <1>6 DEF ReadForUpdate
  <2>3. q \in RequestState /\ q.pc = "update" /\ q.order = o /\ PreparedUpdate(q)
    BY <2>1, UpdatesArePrepared DEF IInv
  <2>4. Sound(r)'
    BY <1>2, <2>1, <2>2, <2>3 DEF Sound, At, Goto, Orders
  <2> QED
    BY <1>1, <1>2, <2>1, <2>2, <2>3, <2>4
<1>7. CASE Abort(r)
  BY <1>1, <1>2, <1>7, IdleState, IdleIsSound DEF Abort, Goto
<1> QED
  BY <1>3, <1>4, <1>5, <1>6, <1>7 DEF CreateOrder

-----------------------------------------------------------------------------
(***************************************************************************)
(* Steps that write orders.                                                *)
(***************************************************************************)
LEMMA InsertPreserves ==
    ASSUME IInv, NEW b \in Buyer, NEW auction, NEW seen, Insert(b, auction, seen),
           req' \in [Request -> RequestState], \A s \in Request : Sound(s)'
    PROVE  IInv'
<1> DEFINE o == orders + 1
<1>1. /\ orders' = o /\ o \in Order /\ o \in Orders' /\ Orders \subseteq Orders'
      /\ Orders' = Orders \union {o} /\ o \notin Orders
  BY Facts DEF Insert, IInv, Orders
<1>2. /\ UNCHANGED <<winnerId, deliveredAt, deletedAt, revived, conversations, peer, orderId,
                     isActive, jobs>>
      /\ buyerId' = [buyerId EXCEPT ![o] = b]
      /\ status' = [status EXCEPT ![o] = "PROCESSING"]
      /\ fromAuction' \subseteq fromAuction \union {o} /\ twins' \subseteq twins \union {o}
  BY DEF Insert, chatVars
<1>3. TypeOK'
  <2>1. orders' \in 0..MaxOrders
    BY <1>1, TradeAssumption DEF Order
  <2>2. buyerId' \in [Order -> Buyer \union {None}] /\ status' \in [Order -> OrderStatus \union {None}]
    BY <1>2 DEF IInv, TypeOK, OrderStatus
  <2>3. \A p \in Orders' : buyerId'[p] # None /\ status'[p] # None
    BY <1>1, <1>2, Facts DEF IInv, TypeOK, OrderStatus
  <2>4. /\ fromAuction' \subseteq Orders' /\ deliveredAt' \subseteq Orders'
        /\ deletedAt' \subseteq Orders' /\ revived' \subseteq Orders' /\ twins' \subseteq Orders'
    BY <1>1, <1>2 DEF IInv, TypeOK
  <2>5. orderId' \in [Conversation -> Orders' \union {None}]
    BY <1>1, <1>2 DEF IInv, TypeOK
  <2> QED
    BY <1>2, <2>1, <2>2, <2>3, <2>4, <2>5 DEF IInv, TypeOK, Chats
<1>4. DeletedAreCancelled'
  BY <1>2, InsertMovesForward, DeletedStayCancelled
<1> QED
  BY <1>3, <1>4 DEF IInv

LEMMA InsertOrderPreserves ==
    ASSUME IInv, NEW r \in Request, InsertOrder(r)
    PROVE  IInv'
<1> DEFINE q == req[r]
           state == [pc |-> "orderChat", order |-> orders', forWinner |-> q.forWinner]
<1>1. q.buyer \in Buyer /\ q.forWinner \in BOOLEAN /\ req \in [Request -> RequestState]
  BY StateAt DEF InsertOrder, At, IInv, TypeOK
<1>2. Insert(q.buyer, q.auction, q.seen) /\ Goto(r, state)
  BY DEF InsertOrder
<1>3. orders' \in Order /\ orders' \in Nat /\ orders' \in Orders'
  BY <1>2, Facts DEF Insert, IInv, Orders
<1>4. state \in RequestState /\ req'[r] = state
  BY <1>1, <1>2, <1>3 DEF RequestState, Goto
<1>5. Sound(r)'
  BY <1>3, <1>4 DEF Sound, At
<1>6. OrderStep
  BY <1>2, InsertMovesForward
<1>7. req' \in [Request -> RequestState] /\ \A s \in Request : Sound(s)'
  BY <1>2, <1>3, <1>4, <1>5, <1>6, RequestMoves
<1> QED
  BY <1>1, <1>2, <1>7, InsertPreserves

LEMMA CreateOrderOnlyPreserves ==
    ASSUME IInv, NEW b \in Buyer, NEW auction \in BOOLEAN, CreateOrderOnly(b, auction)
    PROVE  IInv'
<1>1. Insert(b, auction, orders) /\ UNCHANGED req
  BY DEF CreateOrderOnly
<1>2. OrderStep
  BY <1>1, InsertMovesForward
<1>3. orders' \in Nat
  BY <1>1, Facts DEF Insert, IInv
<1> QED
  BY <1>1, <1>2, <1>3, RequestsStay, InsertPreserves

\* A step that writes the status of one order and what goes with it.
LEMMA StatusStepPreserves ==
    ASSUME IInv, OrderStep, UNCHANGED <<orderRows, twins, chatVars>>,
           winnerId' \in Buyer \union {None},
           NEW o \in Orders, NEW new \in OrderStatus, status' = [status EXCEPT ![o] = new],
           deliveredAt' \subseteq Orders, deliveredAt \subseteq deliveredAt',
           deletedAt' \subseteq Orders, revived' \subseteq Orders, jobs' \subseteq deliveredAt',
           \A p \in deletedAt' \ deletedAt : status'[p] = "CANCELLED",
           req' \in [Request -> RequestState], \A s \in Request : Sound(s)'
    PROVE  IInv'
<1>1. TypeOK'
  BY Facts DEF IInv, TypeOK, orderRows, chatVars, Orders, Chats
<1>2. DeletedAreCancelled'
  BY DeletedStayCancelled
<1> QED
  BY <1>1, <1>2 DEF IInv

LEMMA WritePreserves ==
    ASSUME IInv, NEW q \in RequestState, q.pc = "update", q.order \in Orders, PreparedUpdate(q),
           Write(q), req' \in [Request -> RequestState], \A s \in Request : Sound(s)'
    PROVE  IInv'
<1> DEFINE o == q.order
           new == IF q.write = None THEN status[o] ELSE q.write
<1>1. OrderStep
  BY WriteMovesForward
<1>2. new \in OrderStatus
  BY StateAt, Facts DEF IInv
<1>3. status' = [status EXCEPT ![o] = new]
  BY Facts DEF Write, IInv, TypeOK
<1>4. /\ UNCHANGED <<winnerId, orderRows, deletedAt, twins, chatVars>>
      /\ deliveredAt' = (IF q.delivered THEN deliveredAt \union {o} ELSE deliveredAt)
      /\ revived' \subseteq revived \union {o}
      /\ jobs' = jobs \/ (q.closes /\ jobs' = jobs \union {o})
  BY DEF Write
<1>5. jobs' \subseteq deliveredAt'
  BY <1>4 DEF PreparedUpdate, IInv, TypeOK
<1>6. winnerId' \in Buyer \union {None} /\ deliveredAt' \subseteq Orders
      /\ revived' \subseteq Orders /\ deletedAt' \subseteq Orders
  BY <1>4 DEF IInv, TypeOK
<1> HIDE DEF new
<1> QED
  BY <1>1, <1>2, <1>3, <1>4, <1>5, <1>6, StatusStepPreserves

LEMMA OrderWritesPreserve ==
    ASSUME IInv,
           \/ \E r \in Request : WriteUpdate(r)
           \/ \E o \in Order : UpdateOrder(o) \/ DeleteOrder(o)
           \/ CancelWinner
    PROVE  IInv'
<1>1. ASSUME NEW r \in Request, WriteUpdate(r) PROVE IInv'
  <2>1. /\ req[r] \in RequestState /\ req[r].pc = "update" /\ req[r].order \in Orders
        /\ PreparedUpdate(req[r]) /\ Write(req[r]) /\ Goto(r, Idle)
    BY <1>1 DEF WriteUpdate, IInv, TypeOK, Sound, At
  <2>2. orders' \in Nat /\ OrderStep
    BY <2>1, Facts, WriteMovesForward DEF Write, orderRows, IInv
  <2> QED
    BY <2>1, <2>2, RequestEnds, WritePreserves
<1>2. ASSUME NEW o \in Order, UpdateOrder(o) PROVE IInv'
  <2>1. o \in Orders /\ UNCHANGED req
    BY <1>2 DEF UpdateOrder, Followed
  <2>2. PICK q \in Updates(o) : Write(q)
    BY <1>2 DEF UpdateOrder
  <2>3. q \in RequestState /\ q.pc = "update" /\ q.order = o /\ PreparedUpdate(q)
    BY <2>1, UpdatesArePrepared DEF IInv
  <2>4. orders' \in Nat /\ OrderStep
    BY <2>1, <2>2, <2>3, Facts, WriteMovesForward DEF Write, orderRows, IInv
  <2> QED
    BY <2>1, <2>2, <2>3, <2>4, RequestsStay, WritePreserves
<1>3. ASSUME NEW o \in Orders, status' = [status EXCEPT ![o] = "CANCELLED"],
             UNCHANGED <<orderRows, deliveredAt, revived, twins, chatVars, jobs, req>>,
             deletedAt' \in {deletedAt, deletedAt \union {o}},
             winnerId' \in Buyer \union {None}
      PROVE  IInv'
  <2>1. o \in Order /\ orders' \in Nat /\ OrderStep
    BY <1>3, Facts, CancellingMovesForward DEF IInv, orderRows
  <2>2. /\ deletedAt' \subseteq Orders /\ deliveredAt' \subseteq Orders /\ revived' \subseteq Orders
        /\ jobs' \subseteq deliveredAt' /\ "CANCELLED" \in OrderStatus
        /\ \A p \in deletedAt' \ deletedAt : status'[p] = "CANCELLED"
    BY <1>3, <2>1 DEF IInv, TypeOK, OrderStatus
  <2>3. req' \in [Request -> RequestState] /\ \A s \in Request : Sound(s)'
    BY <1>3, <2>1, RequestsStay
  <2> QED
    BY <1>3, <2>1, <2>2, <2>3, StatusStepPreserves
<1>4. ASSUME NEW o \in Order, DeleteOrder(o) PROVE IInv'
  BY <1>3, <1>4 DEF DeleteOrder, IInv, TypeOK
<1>5. CASE CancelWinner
  <2>1. CASE UNCHANGED status
    <3>1. UNCHANGED orderVars /\ UNCHANGED <<chatVars, jobs, req>> /\ winnerId' = None
      BY <1>5, <2>1 DEF CancelWinner, orderVars
    <3>2. orders' \in Nat /\ OrderStep /\ ChatTypes'
      BY <3>1, OrdersUnchanged, SameChatTypes, Facts DEF IInv, orderVars, orderRows, chatVars
    <3> QED
      BY <3>1, <3>2, RequestsStay, ChatStepPreserves
  <2>2. CASE status' # status
    BY <1>3, <1>5, <2>2 DEF CancelWinner, Cancel
  <2> QED
    BY <2>1, <2>2
<1> QED
  BY <1>1, <1>2, <1>4, <1>5

-----------------------------------------------------------------------------
(***************************************************************************)
(* The inductive invariant.                                                *)
(***************************************************************************)
LEMMA InitIInv == Init => IInv
<1> SUFFICES ASSUME Init PROVE IInv
  OBVIOUS
<1>1. Orders = {} /\ Chats = {}
  BY DEF Init, Orders, Chats
<1>2. TypeOK
  BY <1>1, IdleState, TradeAssumption DEF Init, TypeOK
<1>3. DeletedAreCancelled /\ \A r \in Request : Sound(r)
  BY IdleState DEF Init, DeletedAreCancelled, Sound, At
<1> QED
  BY <1>2, <1>3 DEF IInv

LEMMA NextIInv == IInv /\ [Next]_vars => IInv'
<1> SUFFICES ASSUME IInv, [Next]_vars PROVE IInv'
  OBVIOUS
<1>1. ASSUME NEW r \in Request, Handle(r) PROVE IInv'
  BY <1>1, ReadsPreserve, RequestChatStepsPreserve, InsertOrderPreserves, OrderWritesPreserve
  DEF Handle
<1>2. ASSUME NEW o \in Order, OrderHandler(o) PROVE IInv'
  BY <1>2, OrderWritesPreserve, UserChatStepsPreserve
  DEF OrderHandler, ResolveOrderConversation, DeactivateByOrder
<1>3. ASSUME NEW c \in Conversation, ChatHandler(c) PROVE IInv'
  BY <1>3, UserChatStepsPreserve DEF ChatHandler, UpdateConversation, SendMessage
<1>4. ASSUME NEW b \in Buyer, NEW asking \in Buyer \union {Seller},
             GetOrCreateConversationByProduct(asking, b)
      PROVE  IInv'
  BY <1>4, UserChatStepsPreserve DEF GetOrCreateConversationByProduct
<1>5. CASE Sweep
  BY <1>5, UserChatStepsPreserve DEF Sweep
<1>6. CASE UNCHANGED vars
  <2>1. orders' \in Nat /\ OrderStep /\ ChatTypes' /\ UNCHANGED orderVars
    BY <1>6, OrdersUnchanged, SameChatTypes, Facts DEF IInv, vars, orderVars, orderRows, chatVars
  <2> QED
    BY <1>6, <2>1, RequestsStay, ChatStepPreserves DEF vars, IInv, TypeOK
<1> QED
  BY <1>1, <1>2, <1>3, <1>4, <1>5, <1>6, CreateOrderOnlyPreserves, OrderWritesPreserve DEF Next

THEOREM Invariance == Spec => []IInv
  BY InitIInv, NextIInv, PTL DEF Spec

\* Every column and every request in flight keeps its type; in particular every
\* order has a buyer, and only delivered orders are queued to close their chat.
THEOREM TypeCorrect == Spec => []TypeOK
<1>1. IInv => TypeOK
  BY DEF IInv
<1> QED
  BY <1>1, Invariance, PTL

-----------------------------------------------------------------------------
(***************************************************************************)
(* Orders move forward.                                                    *)
(***************************************************************************)
LEMMA NextIsOrderStep == IInv /\ [Next]_vars => OrderStep
<1> SUFFICES ASSUME IInv, [Next]_vars PROVE OrderStep
  OBVIOUS
<1>1. ASSUME UNCHANGED orderVars PROVE OrderStep
  BY <1>1, OrdersUnchanged DEF IInv
<1>2. ASSUME NEW r \in Request, Handle(r) PROVE OrderStep
  <2>1. CASE InsertOrder(r)
    BY <2>1, InsertMovesForward DEF InsertOrder
  <2>2. CASE WriteUpdate(r)
    BY <2>2, WriteMovesForward DEF WriteUpdate, IInv, TypeOK, Sound, At
  <2> QED
    BY <1>1, <1>2, <2>1, <2>2
    DEF Handle, ChooseWinner, CreateOrder, CheckOrder, CreateOrderFromAuctionWinner,
        ReadForUpdate, CreateConversationForOrder, GetWinnerConversation, Abort
<1>3. ASSUME NEW o \in Order, OrderHandler(o) PROVE OrderStep
  <2>1. CASE UpdateOrder(o)
    <3>1. PICK q \in Updates(o) : Write(q) /\ o \in Orders
      BY <2>1 DEF UpdateOrder, Followed
    <3> QED
      BY <3>1, UpdatesArePrepared, WriteMovesForward DEF IInv
  <2>2. CASE DeleteOrder(o)
    BY <2>2, CancellingMovesForward DEF DeleteOrder
  <2> QED
    BY <1>1, <1>3, <2>1, <2>2 DEF OrderHandler, ResolveOrderConversation, DeactivateByOrder
<1>4. ASSUME NEW c \in Conversation, ChatHandler(c) PROVE OrderStep
  BY <1>1, <1>4 DEF ChatHandler, UpdateConversation, SendMessage
<1>5. CASE CancelWinner
  <2>1. CASE UNCHANGED status
    BY <1>1, <1>5, <2>1 DEF CancelWinner, orderVars
  <2>2. CASE status' # status
    BY <1>5, <2>2, Facts, CancellingMovesForward DEF CancelWinner, Cancel, IInv
  <2> QED
    BY <2>1, <2>2
<1>6. ASSUME NEW b \in Buyer, NEW auction \in BOOLEAN, CreateOrderOnly(b, auction) PROVE OrderStep
  BY <1>6, InsertMovesForward DEF CreateOrderOnly
<1>7. CASE Sweep \/ UNCHANGED vars
  BY <1>1, <1>7 DEF Sweep, vars
<1> QED
  BY <1>1, <1>2, <1>3, <1>4, <1>5, <1>6, <1>7 DEF Next, GetOrCreateConversationByProduct

\* No order goes back to an earlier status, or from CANCELLED to any, unless an
\* update with a date or one that read another status puts it back.
THEOREM OrderMovesForwardCorrect == Spec => OrderMovesForward
<1>1. IInv /\ [Next]_vars
      => [\A o \in Orders : GoesBack(status[o], status'[o]) => o \in revived']_vars
  BY NextIsOrderStep DEF OrderStep
<1> QED
  BY <1>1, Invariance, PTL DEF Spec, OrderMovesForward

-----------------------------------------------------------------------------
(***************************************************************************)
(* One live order of a buyer.                                              *)
(***************************************************************************)

\* Orders there are do not come into each other's way.
LEMMA OldOrdersStayApart ==
    ASSUME IInv, OneLiveOrder, OrderStep,
           NEW o \in Orders \ (revived' \union twins'), NEW p \in Orders \ (revived' \union twins'),
           o # p, buyerId'[o] = buyerId'[p]
    PROVE  /\ ~(o \in fromAuction' /\ p \in fromAuction' /\ Live(o)' /\ Live(p)')
           /\ ~(/\ o \notin fromAuction' /\ p \notin fromAuction'
                /\ status'[o] = "PROCESSING" /\ status'[p] = "PROCESSING")
<1>1. /\ o \in Orders \ (revived \union twins) /\ p \in Orders \ (revived \union twins)
      /\ buyerId[o] = buyerId[p] /\ status[o] \in OrderStatus /\ status[p] \in OrderStatus
  BY Facts DEF OrderStep, IInv
<1>2. ~GoesBack(status[o], status'[o]) /\ ~GoesBack(status[p], status'[p])
  BY DEF OrderStep
<1>3. \A x \in {o, p} : Live(x)' => Live(x)
  BY <1>2 DEF Live, GoesBack, OrderStep
<1>4. \A x \in {o, p} : status'[x] = "PROCESSING" => status[x] = "PROCESSING"
  BY <1>1, <1>2 DEF GoesBack, OrderStatus
<1> QED
  BY <1>1, <1>3, <1>4 DEF OneLiveOrder, OrderStep

\* A new order is in nobody's way but its twins'.
LEMMA InsertStaysApart ==
    ASSUME IInv, OneLiveOrder, NEW b \in Buyer, NEW auction \in BOOLEAN, NEW seen \in 0..orders,
           \A p \in Conflicts(b, auction) : p <= seen => p \in revived,
           Insert(b, auction, seen)
    PROVE  OneLiveOrder'
<1> DEFINE n == orders + 1
<1>1. OrderStep
  BY InsertMovesForward
<1>2. /\ orders \in Nat /\ n \in Order /\ n \notin Orders /\ Orders' = Orders \union {n}
      /\ Orders \subseteq Nat
  BY Facts DEF Insert, IInv, Orders
<1>3. /\ buyerId' = [buyerId EXCEPT ![n] = b] /\ status' = [status EXCEPT ![n] = "PROCESSING"]
      /\ fromAuction' = (IF auction THEN fromAuction \union {n} ELSE fromAuction)
      /\ UNCHANGED <<deletedAt, revived>>
  BY DEF Insert
<1>4. buyerId'[n] = b /\ n \notin fromAuction
  BY <1>2, <1>3 DEF IInv, TypeOK
<1>5. ASSUME NEW p \in Orders \ (revived' \union twins'), n \notin twins', buyerId'[p] = b
      PROVE  /\ ~(auction /\ p \in fromAuction' /\ Live(p)')
             /\ ~(~auction /\ p \notin fromAuction' /\ status'[p] = "PROCESSING")
  <2>1. buyerId[p] = b /\ status'[p] = status[p] /\ (p \in fromAuction' <=> p \in fromAuction)
    BY <1>2, <1>3, <1>5 DEF IInv, TypeOK
  <2>2. p <= seen
    BY <1>2, <1>5, <2>1 DEF Insert, Orders
  <2>3. p \notin Conflicts(b, auction)
    BY <1>3, <1>5, <2>2
  <2>4. p \in deletedAt => status[p] = "CANCELLED"
    BY <1>3, <1>5 DEF IInv, DeletedAreCancelled
  <2> QED
    BY <1>3, <1>5, <2>1, <2>3, <2>4 DEF Conflicts, Live
<1> SUFFICES ASSUME NEW o \in Orders' \ (revived' \union twins'),
                    NEW p \in Orders' \ (revived' \union twins'),
                    o # p, buyerId'[o] = buyerId'[p]
             PROVE  /\ ~(o \in fromAuction' /\ p \in fromAuction' /\ Live(o)' /\ Live(p)')
                    /\ ~(/\ o \notin fromAuction' /\ p \notin fromAuction'
                         /\ status'[o] = "PROCESSING" /\ status'[p] = "PROCESSING")
  BY DEF OneLiveOrder
<1>6. CASE o \in Orders /\ p \in Orders
  BY <1>1, <1>6, OldOrdersStayApart
<1>7. CASE o = n
  BY <1>2, <1>3, <1>4, <1>5, <1>7
<1>8. CASE p = n
  BY <1>2, <1>3, <1>4, <1>5, <1>8
<1> QED
  BY <1>2, <1>6, <1>7, <1>8

LEMMA NextOneLiveOrder == IInv /\ OneLiveOrder /\ [Next]_vars => OneLiveOrder'
<1> SUFFICES ASSUME IInv, OneLiveOrder, [Next]_vars PROVE OneLiveOrder'
  OBVIOUS
<1>1. ASSUME UNCHANGED orders PROVE OneLiveOrder'
  <2>1. OrderStep /\ Orders' = Orders
    BY <1>1, NextIsOrderStep DEF Orders
  <2> QED
    BY <2>1, OldOrdersStayApart DEF OneLiveOrder
<1>2. ASSUME NEW r \in Request, InsertOrder(r) PROVE OneLiveOrder'
  <2> DEFINE q == req[r]
  <2>1. q.buyer \in Buyer /\ q.auction \in BOOLEAN
    BY <1>2, StateAt DEF InsertOrder, At, IInv, TypeOK
  <2>2. /\ q.seen \in 0..orders
        /\ \A o \in Conflicts(q.buyer, q.auction) : o <= q.seen => o \in revived
    BY <1>2 DEF InsertOrder, IInv, Sound
  <2> QED
    BY <1>2, <2>1, <2>2, InsertStaysApart DEF InsertOrder
<1>3. ASSUME NEW b \in Buyer, NEW auction \in BOOLEAN, CreateOrderOnly(b, auction)
      PROVE  OneLiveOrder'
  BY <1>3, Facts, InsertStaysApart DEF CreateOrderOnly, MayOrder, IInv
<1>4. CASE UNCHANGED vars
  BY <1>1, <1>4 DEF vars, orderVars, orderRows
<1>5. ASSUME NEW r \in Request, Handle(r), ~InsertOrder(r) PROVE UNCHANGED orders
  BY <1>5
  DEF Handle, ChooseWinner, CreateOrder, CheckOrder, CreateOrderFromAuctionWinner, ReadForUpdate,
      WriteUpdate, Write, CreateConversationForOrder, GetWinnerConversation, Abort, orderVars,
      orderRows
<1>6. ASSUME \/ \E o \in Order : OrderHandler(o)
             \/ \E c \in Conversation : ChatHandler(c)
             \/ \E b \in Buyer, asking \in Buyer \union {Seller} :
                   GetOrCreateConversationByProduct(asking, b)
             \/ CancelWinner \/ Sweep
      PROVE  UNCHANGED orders
  BY <1>6
  DEF OrderHandler, UpdateOrder, Write, DeleteOrder, ResolveOrderConversation, DeactivateByOrder,
      ChatHandler, UpdateConversation, SendMessage, GetOrCreateConversationByProduct, CancelWinner,
      Sweep, orderVars, orderRows
<1> QED
  BY <1>1, <1>2, <1>3, <1>4, <1>5, <1>6 DEF Next

\* A buyer has one order under way of a won auction, and one purchase being
\* processed, however the checks, insertions, updates and cancellations of any
\* number of requests interleave; only twins and orders put back are apart.
THEOREM OneLiveOrderCorrect == Spec => []OneLiveOrder
<1>1. Init => OneLiveOrder
  BY DEF Init, Orders, OneLiveOrder
<1> QED
  BY <1>1, Invariance, NextOneLiveOrder, PTL DEF Spec

-----------------------------------------------------------------------------
(***************************************************************************)
(* The conversation of an order is with its buyer.                         *)
(***************************************************************************)
LEMMA LinkKeepsBuyers ==
    ASSUME IInv, ChatIsWithBuyer, UNCHANGED buyerId, NEW c, NEW o \in Orders \union {None},
           Link(c, o), o # None => peer[c] = buyerId[o] \/ orderId[c] = o
    PROVE  ChatIsWithBuyer'
  BY DEF IInv, TypeOK, Link, ChatIsWithBuyer, Chats, Conversation

LEMMA ConverseKeepsBuyers ==
    ASSUME IInv, ChatIsWithBuyer, UNCHANGED buyerId, NEW u, NEW o \in Orders \union {None},
           Converse(u, o), o # None => u = buyerId[o]
    PROVE  ChatIsWithBuyer'
  BY TradeAssumption DEF IInv, TypeOK, Converse, ChatIsWithBuyer, Chats, Conversation

LEMMA NextChatIsWithBuyer == IInv /\ ChatIsWithBuyer /\ [Next]_vars => ChatIsWithBuyer'
<1> SUFFICES ASSUME IInv, ChatIsWithBuyer, [Next]_vars PROVE ChatIsWithBuyer'
  OBVIOUS
<1>1. ASSUME UNCHANGED <<conversations, peer, orderId>> PROVE ChatIsWithBuyer'
  <2>1. \A c \in Chats : orderId[c] # None => buyerId'[orderId[c]] = buyerId[orderId[c]]
    BY TradeAssumption, NextIsOrderStep
    DEF OrderStep, IInv, TypeOK, Chats, Conversation
  <2> QED
    BY <1>1, <2>1 DEF ChatIsWithBuyer, Chats
<1>2. ASSUME NEW r \in Request, Handle(r) PROVE ChatIsWithBuyer'
  <2> DEFINE o == req[r].order
  <2>1. CASE CreateConversationForOrder(r)
    <3>1. o \in Orders /\ UNCHANGED buyerId
      BY <2>1 DEF CreateConversationForOrder, IInv, Sound, At, orderVars, orderRows
    <3>2. \/ UNCHANGED chatVars
          \/ \E c : Link(c, o) /\ peer[c] = buyerId[o]
          \/ Converse(buyerId[o], o)
      BY <2>1 DEF CreateConversationForOrder, FreeChats
    <3> QED
      BY <1>1, <3>1, <3>2, LinkKeepsBuyers, ConverseKeepsBuyers DEF chatVars
  <2>2. CASE GetWinnerConversation(r)
    <3>1. o \in Orders /\ UNCHANGED buyerId
      BY <2>2 DEF GetWinnerConversation, IInv, Sound, At, orderVars, orderRows
    <3>2. \/ UNCHANGED chatVars
          \/ \E c : Link(c, o) /\ peer[c] = buyerId[o]
          \/ Converse(buyerId[o], o)
      BY <2>2 DEF GetWinnerConversation, FoundFor
    <3> QED
      BY <1>1, <3>1, <3>2, LinkKeepsBuyers, ConverseKeepsBuyers DEF chatVars
  <2> QED
    BY <1>1, <1>2, <2>1, <2>2
    DEF Handle, ChooseWinner, CreateOrder, CheckOrder, CreateOrderFromAuctionWinner, InsertOrder,
        Insert, ReadForUpdate, WriteUpdate, Write, Abort, chatVars
<1>3. ASSUME NEW o \in Order, OrderHandler(o) PROVE ChatIsWithBuyer'
  <2>1. CASE ResolveOrderConversation(o)
    BY <2>1, ConverseKeepsBuyers DEF ResolveOrderConversation, orderVars, orderRows
  <2> QED
    BY <1>1, <1>3, <2>1 DEF OrderHandler, UpdateOrder, Write, DeleteOrder, DeactivateByOrder, chatVars
<1>4. ASSUME NEW c \in Conversation, ChatHandler(c) PROVE ChatIsWithBuyer'
  <2>1. ASSUME NEW o, UpdateConversation(c, o) PROVE ChatIsWithBuyer'
    BY <2>1, LinkKeepsBuyers DEF UpdateConversation, Linkable, orderVars, orderRows
  <2> QED
    BY <1>1, <1>4, <2>1 DEF ChatHandler, SendMessage
<1>5. ASSUME NEW b \in Buyer, NEW asking, GetOrCreateConversationByProduct(asking, b)
      PROVE  ChatIsWithBuyer'
  BY <1>5, ConverseKeepsBuyers DEF GetOrCreateConversationByProduct, orderVars, orderRows
<1> QED
  BY <1>1, <1>2, <1>3, <1>4, <1>5
  DEF Next, CreateOrderOnly, Insert, CancelWinner, Sweep, vars, chatVars

\* The conversation that carries an order is the seller's with that order's
\* buyer, whichever of the four ways it came by the order.
THEOREM ChatIsWithBuyerCorrect == Spec => []ChatIsWithBuyer
<1>1. Init => ChatIsWithBuyer
  BY DEF Init, Chats, ChatIsWithBuyer
<1> QED
  BY <1>1, Invariance, NextChatIsWithBuyer, PTL DEF Spec
=============================================================================
