# Formal models of second-bloom-backend

Second Bloom is a NestJS marketplace backend: products, auctions with live
bidding, payments for publication credits, orders, chats. Its state lives in
PostgreSQL (through Prisma, READ COMMITTED), in Redis (Bull queues, device
tokens, presence) and, for sockets, in the memory of each process. This
directory models the parts in which handlers, jobs and deliveries race, checks
them with TLC on small instances and proves their safety properties with TLAPS.

Paths below are relative to the repository's `src/` unless they start with
another top-level directory.

## 1. Inventory

### How the parts interact

Controllers call services. A service reads rows, checks what it read, and writes
later, mostly in a transaction of its own; between the reads and the writes
anything can happen. After the commit it calls the other parts: a Bull queue, a
gateway (sockets), notifications. Those calls are caught and logged, so a crash
or a failure there leaves the database as it is. Bull processors and cron
schedulers (`jobs/`) call the same services.

    client -> bid.service ----\                        /-> auction.gateway -> sockets
    seller -> auction.service --> auctions, bids (SQL) --> order.service -> conversation.service
    Bull   -> jobs/auction ---/        |               \-> notification.service -> Firebase
                 ^                     | refund: users.publicationCredits, products.status
                 | delayed job         v
    auction-scheduling.service   product.service <- seller     payment.service <- gateway webhooks
                                  | (takes a credit)            (adds credits or balance) <- jobs/payment
                                  v
                                 Telegram card -> app.controller webhook -> product.service

### Components, their state and what makes them correct

| component | state | operations | hard behaviour | correctness |
|---|---|---|---|---|
| bid book (`modules/bid`, parts of `modules/auction`) | the auction row's price, count, winner; bid rows with isRetracted, rejectedAt, isWinning | createBid, retractBid (also rejects), restoreBid, chooseWinner, cancelWinner, closeAuction, updateAuction, deleteAuction; leaderboards and lists | reads before the row lock, writes that ignore it, failures between statements | the count is the number of rows; no bid on a closed auction; one live bid of a bidder; one winning bid, which sets the price; refunds only without bids; boards agree with the book |
| auction clock (`modules/auction`, `jobs/auction`) | status, endTime, delayed job `finish-auction:<id>`, the 30 s sweep | first bid, extension, update, close, job, sweep | queue calls after the commit, lost jobs, id de-duplication, capped delays, retries, time | an expired auction ends; a late bid leaves time to answer; jobs do not linger; nothing ends early |
| payments (`modules/payment`, `jobs/payment`) | payments, users.balance, users.publicationCredits, expiry jobs | createInvoice, webhook, expiry job, stale sweep, createProduct's credit, grants | duplicated, late or ambiguous webhooks, expiry racing success | a payment is credited, and a credit spent, by a decision that was right when taken and takes effect once; nothing stays pending |
| products (`modules/product`) | status, soft deletion, auctions, the Telegram card | create, moderate, update, delete, draft after refund, press on a card, lists and labels | check-then-write, product and auction in separate transactions, calls to Telegram that fail | nothing unreviewed is shown; one open auction per product; the card tells the decision; labels, lists and counts agree |
| orders (`modules/order`) | order status, dates | from winner, purchase, update, delete | duplicate check without a lock, dates that imply a status | one live order per buyer; orders move forward |
| conversations (`modules/conversation`, job) | conversations, participants' unreadCount, messages, isActive | look up or create, send, read, edit, delete, page, deactivate (sweep) | look-up-then-create, lost updates of the counter, a batch that never advances, out of order commits | the chat of an order is its buyer's; the counter covers what is unread; deleted text stays gone; paging is complete |
| realtime gateways (three gateways, `redis/presence`) | maps of sockets, rooms, presence | connect, disconnect, join, leave, broadcast | disconnect while connect awaits, one user with several sockets, late answers | presence matches the sockets; a client shows what the conversation holds |
| sessions (`modules/auth`, `redis/device-tokens`) | codes, refreshTokenVersion, push tokens | sendOtp, verify, refresh, logout, Telegram login, account states | read, sign, write; get-modify-set of tokens in Redis | one session at a time; push tokens end with it |
| names (users, products, categories, conditions, sizes) | unique columns of rows deleted softly | create, rename, delete | check-then-write against a unique index that counts deleted rows | a name comes free with its row, as far as the code means it to |
| categories (`modules/category`) | a tree of rows | create, move, delete | ancestor walk, concurrent moves | the parents form a forest; a deleted category is empty |
| notifications (`modules/notification`) | preference, rows, read marks | notify functions, preferences, reading | awaits between row, preference and push | what is stored and pushed follows the preference and the session |
| storage and SMS (`modules/file`, `common`) | objects, rows, token, circuit breaker | upload with retries and clean-up, send | several attempts, one step of several failing | callers are told what was stored; no row without its object |
| locations, analytics, settings, translation | read-only rows, constants, none | read | none | see section 7 |

Several processes can run at once, so "concurrent" below includes two hosts.

## 2. Plan

The order was: what loses auctions or money first, then trade and chat, then
what the platform keeps for accounts and products. Abstract specifications are
stated where a component makes a promise that can be told without its handlers
(`PaymentAccount`). All of it is built:

1. `BidBook`, `BidViews`; `AuctionClock`; `PaymentAccount` and `PaymentLedger`.
2. `Trade` (orders and their chats) and `Chat` (inside one conversation).
3. `Sessions`, `Sockets`, `Rooms`, `Names`, `Channels`, `Inbox` and `Mailbox`,
   composed in `MCAccounts`.
4. `Catalogue`, `CategoryTree`, `Cards`, `News` and `Storefront`, composed in `MCMarket`.

Every component with a safety property has a proof module beside it, named after
it with `Proofs` behind. No module that is proved about uses a RECURSIVE operator.
What no theorem states is listed at the end of section 6.

## 3. Modules and the code

The same conventions throughout.

- VARIABLES are columns (or sets of rows with a flag), named as in
  `prisma/schema.prisma`; `req` and its like hold one record for every request in
  flight, with its program counter and what the handler remembers of its reads.
- A `...Read` action is everything a handler does before it writes, with its checks
  as guards; a `...Write`, `...Commit` or `...Tx` action is a stretch no other
  transaction sees half done. `Abort` is any failure: a check, the database, a crash.
- A statement waiting for a row lock is a disabled action.
- Operators whose name starts with `Fault` are plausible slips of the operator after
  them; they are not used by the specification, only to confirm that the properties
  would notice.
- Variables marked (history) are written and never read by the specification. Where
  the code is known to let an exception through, and nothing in the repository says
  otherwise, a history variable names the rows it concerns (`twins`, `slipped`,
  `uncounted`, `ghosts`, ...), and the property speaks of all the others: the
  property is as strong as the code, and the exception is on record.
- `MCAccounts` and `MCMarket` compose modules that share no state. A variable `part`
  picks the one a behaviour explores, so that TLC adds their state spaces instead of
  multiplying them; in `MCAccounts` a VIEW tells states by their part and its variables,
  which loses none.
  Model values are shared among the parts for the same reason.

### The auction

**BidBook**: one auction and its bids. createBid is `CreateBidRead` (checks on the
row as read), `CreateBidLock` (SELECT ... FOR UPDATE and the checks repeated under
it) and `CreateBidCommit` (deletes the bidder's live bids, inserts, moves the
winning mark, price and count). retractBid and restoreBid do not take the auction
row; their first statement locks the bid row, and `LockedBids` makes others wait
for it. An updateMany that waited works on a snapshot of rows, hence `seen`.
`FinalizeEnd` and `FinalizeRefund` are two statements, as in finalizeAuction, and a
crash may come between.

**BidViews**: the leaderboard, participants, winners and bid lists as queries over
BidBook's rows. Where SQL leaves the order of equal rows open, a query is the set
of answers it may give.

**AuctionClock**: the same auction seen from its end time, with a clock. Bids are
reduced to `hasBids`; what is added is the Bull job, the sweep and the queue
calls, which come after the commit as actions of their own (`Schedule`,
`Reschedule`, `Cancel`) and can fail (`QueueCallFails`) or be dropped (`Abort`).
Bull is external: a job id names at most one job, adding an existing id does
nothing, an active job cannot be removed, a failed job is retried, and removed
after the last attempt. Winners and refunds are BidBook's.

**News**: whom createBid, retractBid, chooseWinner and the handlers that end an
auction tell, after the commit, from what they read before or read then; and the
changes of which nobody is told: restoreBid, and updateAuction, which may end an
auction with bids, or put one that has ended meanwhile back to ACTIVE. retractBid and
restoreBid read (`StartRetract`, with isWinning) and commit (`CommitRetract`) in two
steps, as their transaction takes no lock before it writes.

BidBook, AuctionClock and News are three views of one auction, because their
product is too large to check and each property needs one of them; the handlers
they share are modelled in each, with the part that matters there.

### Money

**PaymentAccount**: what the payment module promises, whatever overlaps: a payment is
completed or closed, and a credit spent, only by a clerk's decision that was right when
it was taken (the payment was pending, the credit was there), that pays the owner what
the payment is worth, and that takes effect once at most. It does not promise that the
decision is still right by then, because the code does not check: two clerks may both
complete what both saw pending, and both spend the last credit.

**PaymentLedger**: the code. createInvoice writes the row and, separately, queues
the expiry job. A webhook (external, at most `MaxDeliveries` for an outcome) names
no payment of ours: `Matching` is the chain of queries in handleWebhook, by raw
amount, by amount in sum, by user, newest first. `WebhookRead` finds the payment,
`HandleSuccessfulPayment` is the transaction that completes it by id. The single
expiry job writes conditionally on PENDING in one statement; the stale sweep reads
and writes separately. createProduct's check and decrement are two actions, as
they are in the code. Any two of these may overlap. `Age` moves the age limit over payments; `JobFails` stands
for a job that failed its last attempt. `credited` and `outcome` are history.
`ImplementsAccount` maps FAILED and EXPIRED to "closed", and a request between its
read and its write to the decision it took (`DecisionOf`).

### Orders and conversations

**Trade**: the orders of one product, the winner of its auction and the seller's
conversations about it. chooseWinner, createOrder and updateOrder are chains of
separate writes, each a step; a request may be interrupted between two of them.
The sweep of `jobs/conversation` closes the chats of delivered orders.

**Chat**: one conversation. sendMessage, markMessagesAsRead, editMessage,
deleteMessage and the block handlers are the chains of statements they run;
messages are numbered when their transaction begins and seen when it commits.
`pager` is a client that follows nextCursor.

**Mailbox**: how conversations come to be and how they are shown: support
conversations with their welcome, conversations about a product or an order, lists,
cards and search, for a seller, buyers and three accounts that may be the
administration's.

**Rooms**: one client of `client/js/app.js` that goes from conversation to
conversation while the gateway broadcasts. HTTP answers, joins, leaves and events
are not ordered among themselves.

### Accounts

**Sessions**: one phone number's row, its codes and its devices. verifyOtp,
refreshToken, logout, the Telegram login, push token registration and account
deactivation or deletion are chains of statements on the row and on the Redis map.

**Sockets**: handleConnection and handleDisconnect of the conversation and the auction
gateway, and the auction gateway's joins and leaves, for one user with several sockets.
Both gateways await between a socket's arrival and its admission, when it may close
(`CloseUnknown`, and the ghosts that `AdmitAuction` then leaves behind).

**Names**: one table with a unique column; which table it is (users' phone, e-mail or
name, or a slug) decides what the look-up sees, whether a name is made unique by a
number, and what deletion does to it.

**Inbox**: one user's notifications: the preference row, created when first needed,
the notification row, and the push with the tokens read at the time. Registering a push
token, giving it up and logging out read the map from Redis, write it back and write
the row's fcmToken, each a step (`ReadMap`, `GiveInMap` or `TakeFromMap`, `NameToken` or
`ForgetToken`; `ClearPhones`, `ForgetPhones`): a request that read the map earlier may
put a token back that another took out (`leftovers`).

**Channels**: `retry.util.ts` around uploads and SMS: attempts, breaker, the SMS
token, the row of an upload and the clean-up when it cannot be written. Calls of the
storage and the insert of the row may take place though their answer is an error; for
the row the code takes that as "no row" and removes the object (`lost`).

### Products

**Catalogue**: one product's status, the versions of what it says, deletion, and its
auctions. Owners edit on what their handler read; staff publish on what they looked at,
which may be any earlier version: moderateProduct's own SELECT is seen by nobody, and the
card is posted once. updateAuction checks on a row it has read and writes a status by id
(`UpdateAuction`, `WriteOpenStatus`), so that it may open a closed auction again.

**CategoryTree**: categories, parents, deletions, and which have products.
`IsDescendant` is the walk of the code, `Below` (used by the properties) the
reference definition.

**Cards**: the Telegram card of one product: posting, presses, panel decisions.

**Storefront**: the status label, tabs, lists and counts of one product as queries
over products, auctions and orders, as these change one handler at a time.

## 4. Runs

| run | module | what it asks | instance |
|---|---|---|---|
| bidbook_serial | MCBidViews | one request at a time, any operation, failing anywhere: BookInOrder, BoardsAgree | 3 bidders, 3 bids, amounts 1..4, start price 0 or 1 |
| bidbook_concurrent | MCBidBook | two requests of any kind but updateAuction in flight: TypeOK, TotalBidsIsRowCount, NoBidOnClosedAuction, BidReplacesOwn | 2 bidders, 3 bids, 2 amounts |
| bidbook_price_race | MCBidBook | violated: BidRaisesPrice with two bids in flight | 2 bidders, 3 bids, amounts 1..3 |
| auction_clock | MCAuctionClock | TypeOK, LateBidExtends, ExpiredEnds, ClosedAuctionLosesJob | time 0..3, 2 requests, delay cap 2, 2 attempts |
| auction_timer_race | MCAuctionClock | violated: TimerEndsOnlyExpired | time 0..4, 1 request |
| ledger | MCPaymentLedger | TypeOK, PaymentsSettle, ImplementsAccount | 1 user, 2 payments, 2 requests, one delivery |
| ledger_race | MCPaymentLedger | violated: CreditedOnce with two deliveries in flight | 1 user, 2 payments, 2 requests |
| trade | MCTrade | TypeOK, OneLiveOrder, ChatIsWithBuyer, OrderMovesForward, DeliveredChatCloses | 2 buyers, 2 orders, 2 conversations, a batch of one, one interrupted request |
| chat | MCChat | TypeOK, UnreadCovered, DeletedTextIsGone, ShutMeansShut, HistoryIsPaged | 2 users, 3 messages, 2 changes, pages of 2, 2 requests |
| accounts | MCAccounts | TypeOK, OneSession, TokensEndWithSession, Presence, RoomShowsThread, NamesComeFree, OffStaysOff, PushFindsOwner, MailboxAgrees, FilesKept | 2 of everything that races, 3 chat sockets, 3 messages in Mailbox; 1.1 million states |
| market | MCMarket | TypeOK, ShownWasReviewed, AuctionsOfProduct, DeletedCategoryIsEmpty, StorefrontAgrees, CardTellsDecision, NewsArrives | 2 handlers, 1 edit, 2 auctions, 2 categories, 3 bids, 3 rows, clock to 2 |
| categories | CategoryTree | violated: TreeHasNoCycle with one administrator | 3 categories, MaxDepth 4 |

What the bounds make possible:

- In `bidbook_serial` three bids of three bidders let a winner be retracted,
  replaced, restored and overtaken; amounts 1..4 let each bid
  raise the price, and with start price 0 or 1 and minimum 1 both the increment and
  the minimum decide. Two requests in flight are one holding the lock and one
  waiting or reading before it.
- In AuctionClock the delay cap (2) is below the longest delay that occurs, so
  jobs fire early; the extension (2) exceeds the duration (1), so every later bid
  is late and moves the end; two attempts let a job fail, be retried and vanish.
  `SetStatus = {"ACTIVE"}` keeps the statuses a seller writes with updateAuction
  to the one that opens an auction without a bid; closing, choosing a winner and
  deleting, which have actions of their own, write the others.
- In the ledger two payments can be confused by amount (a top-up of 100 sum and a
  publication of 1 sum are both "100" for the matching, one in tiyins). Two requests
  are enough for a webhook, a sweep or a publication to come between another's read
  and its write, and for one credit to be spent twice. One user keeps the run with
  liveness short; the theorems hold for any number of users and requests. One delivery of
  each outcome is an assumption of that run, not of the code: `ledger_race` shows what
  a second one does. `MaxGrants` bounds free credits.
- In Trade `MaxRows` bounds orders and conversations together (an order counts
  twice, as its chat follows), so that two orders of two buyers, or one order with
  two conversations, occur. With a batch of one the sweep can take another conversation
  first. One that is to be closed makes room; one that is to stay open can be taken again
  and again, as the query has no order and a batch without a change leads to the same
  batch. DeliveredChatCloses therefore excepts the time in which as many conversations
  that are to stay open as a batch holds are in its way (`batchIsTaken`); in the code's
  configuration these are five hundred (CRON_CONVERSATIONS_BATCH_SIZE).
- In Chat three messages over pages of two make the reader ask twice; `MaxChanges`
  bounds what is done besides sending.
- In Rooms one message is enough because messages do not interact: a list is a set
  of what it shows; each message is edited once. With `MaxAsked = 0` a selection waits
  for earlier joins and leaves.
- `MaxVersion = 2` allows two logins, and a logout between them.
- In Inbox two token requests over two push tokens let one write back what it read before
  the other, and one notification reads the row before and the map after them.
- In Catalogue one edit makes two versions, of which staff may have looked at either; two
  auctions are one that is opened again beside another.
- In News two players suffice, since the leader and the one overtaken are all a
  bid concerns. In Storefront three rows are two auctions and an order, or one
  auction and two orders; the clock lets two auctions of lengths 1 and 2 end in either
  order.
- In Names two rows compete for two base names, with numbers behind them where the table has slugs.

Deadlock is not checked: a system in which all ids are used up, time is at its
bound and nobody calls has stopped, and may.

`bidbook_concurrent` leaves updateAuction out: with it the state space is beyond
what a run should take, and its writes concern the price, which only the serial
run checks. The theorems of BidBookProofs hold with it.

### Properties that hold only when requests do not overlap

The serial run states what each bid handler preserves on its own, with crashes
between its statements. With two handlers in flight the code gives several of these
up: retractBid and restoreBid write without the auction's lock, finalizeAuction
writes ENDED over whatever is there, deletions go by a count read before. That is
what the code does; the violation runs keep those disagreements that contradict
something the repository itself says, the hazard list in PROJECT.json names the
others. CardTellsDecision likewise speaks of presses that do not overlap.

### Disagreements found

1. **A bid need not raise the price** (`bidbook_price_race`). createBid says "Bid
   amount must be at least {{minimumRequiredBid}} (current price + increment)", but
   compares with the price it read before the lock (`modules/bid/bid.service.ts:130`);
   under the lock it re-reads status and end time, not the price.
2. **A timer ends an auction that is not due** (`auction_timer_race`). The job and
   the sweep end by id (`modules/auction/auction.service.ts:883` and 1017) what they
   found expired some queries before; an end moved meanwhile does not count,
   although the job means to reschedule when it "fired early".
3. **A payment is credited twice** (`ledger_race`). The guard "already processed"
   (`modules/payment/payment.service.ts:208`) looks at a row selected as PENDING, and
   the transaction updates by id; two deliveries at once both credit.
4. **A category can become its own ancestor** (`categories`). updateCategory means to
   refuse "a descendant category as parent" (`modules/category/category.service.ts:303`),
   but isDescendant (line 441) walks up from the category that is moved; a move
   below its own child passes, and a move to its own grandparent is refused.

### What the models show the code to do

Not errors against anything the repository says, and mostly the reason for a
history variable:

- *Bids.* The outbid notice goes to who led before the transaction, who may not be
  who is overtaken. A cancelled winner stays on the leaderboard. updateAuction may end an
  auction with bids, and opens one again that ended after it had looked; nobody is told.
- *Trade.* Two createOrder at once give two live orders. An updateOrder that read an
  order before it moved on puts it back, and a date moves it past the check.
  cancelWinner may cancel a DELIVERED order. A new order may be linked to a conversation
  that is inactive, because only the newest one about the product is looked at;
  closing by product closes the chats of its other buyers too.
- *Chat.* nextCursor is the newest message of a page, as the page is reversed in place
  first. markMessagesAsRead writes a counter from a stale value. An edit checked before a
  deletion overwrites the notice.
- *Mailbox.* Two requests that cross open two support conversations; a changed
  administration account opens a new one; a welcome signed by an account outside the
  conversation is dropped; a crash after the creation loses the welcome; the block of
  the dedicated account shows and has no effect.
- *Rooms.* A page that arrives after another conversation was opened is appended to the
  list shown; a client that reconnects does not fetch what it missed; deletions over HTTP
  are not broadcast.
- *Sockets.* A socket that closes while it is admitted stays online; leaving the auction
  gateway with one socket removes the user from all rooms. Open sockets of a revoked
  session still receive broadcasts.
- *Sessions.* A login with a code reactivates a deactivated account; a Telegram link finds
  deleted accounts.
- *Names.* Names of deleted conditions and sizes are refused by the index for good; a
  rename checked before its user's deletion leaves the name taken; a phone change uses its
  code up even when the write is refused.
- *Payments.* Publications that overlap overdraw an account by one credit each; a webhook
  that is redelivered may complete another pending payment of the same amount.
- *Catalogue.* An edit of a PENDING product, before or during its approval, is published
  unseen, since its card is not posted again; a late updateAuction leaves two open auctions; edits of only city, district, isCharity or isFeatured need no moderation.
- *Cards.* Overlapping presses can leave a card that contradicts the product; the card
  shows the version that was created; an approval of a product deleted meanwhile
  leaves the buttons.
- *Storefront.* Counts include deliveries that lists omit; "sold" goods may be labelled
  available; a filter by sale phase drops the one by status.
- *Inbox.* A token given up or logged out comes back when a registration that had read the
  map earlier writes it; pushes go there until the next logout.
- *Channels.* A file row whose insert was answered by an error stays without its object. A
  success that comes late while the breaker is open resets it, half-open
  admits every caller, and an SMS answer of `false` counts as success.

## 5. Fairness

AuctionClock: time passes; a transaction that holds the row commits or is aborted
(PostgreSQL does not leave it open: connections time out); Bull keeps picking up due
jobs and the repeatable sweep (weak fairness on their first steps). The UPDATE that
ends an auction waits for a row lock that others may take again and again, but
waiters are queued, hence strong fairness there, which also says that it does not
fail every time it is tried; without that nothing can be promised. No fairness is
assumed of clients, of queue calls, of the delayed job ever being created.
`ExpiredEnds` is thus carried by the sweep alone, as the warning in
`auction-scheduling.service.ts` ("relying on fail-safe cron") intends.

PaymentLedger: payments grow old; a handler does not hang for ever; the hourly cron
keeps starting the sweep although other requests compete for the model's few
request slots (strong fairness: the slots are a bound of the model, workers have
their own), and its update does not fail every time. Nothing is assumed of the
gateway or of the single expiry job.

Trade: the half-hourly sweep of conversations runs again and again (weak fairness; a full
batch is queued again). Chat: the reader of the history goes on asking (weak
fairness). Nothing else is assumed there, and the other modules state no liveness.


## 6. Proofs

A theorem holds for every value of the constants that meets the ASSUMEs of the
modules it is about: bounds are natural numbers, markers such as `NoOne` are not
members of the sets they stand beside, sets that are counted are finite. TLC evaluates
them in every run. Where a result needs more, the theorem says so as a hypothesis.

| module | theorem | says | hypothesis |
|---|---|---|---|
| BidBookProofs | TypeCorrect, TotalBidsCorrect | `[]TypeOK`, `[]TotalBidsIsRowCount` | |
| | BidsOnlyWhileOpen, BidReplacesOwnCorrect | `NoBidOnClosedAuction`, `BidReplacesOwn` | |
| BidBookSerialProofs | BookInOrderCorrect, BoardsAgreeCorrect | `[]BookInOrder`, `[]BoardsAgree` | OneAtATime |
| AuctionClockProofs | TypeCorrect, LateBidsExtend | `[]TypeOK`, `LateBidExtends` | |
| PaymentLedgerProofs | TypeCorrect | `[]TypeOK` (no account overdrawn by more than the publications that can cross) | |
| | Refinement | `ImplementsAccount` | |
| TradeProofs | TypeCorrect, OneLiveOrderCorrect, ChatIsWithBuyerCorrect | the invariants of `trade` | |
| | OrderMovesForwardCorrect | `OrderMovesForward` | |
| ChatProofs | TypeCorrect, UnreadCoveredCorrect, DeletedTextIsGoneCorrect | the invariants of `chat` | |
| | ShutMeansShutCorrect | `ShutMeansShut` | |
| MarketProofs | TypeCorrect, ShownWasReviewedCorrect, AuctionsOfProductCorrect, DeletedCategoryIsEmptyCorrect, CardTellsDecisionCorrect, NewsArrivesCorrect, StorefrontAgreesCorrect | the invariants of `market` of that name | |
| AccountsProofs | TypeCorrect, OneSessionCorrect, TokensEndWithSessionCorrect, PresenceCorrect, NamesComeFreeCorrect, FilesKeptCorrect, OffStaysOffCorrect, PushFindsOwnerCorrect, RoomShowsThreadCorrect, MailboxAgreesCorrect | the invariants of `accounts` | |

OneAtATime (`\A r, s \in Request : r = s`) is what `bidbook_serial` has as its
instance; no other theorem has a hypothesis. CreditedOnce is no theorem, because the code
does not keep it: `ledger_race` finds a payment credited twice.

The proofs follow one pattern: an inductive invariant, a lemma for each operation or for
operations that write alike, and a QED that puts the steps of Next together. What the
invariants add to the properties:

*BidBook.* The count is not inductive: createBid lowers it by the bids it listed,
before it deletes them. The invariant adds that one request at most holds the auction
row (OneLockHolder); that while it does the auction is open and the listed bids are still
rows (HolderIsCurrent); that a bid under an uncommitted retraction or restoration is a
row (WrittenBidsAreRows); that a row has a bidder (RowsHaveBidder). BidReplacesOwn adds
that the list goes on covering the bidder's live bids until the commit: whatever makes a
bid live writes the auction row too, and so waits.

*BidBook, one request at a time.* What a request read is still what the tables say
(ReadsAreCurrent), and some number bounds the amounts, so that a set of bids has a
highest. The boards leave out retracted bids but not rejected ones; they show the live bids
because what is rejected is retracted too while the auction takes bids
(RejectedIsRetracted).

*AuctionClock.* LateBidExtends compares the end a bid writes with the one that was there,
by the time the bid read under the lock. The invariant adds OneLockHolder and
HolderInTime: the transaction's time is not after the clock and, while the auction is
active, before its end. The clock may pass the end while the transaction runs; the end
itself cannot move, as everyone else who writes it waits.

*PaymentLedger.* How far an account can be overdrawn is not inductive: the invariant adds
that its credits less the publications that have passed their check and not yet taken one
are at least one minus the number of handlers (CreditsCovered). A check needs a credit and
a handler that was not among them, so that at most all the others are; taking a credit
takes its handler out of the count. The refinement maps each read to the decision it
takes, each write to carrying one out, and everything else to a stutter; that decisions
are right is what the reads and `Matching` establish. Nothing is assumed on what overlaps.

*Trade.* The checks and the writes they allow are transactions of their own. What
survives in between is that an order which was out of the way when it was looked at stays
so, because statuses only move forward except in orders put back (`revived`); and that a
conversation an order is about to be linked to is its buyer's.

*Chat.* SendsSoundly, ChangesSoundly and MarksSoundly: what a request between two statements still knows of the message, the
block and the counter. The counter needs a count of messages by sender, kept by lemmas on
cardinalities.

*Market.* Each part's invariant says what a handler between its check and its write still
knows, unless a history variable marks that another came in between: which version it
saw, which auctions were open, that a parent or category was there, which press is
current, who the bidder believes to lead. For the storefront it says that one auction is
open at most, that what is cancelled is gone, and that some number bounds the ends of the
auctions, so that one of them ends last (ShopInv). The parts share no state.

*Accounts.* PartsAlone reduces a step of the whole to a step of one part; each part has
an invariant of its own:

- sessions: a login raises the version in the statement that begins it, so that of the
  devices that hold or await tokens at most one has the current version (OneHolder), and
  what a request signs is no newer than the row (KnowsVersion);
- sockets: sockets admitted after they had closed had been closed by then
  (GhostsWereAdmitted), and a broadcast under way tells what is so, as long as none
  crossed (BroadcastsAreTrue);
- names: what a handler found when it checked stays true of those rows;
- channels: the breaker keeps its type, and each place of a request says what it has left
  in the storage and the database, or that its insert's answer was lost;
- inbox: the account's tokens were given and not given up, or are left over
  (PhonesWereGiven); a notification under way has noted all that were when it began
  (PushFits); what a token request has read of the map and will write back is accounted
  for in the same way (TokenCallFits);
- rooms: a message that should be in the list is in it, was missed, is about to be
  announced or is in an answer (NothingIsLost); a list or an answer older than a change
  will be told of it or missed it (DeletionsAreTold, EditsAreTold); a client that is not
  in its room has asked to join (JoinIsComing);
- mailbox: a conversation is between the seller and a buyer, who is also the one of its
  order, or between a client and an administration account; a request that is about to
  open a support conversation has found none, unless two crossed; one that is about to
  welcome is the only one in that conversation, which has no welcome yet.

TLC checked each of these invariants on the run's instance before it was proved.

The safety invariants and action properties of the passing runs are all proved, the
storefront's and the boards' included. Only model-checked is liveness, which is out of
the provers' reach: ExpiredEnds, ClosedAuctionLosesJob, PaymentsSettle,
DeliveredChatCloses, HistoryIsPaged.

## 7. Not modelled

- Locations, analytics, settings and translation: constants, read-only queries or none.
- The platform ban of a bidder whose bids are rejected often
  (`modules/bid/bid.service.ts:738`) and the limit on bids per minute, which depend on other
  auctions; likes, views, prices and attributes of products, products of staff.
- `extendAuctionIfNeeded`, `createNotification`, `notifyOrderConfirmed` and other
  notify methods that nothing calls.
- The payment gateway's socket, which keeps no state. The limit of a hundred socket events
  a minute (`common/guards/ws-rate-limit.guard.ts`): one handler on one counter; as its
  window is fixed, up to twice as many pass around the end of one.
- The expiry of access tokens; signatures; ownership checks other than those that decide
  between behaviours; the parsing of Telegram's data.
- Files in messages; texts; the order of lists where a property does not depend on it;
  `isActive` of categories.
- HTTP plumbing, metrics, most of the test client, scratch scripts: I/O or wiring.

Coarser than the code: in Trade, deleting an order and cancelling a winner are one step
each; in CategoryTree, the queries of one isDescendant walk are one step.

## 8. Running

    tlc -workers 2 -config <run>.cfg <module of the run>
    tlapm <module>Proofs.tla      (BidBook, BidBookSerial, AuctionClock, PaymentLedger,
                                   Trade, Chat, Market, Accounts)

`accounts`, `market`, `ledger` and `trade` take two to three and a half minutes each,
AccountsProofs about six minutes, the others less.
PROJECT.json lists the components, the runs with their properties, the faults each
property detects, the source lines of every definition, and the hazards.
