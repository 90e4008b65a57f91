--------------------------------- MODULE Chat ----------------------------------
(***************************************************************************)
(* One conversation between two users: its messages, its unread counters,  *)
(* the ways it can be shut, and a reader who pages back through its        *)
(* history (conversation.service.ts, message.repository.ts, and the block  *)
(* handlers of user.service.ts).                                           *)
(*                                                                         *)
(* Messages are numbered by createdAt, which a message gets when its       *)
(* transaction begins; others see it when the transaction commits.  Every  *)
(* handler is the chain of statements it runs in the database, and those   *)
(* of other requests run in between.  Trade says when conversations close. *)
(***************************************************************************)
EXTENDS Integers, FiniteSetsExt

CONSTANTS
    User,           \* the two participants
    Administrator,  \* the one the administration's account would be
    Earlier,        \* messages that were sent and read before the model starts
    MaxMessages,    \* bound on the messages sent
    MaxChanges,     \* bound on what is done besides sending: reading, editing,
                    \* deleting, blocking and closing
    PageSize,       \* the limit of getMessages
    Request         \* handlers that can be between two statements at once

Message == 1..MaxMessages
Contents == {"original", "edited", "notice"}  \* notice: 'This message was deleted'

ASSUME ChatAssumption ==
    /\ IsFiniteSet(User) /\ Cardinality(User) = 2 /\ Administrator \in User
    /\ MaxMessages \in Nat /\ Earlier \in 0..MaxMessages /\ MaxChanges \in Nat
    /\ PageSize \in Nat \ {0}

VARIABLES
    \* users that are the administration's account (isAdministrationChat)
    administration,
    \* message rows: how many were begun, their senders, those committed, their columns
    begun, sender, messages, isRead, isDeleted, content,
    \* the conversation and its two participants
    lastMessageId, isActive, unreadCount, isBlocked,
    \* user blocks that are active: <<blocker, blocked>>
    blocks,
    \* how many changes were begun
    changes,
    \* a reader of the history
    pager,
    \* requests between two statements
    req,
    \* history: messages not covered by the counter since they came while their
    \* receiver was marking messages as read; messages already under way when
    \* the conversation was shut; deleted messages that an edit, checked before,
    \* wrote to after
    uncounted, early, lateEdit

messageVars == <<begun, sender, messages, isRead, isDeleted, content, lateEdit>>
shutVars == <<isActive, isBlocked, blocks, early>>
countVars == <<unreadCount, uncounted>>
vars == <<administration, messageVars, lastMessageId, countVars, shutVars, changes, pager, req>>

Other(u) == CHOOSE v \in User : v # u
From(u) == {m \in messages : sender[m] = u}
Unread(u) == {m \in From(Other(u)) : m \notin isRead \union isDeleted}

-----------------------------------------------------------------------------
Idle == [pc |-> "idle"]
Marks == {{}} \union {{m} : m \in Message}  \* messageIds: none given, or one
RequestState ==
    UNION {{Idle},
           [pc : {"sending", "editing", "deleting"}, message : Message],
           [pc : {"readRows"}, user : User, ids : Marks, unread : 0..MaxMessages],
           [pc : {"readCount"}, user : User, all : BOOLEAN, unread : 0..MaxMessages,
            count : 0..MaxMessages]}

\* One more of the changes that MaxChanges bounds.
Changing == changes < MaxChanges /\ changes' = changes + 1

At(r, pc) == req[r].pc = pc
Goto(r, state) == req' = [req EXCEPT ![r] = state]

NoPager == [pc |-> "closed", cursor |-> 0, start |-> {}, seen |-> {}]

Init ==
    /\ administration \in {{}, {Administrator}}
    /\ begun = Earlier
    /\ sender = [m \in Message |-> Administrator]
    /\ messages = 1..Earlier /\ isRead = 1..Earlier /\ isDeleted = {}
    /\ content = [m \in Message |-> "original"]
    /\ lastMessageId = Earlier
    /\ isActive = TRUE
    /\ unreadCount = [u \in User |-> 0]
    /\ isBlocked = {} /\ blocks = {} /\ changes = 0
    /\ pager = NoPager
    /\ req = [r \in Request |-> Idle]
    /\ uncounted = [u \in User |-> 0] /\ early = {} /\ lateEdit = {}

\* A request fails, or its process crashes, between two statements; the
\* transaction of a message is rolled back.
Abort(r) ==
    /\ req[r] # Idle
    /\ Goto(r, Idle)
    /\ UNCHANGED <<administration, messageVars, lastMessageId, countVars, shutVars, changes, pager>>

(***************************************************************************)
(* Sending                                                                 *)
(***************************************************************************)
\* The block that stops u from writing to v is the one v has set.
FaultActiveUserBlock(u, v) == <<u, v>> \in blocks
HasActiveUserBlock(u, v) == <<v, u>> \in blocks

\* The administration cannot be blocked.
CanSendMessageToParticipant(u, v) == v \in administration \/ ~HasActiveUserBlock(u, v)

MaySend(u) == isActive /\ isBlocked = {} /\ CanSendMessageToParticipant(u, Other(u))

Begin(r, u) ==
    /\ req[r] = Idle
    /\ begun < MaxMessages
    /\ begun' = begun + 1
    /\ sender' = [sender EXCEPT ![begun'] = u]
    /\ Goto(r, [pc |-> "sending", message |-> begun'])
    /\ UNCHANGED <<administration, messages, isRead, isDeleted, content, lateEdit,
                   lastMessageId, countVars, changes, pager>>

\* The checks of sendMessage.  Its transaction does not lock what they read.
SendMessage(r, u) == MaySend(u) /\ Begin(r, u) /\ UNCHANGED shutVars

\* sendMessageAsSender, which only the administration's messages come from, asks
\* neither for a block nor whether the conversation is active.
SendMessageAsSender(r) ==
    /\ administration # {}
    /\ Begin(r, Administrator)
    /\ early' = early \union {begun'}
    /\ UNCHANGED <<isActive, isBlocked, blocks>>

\* The counter is incremented in the database, never from a value read before.
FaultReceiver(m) == sender[m]
Receiver(m) == Other(sender[m])

Marking(u) == \E r \in Request : req[r].pc \in {"readRows", "readCount"} /\ req[r].user = u

CommitMessage(r) ==
    LET m == req[r].message
        receiver == Receiver(m) IN
    /\ At(r, "sending")
    /\ messages' = messages \union {m}
    /\ lastMessageId' = m
    /\ unreadCount' = [unreadCount EXCEPT ![receiver] = @ + 1]
    /\ uncounted' = IF Marking(receiver) THEN [uncounted EXCEPT ![receiver] = @ + 1]
                                         ELSE uncounted
    /\ Goto(r, Idle)
    /\ UNCHANGED <<administration, begun, sender, isRead, isDeleted, content, lateEdit,
                   shutVars, changes, pager>>

(***************************************************************************)
(* Reading: the participant, then the rows, then the counter               *)
(***************************************************************************)
MarkMessagesAsRead(r, u, ids) ==
    /\ req[r] = Idle
    /\ ids \subseteq messages
    /\ Goto(r, [pc |-> "readRows", user |-> u, ids |-> ids, unread |-> unreadCount[u]])
    /\ Changing
    /\ UNCHANGED <<administration, messageVars, lastMessageId, countVars, shutVars, pager>>

\* The repository's markAsRead.
MarkAsRead(u, ids) == IF ids = {} THEN Unread(u) ELSE Unread(u) \intersect ids

MarkRows(r) ==
    LET q == req[r]
        rows == MarkAsRead(q.user, q.ids) IN
    /\ At(r, "readRows")
    /\ isRead' = isRead \union rows
    /\ Goto(r, IF q.unread = 0 THEN Idle
               ELSE [pc |-> "readCount", user |-> q.user, all |-> q.ids = {},
                     unread |-> q.unread, count |-> Cardinality(rows)])
    /\ UNCHANGED <<administration, begun, sender, messages, isDeleted, content, lateEdit,
                   lastMessageId, countVars, shutVars, changes, pager>>

FaultNewUnreadCount(all, unread, count) == 0
NewUnreadCount(all, unread, count) == IF all THEN 0 ELSE Max({0, unread - count})

WriteUnreadCount(r) ==
    LET q == req[r] IN
    /\ At(r, "readCount")
    /\ unreadCount' = [unreadCount EXCEPT ![q.user] = NewUnreadCount(q.all, q.unread, q.count)]
    /\ Goto(r, Idle)
    /\ UNCHANGED <<administration, messageVars, lastMessageId, uncounted, shutVars, changes,
                   pager>>

(***************************************************************************)
(* Editing and deleting one's own message: a check, then a write by id     *)
(***************************************************************************)
FaultMayChange(m) == TRUE
MayChange(m) == m \notin isDeleted

Change(r, m, pc) ==
    /\ req[r] = Idle
    /\ m \in messages /\ MayChange(m)
    /\ Goto(r, [pc |-> pc, message |-> m])
    /\ Changing
    /\ UNCHANGED <<administration, messageVars, lastMessageId, countVars, shutVars, pager>>

EditMessage(r, m) == Change(r, m, "editing")
DeleteMessage(r, m) == Change(r, m, "deleting")

\* The history variable records the edits that were overtaken by the deletion.
WriteEdit(r) ==
    LET m == req[r].message IN
    /\ At(r, "editing")
    /\ content' = [content EXCEPT ![m] = "edited"]
    /\ Goto(r, Idle)
    /\ UNCHANGED <<administration, begun, sender, messages, isRead, isDeleted, lateEdit,
                   lastMessageId, countVars, shutVars, changes, pager>>

\* A deleted message keeps its place; its text gives way to a notice.
WriteDeletion(r) ==
    LET m == req[r].message IN
    /\ At(r, "deleting")
    /\ isDeleted' = isDeleted \union {m}
    /\ content' = [content EXCEPT ![m] = "notice"]
    /\ lateEdit' = IF \E q \in Request : req[q] = [pc |-> "editing", message |-> m]
                   THEN lateEdit \union {m} ELSE lateEdit
    /\ Goto(r, Idle)
    /\ UNCHANGED <<administration, begun, sender, messages, isRead, lastMessageId,
                   countVars, shutVars, changes, pager>>

(***************************************************************************)
(* Shutting the conversation                                               *)
(***************************************************************************)
\* What is already under way when the conversation is shut in some way.
Sending == {req[r].message : r \in {q \in Request : At(q, "sending")}}

Shut(columns) ==
    /\ columns
    /\ early' = early \union Sending
    /\ Changing
    /\ UNCHANGED <<administration, messageVars, lastMessageId, countVars, pager, req>>

\* blockUser and unblockUser.
BlockUser(u) ==
    /\ <<u, Other(u)>> \notin blocks
    /\ Shut(blocks' = blocks \union {<<u, Other(u)>>})
    /\ UNCHANGED <<isActive, isBlocked>>

UnblockUser(u) ==
    /\ <<u, Other(u)>> \in blocks
    /\ Shut(blocks' = blocks \ {<<u, Other(u)>>})
    /\ UNCHANGED <<isActive, isBlocked>>

\* updateConversation sets isBlocked of the participant who asks.
SetBlocked(u) ==
    /\ Shut(isBlocked' = IF u \in isBlocked THEN isBlocked \ {u} ELSE isBlocked \union {u})
    /\ UNCHANGED <<isActive, blocks>>

\* The order was delivered, and the job or a message closed the conversation.
Close ==
    /\ isActive
    /\ Shut(isActive' = FALSE)
    /\ UNCHANGED <<isBlocked, blocks>>

(***************************************************************************)
(* Paging back through the history                                         *)
(***************************************************************************)
\* What the where clause of getMessages selects, a cursor being a message.
FaultAtOrBefore(cursor) ==
    {m \in messages \ isDeleted : cursor # 0 => m <= cursor}
Before(cursor) == {m \in messages \ isDeleted : cursor # 0 => m < cursor}

\* The newest n of a set of messages.
Newest(n, set) == {m \in set : Cardinality({k \in set : k > m}) < n}

\* data.reverse() works in place, so that the last element of data, the cursor
\* of the next page, is the newest message of this one.
FaultNextCursor(rows) == Min(rows)
NextCursor(rows) == Max(Newest(PageSize, rows))

\* It takes PageSize + 1 rows to know whether there are more.
GetMessages(cursor) ==
    LET rows == Newest(PageSize + 1, Before(cursor))
        hasMore == Cardinality(rows) > PageSize IN
    [data |-> Newest(PageSize, rows), hasMore |-> hasMore,
     nextCursor |-> IF hasMore THEN NextCursor(rows) ELSE 0]

ReadPage(cursor, start, seen) ==
    LET page == GetMessages(cursor) IN
    /\ pager' = [pc |-> IF page.hasMore THEN "more" ELSE "end", cursor |-> page.nextCursor,
                 start |-> start, seen |-> seen \union page.data]
    /\ UNCHANGED <<administration, messageVars, lastMessageId, countVars, shutVars, changes, req>>

OpenHistory == pager.pc = "closed" /\ ReadPage(0, messages, {})
NextPage == pager.pc = "more" /\ ReadPage(pager.cursor, pager.start, pager.seen)

CloseHistory ==
    /\ pager.pc = "end"
    /\ pager' = NoPager
    /\ UNCHANGED <<administration, messageVars, lastMessageId, countVars, shutVars, changes, req>>

-----------------------------------------------------------------------------
Handle(r) ==
    \/ \E u \in User : SendMessage(r, u)
    \/ SendMessageAsSender(r)
    \/ CommitMessage(r)
    \/ \E u \in User, ids \in Marks : MarkMessagesAsRead(r, u, ids)
    \/ MarkRows(r)
    \/ WriteUnreadCount(r)
    \/ \E m \in Message : EditMessage(r, m) \/ DeleteMessage(r, m)
    \/ WriteEdit(r)
    \/ WriteDeletion(r)
    \/ Abort(r)

Next ==
    \/ \E r \in Request : Handle(r)
    \/ \E u \in User : BlockUser(u) \/ UnblockUser(u) \/ SetBlocked(u)
    \/ Close
    \/ OpenHistory
    \/ NextPage
    \/ CloseHistory

Spec == Init /\ [][Next]_vars

\* A client that scrolls back goes on scrolling.
FairSpec == Spec /\ WF_vars(NextPage)

-----------------------------------------------------------------------------
TypeOK ==
    /\ administration \subseteq User
    /\ begun \in 0..MaxMessages
    /\ sender \in [Message -> User]
    /\ messages \subseteq 1..begun
    /\ isRead \subseteq messages /\ isDeleted \subseteq messages
    /\ content \in [Message -> Contents]
    /\ lastMessageId \in messages \union {0} /\ (lastMessageId = 0 <=> messages = {})
    /\ isActive \in BOOLEAN
    /\ unreadCount \in [User -> 0..MaxMessages]
    /\ \A u \in User : unreadCount[u] <= Cardinality(From(Other(u)))
    /\ isBlocked \subseteq User /\ blocks \subseteq User \X User
    /\ pager.start \union pager.seen \subseteq messages
    /\ pager.pc = "more" => pager.cursor \in messages
    /\ req \in [Request -> RequestState]

\* The badge never hides a message: unreadCount covers the unread messages from
\* the other side, except for as many as came in while their receiver was
\* marking messages as read (markMessagesAsRead writes back a count it read
\* before).  Deleted messages may stay counted.
UnreadCovered ==
    \A u \in User : Cardinality(Unread(u)) <= unreadCount[u] + uncounted[u]

\* Once a user has been blocked, or the conversation closed, no message lands
\* but those whose checks were over by then and those of the administration.
ShutMeansShut ==
    [][\A m \in messages' \ messages :
           LET u == sender[m] IN
           m \notin early =>
               /\ isActive /\ isBlocked = {}
               /\ <<Other(u), u>> \in blocks => Other(u) \in administration]_vars

\* The text of a deleted message is gone for good, whatever edits came before
\* or come after it, unless one was between its check and its write.
DeletedTextIsGone == \A m \in isDeleted \ lateEdit : content[m] = "notice"

\* Whoever pages to the end has seen every message that was there when they
\* opened the history, apart from those deleted since.
HistoryComplete == pager.start \ isDeleted \subseteq pager.seen

\* getMessages pages a whole history: a client that goes on asking comes to the
\* end, though a page may move the cursor by as little as one message, and then
\* no message fell between two pages, whatever was sent or deleted meanwhile.
HistoryIsPaged == pager.pc # "closed" ~> (pager.pc = "end" /\ HistoryComplete)
=============================================================================
