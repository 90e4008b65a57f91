------------------------------ MODULE ChatProofs -------------------------------
(***************************************************************************)
(* Proofs about Chat, for any number of messages, changes and requests in  *)
(* flight, and any page size.                                              *)
(*                                                                         *)
(* No handler of conversation.service.ts holds a lock between its checks   *)
(* and its writes.  What makes the results hold is what a request between  *)
(* two statements still knows: Sound.                                      *)
(***************************************************************************)
EXTENDS Chat, FiniteSetTheorems, WellFoundedInduction, TLAPS

\* A message under way was begun and not committed, no other request carries
\* it, and nothing has shut the conversation since its checks, unless the
\* history variable marks it.
SendsSoundly(r) ==
    At(r, "sending") =>
        /\ req[r].message \in 1..begun
        /\ req[r].message \notin messages
        /\ req[r].message \notin early => MaySend(sender[req[r].message])
        /\ \A s \in Request :
              At(s, "sending") /\ req[s].message = req[r].message => s = r

\* An edit is of a message that is there; if it was deleted meanwhile, it is marked.
ChangesSoundly(r) ==
    /\ At(r, "editing") \/ At(r, "deleting") => req[r].message \in messages
    /\ At(r, "editing") /\ req[r].message \in isDeleted => req[r].message \in lateEdit

\* The count a marking request read was not above the messages there are, and
\* what it will write covers the rows it left unread, and those that came since.
MarksSoundly(r) ==
    /\ At(r, "readRows") \/ At(r, "readCount") =>
          req[r].unread <= Cardinality(From(Other(req[r].user)))
    /\ At(r, "readRows") =>
          Cardinality(Unread(req[r].user)) <= req[r].unread + uncounted[req[r].user]
    /\ At(r, "readCount") =>
          Cardinality(Unread(req[r].user)) <=
              (IF req[r].all THEN 0 ELSE req[r].unread - req[r].count)
              + uncounted[req[r].user]

CountsAreCounts == uncounted \in [User -> Nat]

IInv ==
    /\ TypeOK /\ CountsAreCounts /\ UnreadCovered /\ DeletedTextIsGone
    /\ \A r \in Request : SendsSoundly(r) /\ ChangesSoundly(r) /\ MarksSoundly(r)

\* What no step does to the rows there are: lose one, change its sender, undo
\* a deletion or a mark.
RowsStep ==
    /\ begun <= begun' /\ begun' <= MaxMessages /\ begun' \in Nat
    /\ sender' \in [Message -> User]
    /\ \A m \in 1..begun : sender'[m] = sender[m]
    /\ messages \subseteq messages' /\ messages' \subseteq 1..begun'
    /\ isDeleted \subseteq isDeleted' /\ isDeleted' \subseteq messages'
    /\ isRead \subseteq isRead' /\ isRead' \subseteq messages'
    /\ lateEdit \subseteq lateEdit' /\ early \subseteq early'

\* The steps of Next, those that matter alike taken together.
Begins(r, u) ==
    /\ Begin(r, u)
    /\ UNCHANGED <<isActive, isBlocked, blocks>>
    /\ \/ early' = early /\ MaySend(u)
       \/ early' = early \union {begun'}

Shuts ==
    /\ early' = early \union Sending
    /\ isActive' \in BOOLEAN /\ isBlocked' \subseteq User /\ blocks' \subseteq User \X User
    /\ UNCHANGED <<administration, messageVars, lastMessageId, countVars, pager, req>>

Pages ==
    /\ pager' = NoPager \/ \E start \in {messages, pager.start}, seen \in {{}, pager.seen},
                              cursor \in {0} \union messages :
                           /\ start \union seen \subseteq messages
                           /\ ReadPage(cursor, start, seen)
    /\ UNCHANGED <<administration, messageVars, lastMessageId, countVars, shutVars, changes, req>>

-----------------------------------------------------------------------------
(***************************************************************************)
(* Users, messages and counts.                                             *)
(***************************************************************************)
LEMMA OtherIsOther ==
    \A u \in User : Other(u) \in User /\ Other(u) # u /\ Other(Other(u)) = u
<1> SUFFICES ASSUME NEW u \in User
             PROVE  Other(u) \in User /\ Other(u) # u /\ Other(Other(u)) = u
  OBVIOUS
<1>1. IsFiniteSet(User \ {u}) /\ Cardinality(User \ {u}) = 1
  BY ChatAssumption, FS_RemoveElement
<1>2. PICK v : User \ {u} = {v}
  BY <1>1, FS_Singleton
<1>3. v \in User /\ v # u /\ User = {u, v}
  BY <1>2
<1>4. Other(u) = v
  BY <1>3 DEF Other
<1>5. Other(v) = u
  BY <1>3 DEF Other
<1> QED
  BY <1>3, <1>4, <1>5

LEMMA Facts ==
    ASSUME TypeOK
    PROVE  /\ begun \in Nat /\ begun <= MaxMessages /\ 1..begun \subseteq Message
           /\ messages \subseteq Message /\ messages \subseteq Nat \ {0}
           /\ MaxMessages \in Nat /\ Administrator \in User
           /\ \A m \in Message : sender[m] \in User
<1>1. MaxMessages \in Nat /\ Administrator \in User
  BY ChatAssumption
<1>2. begun \in Nat /\ begun <= MaxMessages
  BY <1>1 DEF TypeOK
<1> QED
  BY <1>1, <1>2 DEF TypeOK, Message

LEMMA SetsOfMessages ==
    ASSUME NEW n \in Nat, NEW S \in SUBSET (1..n)
    PROVE  IsFiniteSet(S) /\ Cardinality(S) \in Nat /\ Cardinality(S) <= n
<1>1. IsFiniteSet(1..n) /\ Cardinality(1..n) = n
  BY FS_Interval
<1> QED
  BY <1>1, FS_Subset, FS_CardinalityType

LEMMA Growing ==
    ASSUME NEW n \in Nat, NEW S \in SUBSET (1..n), NEW T \in SUBSET S
    PROVE  Cardinality(T) <= Cardinality(S)
  BY SetsOfMessages, FS_Subset

LEMMA StateAt ==
    ASSUME NEW s \in RequestState
    PROVE  /\ s.pc \in {"sending", "editing", "deleting"} => s.message \in Message
           /\ s.pc = "readRows" => s.user \in User /\ s.ids \in Marks /\ s.unread \in 0..MaxMessages
           /\ s.pc = "readCount" => /\ s.user \in User /\ s.all \in BOOLEAN
                                    /\ s.unread \in 0..MaxMessages /\ s.count \in 0..MaxMessages
  BY DEF RequestState, Idle

LEMMA IdleState == Idle \in RequestState /\ Idle.pc = "idle"
  BY DEF Idle, RequestState

LEMMA MaxIsMember ==
    ASSUME NEW n \in Nat, NEW S \in SUBSET (1..n), S # {}
    PROVE  Max(S) \in S /\ \A k \in S : k <= Max(S)
<1> DEFINE T == {n - x : x \in S}
<1>1. T \subseteq Nat /\ T # {}
  <2>1. \A x \in S : x \in Nat /\ x <= n /\ n - x \in Nat
    OBVIOUS
  <2> QED
    BY <2>1
<1> HIDE DEF T
<1>2. PICK t \in T : \A s \in T : <<s, t>> \notin OpToRel(<, Nat)
  BY <1>1, WFMin, NatLessThanWellFounded
<1>3. \A s \in T : ~(s < t)
  BY <1>1, <1>2 DEF OpToRel
<1>4. PICK m \in S : t = n - m
  BY DEF T
<1>5. \A x \in S : m >= x
  <2> TAKE x \in S
  <2>1. n - x \in T /\ n - x \in Nat /\ t \in Nat
    BY <1>1 DEF T
  <2>2. ~(n - x < t)
    BY <1>3, <2>1
  <2> QED
    BY <1>4, <2>2
<1>6. Max(S) \in S /\ \A k \in S : Max(S) >= k
  BY <1>5 DEF Max
<1> QED
  BY <1>6

LEMMA MaxOfTwo ==
    ASSUME NEW a \in Int, NEW b \in Int
    PROVE  Max({a, b}) \in {a, b} /\ Max({a, b}) >= a /\ Max({a, b}) >= b
<1>1. \E x \in {a, b} : \A y \in {a, b} : x >= y
  <2>1. CASE a >= b
    BY <2>1
  <2>2. CASE ~(a >= b)
    BY <2>2
  <2> QED
    BY <2>1, <2>2
<1> QED
  BY <1>1 DEF Max

\* A page has the newest message of what is left, so that there is a cursor when
\* more than a page is left.
LEMMA NewestIsThere ==
    ASSUME NEW n \in Nat, NEW S \in SUBSET (1..n), S # {}, NEW k \in Nat \ {0}
    PROVE  Newest(k, S) # {} /\ Newest(k, S) \subseteq S
<1>1. PICK m \in S : \A j \in S : j <= m
  BY MaxIsMember
<1>2. \A j \in S : ~(j > m)
  BY <1>1
<1>3. {j \in S : j > m} = {}
  BY <1>2
<1>4. Cardinality({j \in S : j > m}) < k
  BY <1>3, FS_EmptySet
<1> QED
  BY <1>1, <1>4 DEF Newest

LEMMA PageFacts ==
    ASSUME TypeOK, NEW cursor \in {0} \union messages
    PROVE  /\ GetMessages(cursor).data \subseteq messages
           /\ GetMessages(cursor).hasMore => GetMessages(cursor).nextCursor \in messages
<1> DEFINE rows == Newest(PageSize + 1, Before(cursor))
<1>1. rows \subseteq messages
  BY DEF Newest, Before
<1>2. PageSize \in Nat \ {0} /\ begun \in Nat /\ messages \subseteq 1..begun
  BY ChatAssumption, Facts DEF TypeOK
<1>3. Newest(PageSize, rows) \subseteq rows
  BY DEF Newest
<1> HIDE DEF rows
<1>4. ASSUME Cardinality(rows) > PageSize PROVE NextCursor(rows) \in messages
  <2>1. rows \in SUBSET (1..begun) /\ rows # {}
    BY <1>1, <1>2, <1>4, FS_EmptySet
  <2>2. Newest(PageSize, rows) # {} /\ Newest(PageSize, rows) \in SUBSET (1..begun)
    BY <1>2, <1>3, <2>1, NewestIsThere
  <2>3. Max(Newest(PageSize, rows)) \in Newest(PageSize, rows)
    BY <1>2, <2>2, MaxIsMember
  <2> QED
    BY <1>1, <1>3, <2>3 DEF NextCursor
<1> QED
  BY <1>1, <1>3, <1>4 DEF GetMessages, rows

-----------------------------------------------------------------------------
(***************************************************************************)
(* The steps.                                                              *)
(***************************************************************************)
LEMMA Steps ==
    ASSUME TypeOK, [Next]_vars
    PROVE  \/ \E r \in Request :
                 \/ \E u \in User : Begins(r, u)
                 \/ CommitMessage(r)
                 \/ \E u \in User, ids \in Marks : MarkMessagesAsRead(r, u, ids)
                 \/ MarkRows(r)
                 \/ WriteUnreadCount(r)
                 \/ \E m \in Message : EditMessage(r, m) \/ DeleteMessage(r, m)
                 \/ WriteEdit(r)
                 \/ WriteDeletion(r)
                 \/ Abort(r)
           \/ Shuts
           \/ Pages
           \/ UNCHANGED vars
<1>1. Administrator \in User
  BY Facts
<1>2. ASSUME NEW r \in Request, Handle(r)
      PROVE  \/ \E u \in User : Begins(r, u)
             \/ CommitMessage(r)
             \/ \E u \in User, ids \in Marks : MarkMessagesAsRead(r, u, ids)
             \/ MarkRows(r)
             \/ WriteUnreadCount(r)
             \/ \E m \in Message : EditMessage(r, m) \/ DeleteMessage(r, m)
             \/ WriteEdit(r)
             \/ WriteDeletion(r)
             \/ Abort(r)
  <2>1. ASSUME NEW u \in User, SendMessage(r, u) PROVE Begins(r, u)
    BY <2>1 DEF SendMessage, Begins, shutVars
  <2>2. ASSUME SendMessageAsSender(r) PROVE Begins(r, Administrator)
    BY <2>2 DEF SendMessageAsSender, Begins
  <2> QED
    BY <1>1, <1>2, <2>1, <2>2 DEF Handle
<1>3. ASSUME NEW u \in User, BlockUser(u) \/ UnblockUser(u) \/ SetBlocked(u)
      PROVE  Shuts
  <2>1. <<u, Other(u)>> \in User \X User
    BY OtherIsOther
  <2>2. isActive \in BOOLEAN /\ isBlocked \subseteq User /\ blocks \subseteq User \X User
    BY DEF TypeOK
  <2>3. CASE BlockUser(u)
    BY <2>1, <2>2, <2>3 DEF BlockUser, Shut, Shuts
  <2>4. CASE UnblockUser(u)
    BY <2>1, <2>2, <2>4 DEF UnblockUser, Shut, Shuts
  <2>5. CASE SetBlocked(u)
    <3>1. isBlocked' \subseteq User
      BY <2>2, <2>5 DEF SetBlocked, Shut
    <3> QED
      BY <2>2, <2>5, <3>1 DEF SetBlocked, Shut, Shuts
  <2> QED
    BY <1>3, <2>3, <2>4, <2>5
<1>4. ASSUME Close PROVE Shuts
  <2>1. isBlocked \subseteq User /\ blocks \subseteq User \X User
    BY DEF TypeOK
  <2> QED
    BY <1>4, <2>1 DEF Close, Shut, Shuts
<1>5. ASSUME OpenHistory \/ NextPage \/ CloseHistory PROVE Pages
  <2>1. pager.start \union pager.seen \subseteq messages
    BY DEF TypeOK
  <2>2. CASE OpenHistory
    BY <2>2 DEF OpenHistory, ReadPage, Pages
  <2>3. CASE NextPage
    <3>1. pager.cursor \in messages /\ ReadPage(pager.cursor, pager.start, pager.seen)
      BY <2>3 DEF NextPage, TypeOK
    <3> QED
      BY <2>1, <3>1 DEF ReadPage, Pages
  <2>4. CASE CloseHistory
    BY <2>4 DEF CloseHistory, Pages
  <2> QED
    BY <1>5, <2>2, <2>3, <2>4
<1> QED
  BY <1>2, <1>3, <1>4, <1>5 DEF Next

\* The invariant of the rows.
LEMMA NextRows ==
    ASSUME IInv, [Next]_vars
    PROVE  RowsStep
<1>1. TypeOK /\ \A r \in Request : SendsSoundly(r) /\ ChangesSoundly(r)
  BY DEF IInv
<1>2. /\ begun \in Nat /\ begun <= MaxMessages /\ sender \in [Message -> User]
      /\ messages \subseteq 1..begun /\ isRead \subseteq messages /\ isDeleted \subseteq messages
      /\ MaxMessages \in Nat /\ Message = 1..MaxMessages
  BY <1>1, Facts DEF TypeOK, Message
<1>3. ASSUME NEW r \in Request, NEW u \in User, Begins(r, u)
      PROVE  RowsStep
  BY <1>2, <1>3 DEF Begins, Begin, RowsStep
<1>4. ASSUME NEW r \in Request, CommitMessage(r)
      PROVE  RowsStep
  <2>1. req[r].message \in 1..begun
    BY <1>1, <1>4 DEF CommitMessage, SendsSoundly
  <2>2. /\ UNCHANGED <<begun, sender, isRead, isDeleted, lateEdit, early>>
        /\ messages' = messages \union {req[r].message}
    BY <1>4 DEF CommitMessage, shutVars
  <2>3. messages \subseteq messages' /\ messages' \subseteq 1..begun
    BY <1>2, <2>1, <2>2
  <2> QED
    BY <1>2, <2>1, <2>2, <2>3 DEF RowsStep
<1>5. ASSUME NEW r \in Request, MarkRows(r)
      PROVE  RowsStep
  <2>1. MarkAsRead(req[r].user, req[r].ids) \subseteq messages
    BY DEF MarkAsRead, Unread, From
  <2>2. /\ UNCHANGED <<begun, sender, messages, isDeleted, lateEdit, early>>
        /\ isRead' = isRead \union MarkAsRead(req[r].user, req[r].ids)
    BY <1>5 DEF MarkRows, shutVars
  <2>3. isRead \subseteq isRead' /\ isRead' \subseteq messages
    BY <1>2, <2>1, <2>2
  <2> QED
    BY <1>2, <2>1, <2>2, <2>3 DEF RowsStep
<1>6. ASSUME NEW r \in Request, WriteDeletion(r)
      PROVE  RowsStep
  <2>1. req[r].message \in messages
    BY <1>1, <1>6 DEF WriteDeletion, ChangesSoundly
  <2>2. /\ UNCHANGED <<begun, sender, messages, isRead, early>>
        /\ isDeleted' = isDeleted \union {req[r].message}
        /\ lateEdit \subseteq lateEdit'
    BY <1>6 DEF WriteDeletion, shutVars
  <2>3. isDeleted \subseteq isDeleted' /\ isDeleted' \subseteq messages
    BY <1>2, <2>1, <2>2
  <2> QED
    BY <1>2, <2>1, <2>2, <2>3 DEF RowsStep
<1>7. ASSUME UNCHANGED <<begun, sender, messages, isRead, isDeleted, lateEdit>>,
             early \subseteq early'
      PROVE  RowsStep
  BY <1>2, <1>7 DEF RowsStep
<1>8. ASSUME NEW r \in Request, WriteEdit(r) \/ WriteUnreadCount(r) \/ Abort(r)
      PROVE  RowsStep
  BY <1>7, <1>8 DEF WriteEdit, WriteUnreadCount, Abort, shutVars, messageVars
<1>9. ASSUME NEW r \in Request, NEW u \in User, NEW ids \in Marks, MarkMessagesAsRead(r, u, ids)
      PROVE  RowsStep
  BY <1>7, <1>9 DEF MarkMessagesAsRead, shutVars, messageVars
<1>10. ASSUME NEW r \in Request, NEW m \in Message, EditMessage(r, m) \/ DeleteMessage(r, m)
       PROVE  RowsStep
  BY <1>7, <1>10 DEF EditMessage, DeleteMessage, Change, shutVars, messageVars
<1>11. CASE Shuts
  BY <1>7, <1>11 DEF Shuts, messageVars
<1>12. CASE Pages
  BY <1>7, <1>12 DEF Pages, shutVars, messageVars
<1>13. CASE UNCHANGED vars
  BY <1>7, <1>13 DEF vars, shutVars, messageVars
<1> QED
  BY <1>1, <1>3, <1>4, <1>5, <1>6, <1>8, <1>9, <1>10, <1>11, <1>12, <1>13, Steps

LEMMA GotoFacts ==
    ASSUME TypeOK, NEW r \in Request, NEW state \in RequestState, Goto(r, state)
    PROVE  /\ req' \in [Request -> RequestState]
           /\ req'[r] = state
           /\ \A s \in Request \ {r} : req'[s] = req[s]
  BY DEF TypeOK, Goto

\* What happens to a request in one step.
LEMMA NextRequest ==
    ASSUME IInv, [Next]_vars
    PROVE  /\ req' \in [Request -> RequestState]
           /\ \A s \in Request :
                 \/ req'[s] = req[s]
                 \/ req'[s] = Idle
                 \/ \E u \in User : Begins(s, u) /\ req'[s] = [pc |-> "sending", message |-> begun']
                 \/ \E u \in User, ids \in Marks :
                       /\ MarkMessagesAsRead(s, u, ids)
                       /\ req'[s] = [pc |-> "readRows", user |-> u, ids |-> ids,
                                     unread |-> unreadCount[u]]
                 \/ /\ MarkRows(s)
                    /\ req'[s] = [pc |-> "readCount", user |-> req[s].user,
                                  all |-> req[s].ids = {}, unread |-> req[s].unread,
                                  count |-> Cardinality(MarkAsRead(req[s].user, req[s].ids))]
                 \/ \E m \in Message, pc \in {"editing", "deleting"} :
                       Change(s, m, pc) /\ req'[s] = [pc |-> pc, message |-> m]
<1> DEFINE P(s) ==
        \/ req'[s] = req[s]
        \/ req'[s] = Idle
        \/ \E u \in User : Begins(s, u) /\ req'[s] = [pc |-> "sending", message |-> begun']
        \/ \E u \in User, ids \in Marks :
              /\ MarkMessagesAsRead(s, u, ids)
              /\ req'[s] = [pc |-> "readRows", user |-> u, ids |-> ids,
                            unread |-> unreadCount[u]]
        \/ /\ MarkRows(s)
           /\ req'[s] = [pc |-> "readCount", user |-> req[s].user,
                         all |-> req[s].ids = {}, unread |-> req[s].unread,
                         count |-> Cardinality(MarkAsRead(req[s].user, req[s].ids))]
        \/ \E m \in Message, pc \in {"editing", "deleting"} :
              Change(s, m, pc) /\ req'[s] = [pc |-> pc, message |-> m]
       Goal == req' \in [Request -> RequestState] /\ \A s \in Request : P(s)
<1>1. TypeOK /\ req \in [Request -> RequestState]
  BY DEF IInv, TypeOK
<1>2. ASSUME NEW r \in Request, NEW state \in RequestState, Goto(r, state), req'[r] = state => P(r)
      PROVE  Goal
  <2>1. req' \in [Request -> RequestState]
    BY <1>1, <1>2, GotoFacts
  <2>2. ASSUME NEW s \in Request, s # r PROVE req'[s] = req[s]
    BY <1>1, <1>2, <2>2, GotoFacts
  <2>3. P(r)
    BY <1>1, <1>2, GotoFacts
  <2> QED
    BY <2>1, <2>2, <2>3
<1>3. ASSUME req' = req PROVE Goal
  BY <1>1, <1>3
<1>4. ASSUME NEW r \in Request, NEW u \in User, Begins(r, u) PROVE Goal
  <2>1. PICK state : state = [pc |-> "sending", message |-> begun']
    OBVIOUS
  <2>2. begun' \in Message
    BY <1>1, <1>4, Facts DEF Begins, Begin, Message
  <2>3. state \in RequestState
    BY <2>1, <2>2 DEF RequestState
  <2>4. Goto(r, state)
    BY <1>4, <2>1 DEF Begins, Begin
  <2>5. req'[r] = state => P(r)
    BY <1>4, <2>1
  <2> QED
    BY <2>3, <2>4, <2>5, <1>2
<1>5. ASSUME NEW r \in Request, NEW u \in User, NEW ids \in Marks, MarkMessagesAsRead(r, u, ids)
      PROVE  Goal
  <2> DEFINE state == [pc |-> "readRows", user |-> u, ids |-> ids, unread |-> unreadCount[u]]
  <2>1. state \in RequestState
    <3>1. unreadCount[u] \in 0..MaxMessages
      BY <1>1 DEF TypeOK
    <3> QED
      BY <3>1 DEF RequestState
  <2>2. Goto(r, state)
    BY <1>5 DEF MarkMessagesAsRead
  <2>3. req'[r] = state => P(r)
    BY <1>5
  <2> HIDE DEF state
  <2> QED
    BY <2>1, <2>2, <2>3, <1>2
<1>6. ASSUME NEW r \in Request, MarkRows(r) PROVE Goal
  <2> DEFINE rows == MarkAsRead(req[r].user, req[r].ids)
             state == [pc |-> "readCount", user |-> req[r].user, all |-> req[r].ids = {},
                       unread |-> req[r].unread, count |-> Cardinality(rows)]
  <2>1. state \in RequestState
    <3>1. req[r].user \in User /\ req[r].unread \in 0..MaxMessages
      BY <1>1, <1>6, StateAt DEF MarkRows, At
    <3>2. rows \in SUBSET (1..begun) /\ begun \in Nat /\ begun <= MaxMessages
      BY <1>1, Facts DEF MarkAsRead, Unread, From, TypeOK
    <3>3. Cardinality(rows) \in 0..MaxMessages
      BY <3>2, SetsOfMessages, <1>1, Facts
    <3> HIDE DEF rows
    <3> QED
      BY <3>1, <3>3 DEF RequestState
  <2>2. Goto(r, IF req[r].unread = 0 THEN Idle ELSE state)
    BY <1>6 DEF MarkRows
  <2>3. req'[r] = state => P(r)
    BY <1>6
  <2>4. req'[r] = Idle => P(r)
    OBVIOUS
  <2> HIDE DEF state
  <2> QED
    BY <2>1, <2>2, <2>3, <2>4, <1>2, IdleState
<1>7. ASSUME NEW r \in Request, NEW m \in Message, EditMessage(r, m) \/ DeleteMessage(r, m)
      PROVE  Goal
  <2>1. PICK pc \in {"editing", "deleting"} : Change(r, m, pc)
    BY <1>7 DEF EditMessage, DeleteMessage
  <2> DEFINE state == [pc |-> pc, message |-> m]
  <2>2. state \in RequestState
    BY DEF RequestState
  <2>3. Goto(r, state)
    BY <2>1 DEF Change
  <2>4. req'[r] = state => P(r)
    BY <2>1
  <2> HIDE DEF state
  <2> QED
    BY <2>2, <2>3, <2>4, <1>2
<1>8. ASSUME NEW r \in Request,
             CommitMessage(r) \/ WriteUnreadCount(r) \/ WriteEdit(r) \/ WriteDeletion(r) \/ Abort(r)
      PROVE  Goal
  <2>1. Goto(r, Idle)
    BY <1>8 DEF CommitMessage, WriteUnreadCount, WriteEdit, WriteDeletion, Abort
  <2> QED
    BY <2>1, <1>2, IdleState
<1>9. ASSUME Shuts \/ Pages \/ UNCHANGED vars PROVE Goal
  <2>1. req' = req
    BY <1>9 DEF Shuts, Pages, ReadPage, vars
  <2> QED
    BY <2>1, <1>3
<1> HIDE DEF Goal
<1>10. Goal
  BY <1>1, <1>4, <1>5, <1>6, <1>7, <1>8, <1>9, Steps
<1> QED
  BY <1>10 DEF Goal

LEMMA NextByPc ==
    ASSUME IInv, [Next]_vars, NEW s \in Request, req'[s] # req[s]
    PROVE  /\ At(s, "sending")' => \E u \in User : Begins(s, u)
           /\ At(s, "readRows")' =>
                 \E u \in User, ids \in Marks :
                    /\ MarkMessagesAsRead(s, u, ids)
                    /\ req'[s] = [pc |-> "readRows", user |-> u, ids |-> ids,
                                  unread |-> unreadCount[u]]
           /\ At(s, "readCount")' =>
                 /\ MarkRows(s)
                 /\ req'[s] = [pc |-> "readCount", user |-> req[s].user,
                               all |-> req[s].ids = {}, unread |-> req[s].unread,
                               count |-> Cardinality(MarkAsRead(req[s].user, req[s].ids))]
           /\ At(s, "editing")' =>
                 \E m \in Message : Change(s, m, "editing") /\ req'[s] = [pc |-> "editing", message |-> m]
           /\ At(s, "deleting")' =>
                 \E m \in Message : Change(s, m, "deleting") /\ req'[s] = [pc |-> "deleting", message |-> m]
<1> USE DEF At
<1>1. CASE req'[s] = Idle
  BY <1>1, IdleState
<1>2. CASE \E u \in User : Begins(s, u) /\ req'[s] = [pc |-> "sending", message |-> begun']
  <2>1. req'[s].pc = "sending"
    BY <1>2
  <2> QED
    BY <1>2, <2>1
<1>3. CASE \E u \in User, ids \in Marks :
              /\ MarkMessagesAsRead(s, u, ids)
              /\ req'[s] = [pc |-> "readRows", user |-> u, ids |-> ids, unread |-> unreadCount[u]]
  <2>1. req'[s].pc = "readRows"
    BY <1>3
  <2> QED
    BY <1>3, <2>1
<1>4. CASE /\ MarkRows(s)
           /\ req'[s] = [pc |-> "readCount", user |-> req[s].user,
                         all |-> req[s].ids = {}, unread |-> req[s].unread,
                         count |-> Cardinality(MarkAsRead(req[s].user, req[s].ids))]
  <2>1. req'[s].pc = "readCount"
    BY <1>4
  <2> QED
    BY <1>4, <2>1
<1>5. CASE \E m \in Message, pc \in {"editing", "deleting"} :
              Change(s, m, pc) /\ req'[s] = [pc |-> pc, message |-> m]
  <2>1. PICK m \in Message, pc \in {"editing", "deleting"} :
           Change(s, m, pc) /\ req'[s] = [pc |-> pc, message |-> m]
    BY <1>5
  <2>2. req'[s].pc = pc
    BY <2>1
  <2> QED
    BY <2>1, <2>2
<1> QED
  BY <1>1, <1>2, <1>3, <1>4, <1>5, NextRequest

-----------------------------------------------------------------------------
(***************************************************************************)
(* Counting the messages of a user.                                        *)
(***************************************************************************)
LEMMA CountFacts ==
    ASSUME TypeOK, NEW u \in User
    PROVE  /\ From(u) \in SUBSET (1..begun) /\ Unread(u) \in SUBSET (1..begun)
           /\ IsFiniteSet(From(u)) /\ IsFiniteSet(Unread(u))
           /\ Cardinality(From(u)) \in Nat /\ Cardinality(Unread(u)) \in Nat
           /\ Cardinality(From(u)) <= MaxMessages
<1>1. From(u) \in SUBSET (1..begun) /\ Unread(u) \in SUBSET (1..begun)
  BY DEF From, Unread, TypeOK
<1>2. begun \in Nat /\ begun <= MaxMessages /\ MaxMessages \in Nat
  BY Facts
<1> QED
  BY <1>1, <1>2, SetsOfMessages

\* Messages are never lost, and keep their senders.
LEMMA FromGrows ==
    ASSUME TypeOK, RowsStep, NEW u \in User
    PROVE  /\ From(u) \subseteq From(u)'
           /\ Cardinality(From(u)) <= Cardinality(From(u)')
           /\ Cardinality(From(u)') \in 0..MaxMessages
<1>1. \A m \in messages : sender'[m] = sender[m]
  BY DEF RowsStep, TypeOK
<1>2. From(u) \subseteq From(u)'
  BY <1>1 DEF RowsStep, From
<1>3. PICK n, S : n \in Nat /\ n <= MaxMessages /\ S \in SUBSET (1..n) /\ S = From(u)'
  <2>1. From(u)' \in SUBSET (1..begun') /\ begun' \in Nat /\ begun' <= MaxMessages
    BY DEF From, RowsStep
  <2> QED
    BY <2>1
<1>4. Cardinality(From(u)) <= Cardinality(S)
  BY <1>2, <1>3, Growing
<1>5. Cardinality(S) \in Nat /\ Cardinality(S) <= n
  BY <1>3, SetsOfMessages
<1>6. Cardinality(S) \in 0..MaxMessages
  BY <1>3, <1>5, Facts
<1> QED
  BY <1>2, <1>3, <1>4, <1>6

\* A committed message stays read, or deleted.
LEMMA UnreadShrinks ==
    ASSUME TypeOK, RowsStep, messages' = messages, NEW u \in User
    PROVE  /\ Unread(u)' \subseteq Unread(u)
           /\ Cardinality(Unread(u)') <= Cardinality(Unread(u))
           /\ Cardinality(Unread(u)') \in Nat
<1>1. \A m \in messages : sender'[m] = sender[m]
  BY DEF RowsStep, TypeOK
<1>2. Unread(u)' \subseteq Unread(u)
  BY <1>1 DEF RowsStep, Unread, From
<1>3. Unread(u) \in SUBSET (1..begun) /\ begun \in Nat
  BY CountFacts, Facts
<1> QED
  BY <1>2, <1>3, Growing, SetsOfMessages

\* A message that commits is one more of its sender's, and unread.
LEMMA CommitCounts ==
    ASSUME IInv, NEW r \in Request, CommitMessage(r), NEW u \in User
    PROVE  LET one == IF u = Receiver(req[r].message) THEN 1 ELSE 0 IN
           /\ Cardinality(From(Other(u))') = Cardinality(From(Other(u))) + one
           /\ Cardinality(Unread(u)') = Cardinality(Unread(u)) + one
<1> DEFINE m == req[r].message
<1>1. TypeOK /\ m \in 1..begun /\ m \notin messages /\ m \notin isRead /\ m \notin isDeleted
  BY DEF IInv, SendsSoundly, CommitMessage, TypeOK
<1>2. m \in Message /\ sender[m] \in User /\ Other(u) \in User
  BY <1>1, Facts, OtherIsOther
<1>3. messages' = messages \union {m} /\ UNCHANGED <<sender, isRead, isDeleted>>
  BY DEF CommitMessage
<1> HIDE DEF m
<1>4. CASE u = Receiver(m)
  <2>1. sender[m] = Other(u)
    BY <1>2, <1>4, OtherIsOther DEF Receiver
  <2>2. From(Other(u))' = From(Other(u)) \union {m} /\ m \notin From(Other(u))
    BY <1>1, <1>3, <2>1 DEF From
  <2>3. Unread(u)' = Unread(u) \union {m} /\ m \notin Unread(u)
    BY <1>1, <1>3, <2>2 DEF Unread
  <2>4. IsFiniteSet(From(Other(u))) /\ IsFiniteSet(Unread(u))
    BY <1>1, <1>2, CountFacts
  <2>5. Cardinality(From(Other(u)))' = Cardinality(From(Other(u))) + 1
    BY <2>2, <2>4, FS_AddElement
  <2>6. Cardinality(Unread(u)') = Cardinality(Unread(u)) + 1
    BY <2>3, <2>4, FS_AddElement
  <2> QED
    BY <1>4, <2>5, <2>6 DEF m
<1>5. CASE u # Receiver(m)
  <2>1. sender[m] # Other(u)
    BY <1>2, <1>5, OtherIsOther DEF Receiver
  <2>2. From(Other(u))' = From(Other(u))
    BY <1>3, <2>1 DEF From
  <2>3. Unread(u)' = Unread(u)
    BY <1>3, <2>2 DEF Unread
  <2>4. Cardinality(From(Other(u))) \in Nat /\ Cardinality(Unread(u)) \in Nat
    BY <1>1, <1>2, CountFacts
  <2> QED
    BY <1>5, <2>2, <2>3, <2>4 DEF m
<1> QED
  BY <1>4, <1>5

-----------------------------------------------------------------------------
(***************************************************************************)
(* What requests know stays true.                                          *)
(***************************************************************************)
\* Messages begin in one kind of step, commit in another; only a third shuts
\* the conversation.
LEMMA Begun ==
    ASSUME IInv, [Next]_vars
    PROVE  \/ \E r \in Request, u \in User : Begins(r, u)
           \/ /\ UNCHANGED <<begun, sender>>
              /\ \A s \in Request : At(s, "sending")' => req'[s] = req[s]
<1>1. TypeOK
  BY DEF IInv
<1>2. \/ \E r \in Request, u \in User : Begins(r, u)
      \/ UNCHANGED <<begun, sender>>
  <2>1. ASSUME NEW r \in Request,
               \/ CommitMessage(r) \/ MarkRows(r) \/ WriteUnreadCount(r) \/ WriteEdit(r)
               \/ WriteDeletion(r) \/ Abort(r)
        PROVE  UNCHANGED <<begun, sender>>
    BY <2>1 DEF CommitMessage, MarkRows, WriteUnreadCount, WriteEdit, WriteDeletion, Abort,
                messageVars
  <2>2. ASSUME NEW r \in Request, NEW u \in User, NEW ids \in Marks, MarkMessagesAsRead(r, u, ids)
        PROVE  UNCHANGED <<begun, sender>>
    BY <2>2 DEF MarkMessagesAsRead, messageVars
  <2>3. ASSUME NEW r \in Request, NEW m \in Message, EditMessage(r, m) \/ DeleteMessage(r, m)
        PROVE  UNCHANGED <<begun, sender>>
    BY <2>3 DEF EditMessage, DeleteMessage, Change, messageVars
  <2>4. ASSUME Shuts \/ Pages \/ UNCHANGED vars PROVE UNCHANGED <<begun, sender>>
    BY <2>4 DEF Shuts, Pages, vars, messageVars
  <2> QED
    BY <1>1, <2>1, <2>2, <2>3, <2>4, Steps
<1>3. ASSUME NEW s \in Request, At(s, "sending")', req'[s] # req[s]
      PROVE  \E u \in User : Begins(s, u)
  BY <1>3, NextByPc
<1> QED
  BY <1>2, <1>3

LEMMA Committed ==
    ASSUME IInv, [Next]_vars
    PROVE  (\E r \in Request : CommitMessage(r)) \/ UNCHANGED <<messages, uncounted>>
<1>1. TypeOK
  BY DEF IInv
<1>2. ASSUME NEW r \in Request, NEW u \in User, Begins(r, u)
      PROVE  UNCHANGED <<messages, uncounted>>
  BY <1>2 DEF Begins, Begin, countVars
<1>3. ASSUME NEW r \in Request,
             \/ MarkRows(r) \/ WriteUnreadCount(r) \/ WriteEdit(r) \/ WriteDeletion(r) \/ Abort(r)
      PROVE  UNCHANGED <<messages, uncounted>>
  BY <1>3 DEF MarkRows, WriteUnreadCount, WriteEdit, WriteDeletion, Abort, messageVars, countVars
<1>4. ASSUME NEW r \in Request, NEW u \in User, NEW ids \in Marks, MarkMessagesAsRead(r, u, ids)
      PROVE  UNCHANGED <<messages, uncounted>>
  BY <1>4 DEF MarkMessagesAsRead, messageVars, countVars
<1>5. ASSUME NEW r \in Request, NEW m \in Message, EditMessage(r, m) \/ DeleteMessage(r, m)
      PROVE  UNCHANGED <<messages, uncounted>>
  BY <1>5 DEF EditMessage, DeleteMessage, Change, messageVars, countVars
<1>6. ASSUME Shuts \/ Pages \/ UNCHANGED vars PROVE UNCHANGED <<messages, uncounted>>
  BY <1>6 DEF Shuts, Pages, vars, messageVars, countVars
<1> QED
  BY <1>1, <1>2, <1>3, <1>4, <1>5, <1>6, Steps

LEMMA Deleted ==
    ASSUME IInv, [Next]_vars
    PROVE  (\E r \in Request : WriteDeletion(r)) \/ isDeleted' = isDeleted
<1>1. TypeOK
  BY DEF IInv
<1>2. ASSUME NEW r \in Request, NEW u \in User, Begins(r, u)
      PROVE  isDeleted' = isDeleted
  BY <1>2 DEF Begins, Begin
<1>3. ASSUME NEW r \in Request,
             \/ CommitMessage(r) \/ MarkRows(r) \/ WriteUnreadCount(r) \/ WriteEdit(r) \/ Abort(r)
      PROVE  isDeleted' = isDeleted
  BY <1>3 DEF CommitMessage, MarkRows, WriteUnreadCount, WriteEdit, Abort, messageVars
<1>4. ASSUME NEW r \in Request, NEW u \in User, NEW ids \in Marks, MarkMessagesAsRead(r, u, ids)
      PROVE  isDeleted' = isDeleted
  BY <1>4 DEF MarkMessagesAsRead, messageVars
<1>5. ASSUME NEW r \in Request, NEW m \in Message, EditMessage(r, m) \/ DeleteMessage(r, m)
      PROVE  isDeleted' = isDeleted
  BY <1>5 DEF EditMessage, DeleteMessage, Change, messageVars
<1>6. ASSUME Shuts \/ Pages \/ UNCHANGED vars PROVE isDeleted' = isDeleted
  BY <1>6 DEF Shuts, Pages, vars, messageVars
<1> QED
  BY <1>1, <1>2, <1>3, <1>4, <1>5, <1>6, Steps

LEMMA ShutOrNot ==
    ASSUME IInv, [Next]_vars
    PROVE  /\ administration' = administration
           /\ Shuts \/ UNCHANGED <<isActive, isBlocked, blocks>>
<1> DEFINE Goal == /\ administration' = administration
                   /\ Shuts \/ UNCHANGED <<isActive, isBlocked, blocks>>
<1>1. TypeOK
  BY DEF IInv
<1>2. ASSUME NEW r \in Request, NEW u \in User, Begins(r, u) PROVE Goal
  BY <1>2 DEF Begins, Begin
<1>3. ASSUME NEW r \in Request,
             \/ CommitMessage(r) \/ MarkRows(r) \/ WriteUnreadCount(r) \/ WriteEdit(r)
             \/ WriteDeletion(r) \/ Abort(r)
      PROVE  Goal
  BY <1>3 DEF CommitMessage, MarkRows, WriteUnreadCount, WriteEdit, WriteDeletion, Abort, shutVars
<1>4. ASSUME NEW r \in Request, NEW u \in User, NEW ids \in Marks, MarkMessagesAsRead(r, u, ids)
      PROVE  Goal
  BY <1>4 DEF MarkMessagesAsRead, shutVars
<1>5. ASSUME NEW r \in Request, NEW m \in Message, EditMessage(r, m) \/ DeleteMessage(r, m)
      PROVE  Goal
  BY <1>5 DEF EditMessage, DeleteMessage, Change, shutVars
<1>6. ASSUME Shuts \/ Pages \/ UNCHANGED vars PROVE Goal
  BY <1>6 DEF Shuts, Pages, vars, shutVars
<1> HIDE DEF Goal
<1>7. Goal
  BY <1>1, <1>2, <1>3, <1>4, <1>5, <1>6, Steps
<1> QED
  BY <1>7 DEF Goal

LEMMA NextSends ==
    ASSUME IInv, [Next]_vars, NEW s \in Request
    PROVE  SendsSoundly(s)'
<1>1. TypeOK /\ \A t \in Request : SendsSoundly(t)
  BY DEF IInv
<1>2. RowsStep /\ messages \subseteq 1..begun /\ begun \in Nat
  BY <1>1, NextRows, Facts DEF TypeOK
<1> SUFFICES ASSUME At(s, "sending")'
             PROVE  /\ req'[s].message \in 1..begun'
                    /\ req'[s].message \notin messages'
                    /\ req'[s].message \notin early' => MaySend(sender[req[s].message])'
                    /\ \A t \in Request :
                          At(t, "sending")' /\ req'[t].message = req'[s].message => t = s
  BY DEF SendsSoundly
<1>3. CASE \E r \in Request, u \in User : Begins(r, u)
  <2>1. PICK r \in Request, u \in User : Begins(r, u)
    BY <1>3
  <2>2. /\ req'[r] = [pc |-> "sending", message |-> begun']
        /\ \A t \in Request \ {r} : req'[t] = req[t]
    BY <1>1, <2>1 DEF Begins, Begin, Goto, TypeOK
  <2>3. /\ begun' = begun + 1 /\ begun' \in 1..begun' /\ begun' \notin 1..begun
        /\ messages' = messages /\ sender' = [sender EXCEPT ![begun'] = u]
    BY <1>2, <2>1 DEF Begins, Begin
  <2>4. \A t \in Request \ {r} : At(t, "sending")' => req'[t].message \in 1..begun
    BY <1>1, <2>2 DEF SendsSoundly, At
  <2>5. UNCHANGED <<administration, isActive, isBlocked, blocks>>
    BY <2>1 DEF Begins, Begin
  <2>6. CASE s = r
    <3>1. sender'[begun'] = u
      <4>1. begun' \in Message
        BY <1>1, <2>1, Facts DEF Begins, Begin, Message
      <4> QED
        BY <1>1, <2>3, <4>1 DEF TypeOK
    <3>2. begun' \notin early' => MaySend(u)
      BY <2>1 DEF Begins
    <3>3. begun' \notin early' => MaySend(sender[req[s].message])'
      BY <2>2, <2>5, <2>6, <3>1, <3>2
      DEF MaySend, CanSendMessageToParticipant, HasActiveUserBlock
    <3> QED
      BY <1>2, <2>2, <2>3, <2>4, <2>6, <3>3
  <2>7. CASE s # r
    <3>1. req'[s] = req[s] /\ At(s, "sending")
      BY <2>2, <2>7 DEF At
    <3>2. sender'[req[s].message] = sender[req[s].message]
      BY <1>1, <1>2, <3>1 DEF SendsSoundly, RowsStep
    <3>3. req'[s].message \notin early' => MaySend(sender[req[s].message])'
      BY <1>1, <1>2, <2>5, <3>1, <3>2
      DEF SendsSoundly, RowsStep, MaySend, CanSendMessageToParticipant, HasActiveUserBlock
    <3>4. \A t \in Request :
             At(t, "sending")' /\ req'[t].message = req'[s].message => t = s
      BY <1>1, <2>2, <2>3, <2>4, <2>7, <3>1 DEF SendsSoundly, At
    <3> QED
      BY <1>1, <1>2, <2>3, <3>1, <3>3, <3>4 DEF SendsSoundly, RowsStep
  <2> QED
    BY <2>6, <2>7
<1>4. CASE /\ UNCHANGED <<begun, sender>>
           /\ \A t \in Request : At(t, "sending")' => req'[t] = req[t]
  <2>1. /\ req'[s] = req[s] /\ At(s, "sending")
        /\ \A t \in Request : At(t, "sending")' => At(t, "sending") /\ req'[t] = req[t]
    BY <1>4 DEF At
  <2>2. req[s].message \notin messages'
    <3>1. CASE UNCHANGED <<messages, uncounted>>
      BY <1>1, <2>1, <3>1 DEF SendsSoundly
    <3>2. ASSUME NEW r \in Request, CommitMessage(r)
          PROVE  req[s].message \notin messages'
      <4>1. messages' = messages \union {req[r].message} /\ At(r, "sending") /\ req'[r] = Idle
        BY <1>1, <3>2 DEF CommitMessage, Goto, TypeOK
      <4>2. s # r
        BY <4>1, IdleState DEF At
      <4> QED
        BY <1>1, <2>1, <4>1, <4>2 DEF SendsSoundly
    <3> QED
      BY <3>1, <3>2, Committed
  <2>3. ASSUME req[s].message \notin early'
        PROVE  MaySend(sender[req[s].message])'
    <3>1. req[s].message \in Sending
      BY <2>1 DEF Sending
    <3>2. UNCHANGED <<administration, isActive, isBlocked, blocks>>
      BY <2>3, <3>1, ShutOrNot DEF Shuts
    <3>3. MaySend(sender[req[s].message])
      BY <1>1, <1>2, <2>1, <2>3 DEF SendsSoundly, RowsStep
    <3> QED
      BY <1>4, <2>1, <3>2, <3>3 DEF MaySend, CanSendMessageToParticipant, HasActiveUserBlock
  <2> QED
    BY <1>1, <1>4, <2>1, <2>2, <2>3 DEF SendsSoundly
<1> QED
  BY <1>3, <1>4, Begun

LEMMA NextChanges ==
    ASSUME IInv, [Next]_vars, NEW s \in Request
    PROVE  ChangesSoundly(s)'
<1>1. TypeOK /\ RowsStep /\ ChangesSoundly(s) /\ IInv
  BY NextRows DEF IInv
<1>2. ASSUME At(s, "editing")' \/ At(s, "deleting")' PROVE req'[s].message \in messages'
  <2>1. CASE req'[s] = req[s]
    BY <1>1, <1>2, <2>1 DEF ChangesSoundly, RowsStep, At
  <2>2. CASE req'[s] # req[s]
    <3>1. PICK m \in Message, pc \in {"editing", "deleting"} :
             Change(s, m, pc) /\ req'[s] = [pc |-> pc, message |-> m]
      BY <1>2, <2>2, NextByPc
    <3> QED
      BY <1>1, <3>1 DEF Change, RowsStep
  <2> QED
    BY <2>1, <2>2
<1>3. ASSUME At(s, "editing")', req'[s].message \in isDeleted'
      PROVE  req'[s].message \in lateEdit'
  <2>1. CASE req'[s] # req[s]
    <3>1. PICK m \in Message : Change(s, m, "editing") /\ req'[s] = [pc |-> "editing", message |-> m]
      BY <1>3, <2>1, NextByPc
    <3>2. m \notin isDeleted /\ isDeleted' = isDeleted
      BY <3>1 DEF Change, MayChange, messageVars
    <3> QED
      BY <1>3, <3>1, <3>2
  <2>2. CASE req'[s] = req[s] /\ req[s].message \in isDeleted
    BY <1>1, <1>3, <2>2 DEF ChangesSoundly, RowsStep, At
  <2>3. CASE req'[s] = req[s] /\ req[s].message \notin isDeleted
    <3>1. ASSUME NEW r \in Request, WriteDeletion(r), isDeleted' # isDeleted
          PROVE  req'[s].message \in lateEdit'
      <4>1. req[s].message = req[r].message
        BY <1>3, <2>3, <3>1 DEF WriteDeletion
      <4>2. req[s] = [pc |-> "editing", message |-> req[r].message]
        <5>1. req[s] \in RequestState /\ req[s].pc = "editing"
          BY <1>1, <1>3, <2>3 DEF TypeOK, At
        <5>2. req[s] = [pc |-> req[s].pc, message |-> req[s].message]
          BY <5>1 DEF RequestState, Idle
        <5> QED
          BY <4>1, <5>1, <5>2
      <4> QED
        BY <2>3, <3>1, <4>1, <4>2 DEF WriteDeletion
    <3>2. ASSUME isDeleted' = isDeleted PROVE FALSE
      BY <1>3, <2>3, <3>2
    <3>3. (\E r \in Request : WriteDeletion(r)) \/ isDeleted' = isDeleted
      BY <1>1, Deleted
    <3> QED
      BY <3>1, <3>2, <3>3
  <2> QED
    BY <2>1, <2>2, <2>3
<1> QED
  BY <1>2, <1>3 DEF ChangesSoundly

\* Marking takes its rows from the unread ones; without ids, all of them.
LEMMA MarkedCounts ==
    ASSUME IInv, NEW r \in Request, MarkRows(r),
           NEW u, u = req[r].user, NEW rows, rows = MarkAsRead(u, req[r].ids)
    PROVE  /\ u \in User /\ req[r].unread \in Nat /\ Cardinality(rows) \in Nat
           /\ Cardinality(Unread(u)') = Cardinality(Unread(u)) - Cardinality(rows)
           /\ req[r].ids = {} => Cardinality(Unread(u)') = 0
<1>1. TypeOK /\ req[r] \in RequestState /\ req[r].pc = "readRows"
  BY DEF IInv, TypeOK, MarkRows, At
<1>2. u \in User /\ req[r].unread \in Nat
  BY <1>1, StateAt
<1>3. rows \subseteq Unread(u) /\ (req[r].ids = {} => rows = Unread(u))
  BY DEF MarkAsRead
<1>4. isRead' = isRead \union rows /\ UNCHANGED <<messages, sender, isDeleted>>
  BY DEF MarkRows
<1>5. Unread(u)' = Unread(u) \ rows
  BY <1>4 DEF Unread, From
<1>6. IsFiniteSet(Unread(u)) /\ Cardinality(Unread(u)) \in Nat
  BY <1>1, <1>2, CountFacts
<1>7. Unread(u) \intersect rows = rows
  BY <1>3
<1>8. /\ Cardinality(Unread(u) \ rows) = Cardinality(Unread(u)) - Cardinality(Unread(u) \intersect rows)
      /\ IsFiniteSet(rows)
  BY <1>3, <1>6, FS_Difference, FS_Subset
<1>9. Cardinality(rows) \in Nat
  BY <1>8, FS_CardinalityType
<1>10. req[r].ids = {} => Cardinality(Unread(u)') = 0
  BY <1>3, <1>5, FS_EmptySet
<1> QED
  BY <1>2, <1>5, <1>7, <1>8, <1>9, <1>10

LEMMA NextMarks ==
    ASSUME IInv, [Next]_vars, NEW s \in Request
    PROVE  MarksSoundly(s)'
<1>1. TypeOK /\ RowsStep /\ MarksSoundly(s) /\ UnreadCovered /\ CountsAreCounts
  BY NextRows DEF IInv
<1>2. CASE req'[s] = req[s] /\ (At(s, "readRows") \/ At(s, "readCount"))
  <2>1. PICK u : u = req[s].user
    OBVIOUS
  <2>2. PICK q : q = req[s]
    OBVIOUS
  <2>3. /\ u \in User /\ q.unread \in Nat /\ (q.pc = "readCount" => q.count \in Nat)
        /\ Other(u) \in User
    BY <1>1, <1>2, <2>1, <2>2, StateAt, OtherIsOther, Facts DEF TypeOK, At
  <2>4. q.unread <= Cardinality(From(Other(u))')
    <3>1. q.unread <= Cardinality(From(Other(u)))
      BY <1>1, <1>2, <2>1, <2>2 DEF MarksSoundly
    <3>2. Cardinality(From(Other(u))) <= Cardinality(From(Other(u))')
      BY <1>1, <2>3, FromGrows
    <3>3. Cardinality(From(Other(u))) \in Nat /\ Cardinality(From(Other(u))') \in 0..MaxMessages
      BY <1>1, <2>3, FromGrows, CountFacts
    <3> QED
      BY <2>3, <3>1, <3>2, <3>3, Facts, <1>1
  <2>5. PICK d \in Nat : /\ uncounted'[u] = uncounted[u] + d
                         /\ Cardinality(Unread(u)') <= Cardinality(Unread(u)) + d
                         /\ Cardinality(Unread(u)') \in Nat
    <3>1. uncounted[u] \in Nat /\ Cardinality(Unread(u)) \in Nat
      BY <1>1, <2>3, CountFacts DEF CountsAreCounts
    <3>2. CASE UNCHANGED <<messages, uncounted>>
      <4>1. Cardinality(Unread(u)') <= Cardinality(Unread(u)) /\ Cardinality(Unread(u)') \in Nat
        BY <1>1, <2>3, <3>2, UnreadShrinks
      <4> QED
        BY <3>1, <3>2, <4>1
    <3>3. CASE \E r \in Request : CommitMessage(r)
      <4>1. PICK r \in Request : CommitMessage(r)
        BY <3>3
      <4>2. PICK one : one = IF u = Receiver(req[r].message) THEN 1 ELSE 0
        OBVIOUS
      <4>3. Cardinality(Unread(u)') = Cardinality(Unread(u)) + one
        BY <2>3, <4>1, <4>2, CommitCounts
      <4>4. Marking(u)
        BY <1>2, <2>1 DEF Marking, At
      <4>5. uncounted'[u] = uncounted[u] + one
        BY <1>1, <2>3, <3>1, <4>1, <4>2, <4>4 DEF CommitMessage, CountsAreCounts
      <4> QED
        BY <3>1, <4>2, <4>3, <4>5
    <3> QED
      BY <3>2, <3>3, Committed
  <2>6. /\ uncounted[u] \in Nat /\ Cardinality(Unread(u)) \in Nat
    BY <1>1, <2>3, CountFacts DEF CountsAreCounts
  <2>7. q.pc = "readRows" => Cardinality(Unread(u)') <= q.unread + uncounted'[u]
    <3>1. q.pc = "readRows" => Cardinality(Unread(u)) <= q.unread + uncounted[u]
      BY <1>1, <2>1, <2>2 DEF MarksSoundly, At
    <3> QED
      BY <2>3, <2>5, <2>6, <3>1
  <2>8. q.pc = "readCount" =>
           Cardinality(Unread(u)') <= (IF q.all THEN 0 ELSE q.unread - q.count) + uncounted'[u]
    <3>1. q.pc = "readCount" =>
             Cardinality(Unread(u)) <= (IF q.all THEN 0 ELSE q.unread - q.count) + uncounted[u]
      BY <1>1, <2>1, <2>2 DEF MarksSoundly, At
    <3> QED
      BY <2>3, <2>5, <2>6, <3>1
  <2>9. req'[s] = q /\ req'[s].user = u
    BY <1>2, <2>1, <2>2
  <2>10. /\ From(Other(req[s].user))' = From(Other(u))' /\ Unread(req[s].user)' = Unread(u)'
         /\ uncounted'[req'[s].user] = uncounted'[u]
    BY <2>9
  <2> QED
    BY <2>4, <2>7, <2>8, <2>9, <2>10 DEF MarksSoundly, At
<1>3. CASE req'[s] # req[s] /\ At(s, "readRows")'
  <2>1. PICK u \in User, ids \in Marks :
           /\ MarkMessagesAsRead(s, u, ids)
           /\ req'[s] = [pc |-> "readRows", user |-> u, ids |-> ids, unread |-> unreadCount[u]]
    BY <1>3, NextByPc
  <2>2. UNCHANGED <<messages, sender, isRead, isDeleted, uncounted>>
    BY <2>1 DEF MarkMessagesAsRead, messageVars, countVars
  <2>3. From(Other(u))' = From(Other(u)) /\ Unread(u)' = Unread(u)
    BY <2>2 DEF From, Unread
  <2>4. /\ unreadCount[u] <= Cardinality(From(Other(u)))
        /\ Cardinality(Unread(u)) <= unreadCount[u] + uncounted[u]
    BY <1>1 DEF TypeOK, UnreadCovered
  <2>5. req'[s].pc = "readRows" /\ req'[s].user = u /\ req'[s].unread = unreadCount[u]
    BY <2>1
  <2>6. /\ From(Other(req[s].user))' = From(Other(u))' /\ Unread(req[s].user)' = Unread(u)'
        /\ uncounted'[req'[s].user] = uncounted[u]
    BY <2>2, <2>5
  <2> QED
    BY <2>3, <2>4, <2>5, <2>6 DEF MarksSoundly, At
<1>4. CASE req'[s] # req[s] /\ At(s, "readCount")'
  <2>1. PICK u, rows, all, unread, count :
           /\ u = req[s].user /\ rows = MarkAsRead(u, req[s].ids) /\ all = (req[s].ids = {})
           /\ unread = req[s].unread /\ count = Cardinality(rows)
    OBVIOUS
  <2>2. /\ MarkRows(s)
        /\ req'[s] = [pc |-> "readCount", user |-> u, all |-> all, unread |-> unread,
                      count |-> count]
    BY <1>4, <2>1, NextByPc
  <2>3. /\ u \in User /\ unread \in Nat /\ count \in Nat
        /\ Cardinality(Unread(u)') = Cardinality(Unread(u)) - count
        /\ all => Cardinality(Unread(u)') = 0
    <3>1. /\ u \in User /\ req[s].unread \in Nat /\ Cardinality(rows) \in Nat
          /\ Cardinality(Unread(u)') = Cardinality(Unread(u)) - Cardinality(rows)
          /\ req[s].ids = {} => Cardinality(Unread(u)') = 0
      BY <2>1, <2>2, MarkedCounts
    <3> QED
      BY <2>1, <3>1
  <2>4. UNCHANGED <<messages, sender, uncounted>>
    BY <2>2 DEF MarkRows, countVars
  <2>5. From(Other(u))' = From(Other(u))
    BY <2>4 DEF From
  <2>6. /\ unread <= Cardinality(From(Other(u)))
        /\ Cardinality(Unread(u)) <= unread + uncounted[u]
    BY <1>1, <2>1, <2>2 DEF MarkRows, MarksSoundly, At
  <2>7. uncounted[u] \in Nat /\ Cardinality(Unread(u)) \in Nat
    BY <1>1, <2>3, CountFacts DEF CountsAreCounts
  <2>8. Cardinality(Unread(u)') <= (IF all THEN 0 ELSE unread - count) + uncounted[u]
    BY <2>3, <2>6, <2>7
  <2>9. /\ req'[s].pc = "readCount" /\ req'[s].user = u /\ req'[s].unread = unread
        /\ req'[s].all = all /\ req'[s].count = count
    BY <2>2
  <2>10. /\ From(Other(req[s].user))' = From(Other(u))' /\ Unread(req[s].user)' = Unread(u)'
         /\ uncounted'[req'[s].user] = uncounted[u]
    BY <2>4, <2>9
  <2> QED
    BY <2>5, <2>6, <2>8, <2>9, <2>10 DEF MarksSoundly, At
<1>5. CASE ~At(s, "readRows")' /\ ~At(s, "readCount")'
  BY <1>5 DEF MarksSoundly
<1> QED
  BY <1>2, <1>3, <1>4, <1>5 DEF At

LEMMA Counted ==
    ASSUME IInv, [Next]_vars
    PROVE  \/ \E r \in Request : CommitMessage(r) \/ WriteUnreadCount(r)
           \/ UNCHANGED <<messages, unreadCount, uncounted>>
<1>1. TypeOK
  BY DEF IInv
<1>2. ASSUME NEW r \in Request, NEW u \in User, Begins(r, u)
      PROVE  unreadCount' = unreadCount
  BY <1>2 DEF Begins, Begin, countVars
<1>3. ASSUME NEW r \in Request, MarkRows(r) \/ WriteEdit(r) \/ WriteDeletion(r) \/ Abort(r)
      PROVE  unreadCount' = unreadCount
  BY <1>3 DEF MarkRows, WriteEdit, WriteDeletion, Abort, countVars
<1>4. ASSUME NEW r \in Request, NEW u \in User, NEW ids \in Marks, MarkMessagesAsRead(r, u, ids)
      PROVE  unreadCount' = unreadCount
  BY <1>4 DEF MarkMessagesAsRead, countVars
<1>5. ASSUME NEW r \in Request, NEW m \in Message, EditMessage(r, m) \/ DeleteMessage(r, m)
      PROVE  unreadCount' = unreadCount
  BY <1>5 DEF EditMessage, DeleteMessage, Change, countVars
<1>6. ASSUME Shuts \/ Pages \/ UNCHANGED vars PROVE unreadCount' = unreadCount
  BY <1>6 DEF Shuts, Pages, vars, countVars
<1> QED
  BY <1>1, <1>2, <1>3, <1>4, <1>5, <1>6, Steps, Committed

\* The counter covers what is unread and counts no more than there is.
Counter(u) ==
    /\ unreadCount[u] \in 0..MaxMessages /\ uncounted[u] \in Nat
    /\ unreadCount[u] <= Cardinality(From(Other(u)))
    /\ Cardinality(Unread(u)) <= unreadCount[u] + uncounted[u]

LEMMA NextCounters ==
    ASSUME IInv, [Next]_vars
    PROVE  /\ unreadCount' \in [User -> 0..MaxMessages] /\ uncounted' \in [User -> Nat]
           /\ \A u \in User : Counter(u)'
<1>1. TypeOK /\ RowsStep /\ UnreadCovered /\ CountsAreCounts /\ MaxMessages \in Nat
  BY NextRows, Facts DEF IInv
<1>2. /\ unreadCount \in [User -> 0..MaxMessages] /\ uncounted \in [User -> Nat]
      /\ \A u \in User : Counter(u)
  BY <1>1 DEF TypeOK, UnreadCovered, CountsAreCounts, Counter
<1>3. \A u \in User : Cardinality(From(Other(u))) \in Nat /\ Cardinality(Unread(u)) \in Nat
  BY <1>1, CountFacts, OtherIsOther
<1>4. /\ DOMAIN unreadCount' = User /\ DOMAIN uncounted' = User
      /\ unreadCount' = [u \in User |-> unreadCount'[u]]
      /\ uncounted' = [u \in User |-> uncounted'[u]]
  <2>1. ASSUME NEW r \in Request, CommitMessage(r)
        PROVE  /\ unreadCount' = [u \in User |-> unreadCount'[u]]
               /\ uncounted' = [u \in User |-> uncounted'[u]]
    BY <1>2, <2>1 DEF CommitMessage
  <2>2. ASSUME NEW r \in Request, WriteUnreadCount(r)
        PROVE  /\ unreadCount' = [u \in User |-> unreadCount'[u]]
               /\ uncounted' = [u \in User |-> uncounted'[u]]
    BY <1>2, <2>2 DEF WriteUnreadCount
  <2> QED
    BY <1>2, <2>1, <2>2, Counted
<1>5. ASSUME NEW u \in User PROVE Counter(u)'
  <2>1. Counter(u) /\ Other(u) \in User
    BY <1>2, OtherIsOther
  <2>2. CASE UNCHANGED <<messages, unreadCount, uncounted>>
    <3>1. /\ Cardinality(Unread(u)') <= Cardinality(Unread(u)) /\ Cardinality(Unread(u)') \in Nat
          /\ Cardinality(From(Other(u))) <= Cardinality(From(Other(u))')
          /\ Cardinality(From(Other(u))') \in Nat
      BY <1>1, <2>1, <2>2, UnreadShrinks, FromGrows
    <3> QED
      BY <1>1, <1>3, <2>1, <2>2, <3>1 DEF Counter
  <2>3. ASSUME NEW r \in Request, CommitMessage(r) PROVE Counter(u)'
    <3>1. PICK one : one = IF u = Receiver(req[r].message) THEN 1 ELSE 0
      OBVIOUS
    <3>2. /\ Cardinality(From(Other(u))') = Cardinality(From(Other(u))) + one
          /\ Cardinality(Unread(u)') = Cardinality(Unread(u)) + one
      BY <2>3, <3>1, CommitCounts
    <3>3. /\ unreadCount'[u] = unreadCount[u] + one
          /\ uncounted'[u] \in Nat /\ uncounted'[u] >= uncounted[u]
      BY <1>1, <1>2, <2>1, <2>3, <3>1 DEF CommitMessage, Counter
    <3>4. Cardinality(From(Other(u))') \in 0..MaxMessages
      BY <1>1, <2>1, FromGrows
    <3> QED
      BY <1>1, <1>3, <2>1, <3>1, <3>2, <3>3, <3>4 DEF Counter
  <2>4. ASSUME NEW r \in Request, WriteUnreadCount(r) PROVE Counter(u)'
    <3>1. /\ messages' = messages /\ sender' = sender /\ isRead' = isRead
          /\ isDeleted' = isDeleted /\ uncounted' = uncounted
      BY <2>4 DEF WriteUnreadCount, messageVars
    <3>2. From(Other(u))' = From(Other(u)) /\ Unread(u)' = Unread(u)
      BY <3>1 DEF From, Unread
    <3>3. CASE u # req[r].user
      <4>1. unreadCount'[u] = unreadCount[u]
        BY <1>2, <2>4, <3>3 DEF WriteUnreadCount
      <4> QED
        BY <2>1, <3>1, <3>2, <4>1 DEF Counter
    <3>4. CASE u = req[r].user
      <4>1. PICK q : q = req[r]
        OBVIOUS
      <4>2. q.pc = "readCount" /\ q.all \in BOOLEAN /\ q.unread \in 0..MaxMessages /\ q.count \in Nat
        BY <1>1, <2>4, <4>1, StateAt DEF TypeOK, WriteUnreadCount, At
      <4>3. PICK new : new = NewUnreadCount(q.all, q.unread, q.count)
        OBVIOUS
      <4>4. unreadCount'[u] = new
        BY <1>2, <2>4, <3>4, <4>1, <4>3 DEF WriteUnreadCount
      <4>5. /\ new \in 0..MaxMessages /\ new <= q.unread
            /\ (IF q.all THEN 0 ELSE q.unread - q.count) <= new
        <5>1. CASE q.all
          BY <1>1, <4>2, <4>3, <5>1 DEF NewUnreadCount
        <5>2. CASE ~q.all
          <6>1. PICK d : d = q.unread - q.count
            OBVIOUS
          <6>2. d \in Int /\ d <= q.unread
            BY <4>2, <6>1
          <6>3. Max({0, d}) \in {0, d} /\ Max({0, d}) >= 0 /\ Max({0, d}) >= d
            BY <6>2, MaxOfTwo
          <6> QED
            BY <1>1, <4>2, <4>3, <5>2, <6>1, <6>2, <6>3 DEF NewUnreadCount
        <5> QED
          BY <4>2, <5>1, <5>2
      <4>6. /\ q.unread <= Cardinality(From(Other(u)))
            /\ Cardinality(Unread(u)) <= (IF q.all THEN 0 ELSE q.unread - q.count) + uncounted[u]
        BY <3>4, <4>1, <4>2 DEF IInv, MarksSoundly, At
      <4>7. PICK kept : kept = IF q.all THEN 0 ELSE q.unread - q.count
        OBVIOUS
      <4>8. kept \in Int /\ kept <= new /\ Cardinality(Unread(u)) <= kept + uncounted[u]
        BY <4>2, <4>5, <4>6, <4>7
      <4>9. uncounted'[u] = uncounted[u] /\ uncounted[u] \in Nat
        BY <1>2, <3>1
      <4> QED
        BY <1>1, <1>3, <2>1, <3>2, <4>2, <4>4, <4>5, <4>6, <4>8, <4>9 DEF Counter
    <3> QED
      BY <3>3, <3>4
  <2> QED
    BY <2>2, <2>3, <2>4, Counted
<1>6. \A u \in User : unreadCount'[u] \in 0..MaxMessages /\ uncounted'[u] \in Nat
  BY <1>5 DEF Counter
<1> QED
  BY <1>4, <1>5, <1>6

-----------------------------------------------------------------------------
(***************************************************************************)
(* The theorems.                                                           *)
(***************************************************************************)
LEMMA NextContents ==
    ASSUME IInv, [Next]_vars
    PROVE  content' \in [Message -> Contents] /\ DeletedTextIsGone'
<1> DEFINE Goal == content' \in [Message -> Contents] /\ DeletedTextIsGone'
<1>1. /\ TypeOK /\ RowsStep /\ \A r \in Request : ChangesSoundly(r)
      /\ content \in [Message -> Contents] /\ messages \subseteq Message
      /\ \A m \in isDeleted \ lateEdit : content[m] = "notice"
  BY NextRows, Facts DEF IInv, TypeOK, DeletedTextIsGone
<1>2. ASSUME content' = content, isDeleted' = isDeleted PROVE Goal
  BY <1>1, <1>2 DEF RowsStep, DeletedTextIsGone
<1>3. ASSUME NEW r \in Request, WriteEdit(r) PROVE Goal
  <2>1. PICK m : m = req[r].message
    OBVIOUS
  <2>2. m \in messages /\ (m \in isDeleted => m \in lateEdit)
    BY <1>1, <1>3, <2>1 DEF WriteEdit, ChangesSoundly
  <2>3. content' = [content EXCEPT ![m] = "edited"] /\ UNCHANGED <<isDeleted, lateEdit>>
    BY <1>3, <2>1 DEF WriteEdit
  <2> QED
    BY <1>1, <2>2, <2>3 DEF DeletedTextIsGone, Contents
<1>4. ASSUME NEW r \in Request, WriteDeletion(r) PROVE Goal
  <2>1. PICK m : m = req[r].message
    OBVIOUS
  <2>2. m \in messages
    BY <1>1, <1>4, <2>1 DEF WriteDeletion, ChangesSoundly
  <2>3. /\ content' = [content EXCEPT ![m] = "notice"]
        /\ isDeleted' = isDeleted \union {m} /\ lateEdit \subseteq lateEdit'
    BY <1>1, <1>4, <2>1 DEF WriteDeletion, RowsStep
  <2> QED
    BY <1>1, <2>2, <2>3 DEF DeletedTextIsGone, Contents
<1>5. ASSUME NEW r \in Request, NEW u \in User, Begins(r, u) PROVE Goal
  BY <1>2, <1>5 DEF Begins, Begin
<1>6. ASSUME NEW r \in Request,
             CommitMessage(r) \/ MarkRows(r) \/ WriteUnreadCount(r) \/ Abort(r)
      PROVE  Goal
  BY <1>2, <1>6 DEF CommitMessage, MarkRows, WriteUnreadCount, Abort, messageVars
<1>7. ASSUME NEW r \in Request, NEW u \in User, NEW ids \in Marks, MarkMessagesAsRead(r, u, ids)
      PROVE  Goal
  BY <1>2, <1>7 DEF MarkMessagesAsRead, messageVars
<1>8. ASSUME NEW r \in Request, NEW m \in Message, EditMessage(r, m) \/ DeleteMessage(r, m)
      PROVE  Goal
  BY <1>2, <1>8 DEF EditMessage, DeleteMessage, Change, messageVars
<1>9. ASSUME Shuts \/ Pages \/ UNCHANGED vars PROVE Goal
  BY <1>2, <1>9 DEF Shuts, Pages, vars, messageVars
<1> HIDE DEF Goal
<1>10. Goal
  BY <1>1, <1>3, <1>4, <1>5, <1>6, <1>7, <1>8, <1>9, Steps
<1> QED
  BY <1>10 DEF Goal

\* The last message and the reader.
LEMMA NextLast ==
    ASSUME IInv, [Next]_vars
    PROVE  lastMessageId' \in messages' \union {0} /\ (lastMessageId' = 0 <=> messages' = {})
<1>1. /\ TypeOK /\ \A r \in Request : SendsSoundly(r)
      /\ lastMessageId \in messages \union {0} /\ (lastMessageId = 0 <=> messages = {})
  BY DEF IInv, TypeOK
<1>2. ASSUME NEW r \in Request, CommitMessage(r)
      PROVE  lastMessageId' \in messages' /\ lastMessageId' # 0
  <2>1. req[r].message \in 1..begun /\ begun \in Nat
    BY <1>1, <1>2, Facts DEF CommitMessage, SendsSoundly
  <2> QED
    BY <1>2, <2>1 DEF CommitMessage
<1>3. ASSUME NEW r \in Request, NEW u \in User, Begins(r, u)
      PROVE  lastMessageId' = lastMessageId
  BY <1>3 DEF Begins, Begin
<1>4. ASSUME NEW r \in Request,
             \/ MarkRows(r) \/ WriteUnreadCount(r) \/ WriteEdit(r) \/ WriteDeletion(r) \/ Abort(r)
      PROVE  lastMessageId' = lastMessageId
  BY <1>4 DEF MarkRows, WriteUnreadCount, WriteEdit, WriteDeletion, Abort
<1>5. ASSUME NEW r \in Request, NEW u \in User, NEW ids \in Marks, MarkMessagesAsRead(r, u, ids)
      PROVE  lastMessageId' = lastMessageId
  BY <1>5 DEF MarkMessagesAsRead
<1>6. ASSUME NEW r \in Request, NEW m \in Message, EditMessage(r, m) \/ DeleteMessage(r, m)
      PROVE  lastMessageId' = lastMessageId
  BY <1>6 DEF EditMessage, DeleteMessage, Change
<1>7. ASSUME Shuts \/ Pages \/ UNCHANGED vars PROVE lastMessageId' = lastMessageId
  BY <1>7 DEF Shuts, Pages, vars
<1>8. (\E r \in Request : CommitMessage(r)) \/ lastMessageId' = lastMessageId
  BY <1>1, <1>3, <1>4, <1>5, <1>6, <1>7, Steps
<1>9. (\E r \in Request : CommitMessage(r)) \/ messages' = messages
  BY Committed
<1>10. ASSUME lastMessageId' = lastMessageId, messages' # messages PROVE FALSE
  <2>1. PICK r \in Request : CommitMessage(r)
    BY <1>9, <1>10
  <2>2. lastMessageId' \notin messages
    BY <1>1, <2>1 DEF CommitMessage, SendsSoundly
  <2>3. lastMessageId = 0 \/ lastMessageId \in messages
    BY <1>1
  <2> QED
    BY <1>2, <1>10, <2>1, <2>2, <2>3
<1> QED
  BY <1>1, <1>2, <1>8, <1>10

LEMMA NextPager ==
    ASSUME IInv, [Next]_vars
    PROVE  /\ pager'.start \union pager'.seen \subseteq messages'
           /\ pager'.pc = "more" => pager'.cursor \in messages'
<1> DEFINE Goal == /\ pager'.start \union pager'.seen \subseteq messages'
                   /\ pager'.pc = "more" => pager'.cursor \in messages'
<1>1. /\ TypeOK /\ messages \subseteq messages'
      /\ pager.start \union pager.seen \subseteq messages
      /\ pager.pc = "more" => pager.cursor \in messages
  BY NextRows DEF IInv, TypeOK, RowsStep
<1>2. ASSUME pager' = pager PROVE Goal
  BY <1>1, <1>2
<1>3. ASSUME Pages PROVE Goal
  <2>1. CASE pager' = NoPager
    BY <2>1 DEF NoPager
  <2>2. ASSUME NEW start, NEW seen, NEW cursor \in {0} \union messages,
               start \union seen \subseteq messages, ReadPage(cursor, start, seen)
        PROVE  Goal
    <3>1. PICK page : page = GetMessages(cursor)
      OBVIOUS
    <3>2. page.data \subseteq messages /\ (page.hasMore => page.nextCursor \in messages)
      BY <1>1, <3>1, PageFacts
    <3>3. pager' = [pc |-> IF page.hasMore THEN "more" ELSE "end", cursor |-> page.nextCursor,
                    start |-> start, seen |-> seen \union page.data]
      BY <2>2, <3>1 DEF ReadPage
    <3>4. /\ pager'.start = start /\ pager'.seen = seen \union page.data
          /\ pager'.cursor = page.nextCursor /\ (pager'.pc = "more" => page.hasMore)
      BY <3>3
    <3> QED
      BY <1>1, <2>2, <3>2, <3>4
  <2> QED
    BY <1>3, <2>1, <2>2 DEF Pages
<1>4. ASSUME NEW r \in Request, NEW u \in User, Begins(r, u) PROVE Goal
  BY <1>2, <1>4 DEF Begins, Begin
<1>5. ASSUME NEW r \in Request,
             \/ CommitMessage(r) \/ MarkRows(r) \/ WriteUnreadCount(r) \/ WriteEdit(r)
             \/ WriteDeletion(r) \/ Abort(r)
      PROVE  Goal
  BY <1>2, <1>5 DEF CommitMessage, MarkRows, WriteUnreadCount, WriteEdit, WriteDeletion, Abort
<1>6. ASSUME NEW r \in Request, NEW u \in User, NEW ids \in Marks, MarkMessagesAsRead(r, u, ids)
      PROVE  Goal
  BY <1>2, <1>6 DEF MarkMessagesAsRead
<1>7. ASSUME NEW r \in Request, NEW m \in Message, EditMessage(r, m) \/ DeleteMessage(r, m)
      PROVE  Goal
  BY <1>2, <1>7 DEF EditMessage, DeleteMessage, Change
<1>8. ASSUME Shuts \/ UNCHANGED vars PROVE Goal
  BY <1>2, <1>8 DEF Shuts, vars
<1> HIDE DEF Goal
<1>9. Goal
  BY <1>1, <1>3, <1>4, <1>5, <1>6, <1>7, <1>8, Steps
<1> QED
  BY <1>9 DEF Goal

LEMMA NextInv ==
    ASSUME IInv, [Next]_vars
    PROVE  IInv'
<1>1. RowsStep /\ TypeOK
  BY NextRows DEF IInv
<1>2. /\ administration' \subseteq User
      /\ isActive' \in BOOLEAN /\ isBlocked' \subseteq User /\ blocks' \subseteq User \X User
  BY <1>1, ShutOrNot DEF TypeOK, Shuts
<1>3. begun' \in 0..MaxMessages
  BY <1>1, Facts DEF RowsStep
<1>4. \A u \in User : unreadCount'[u] <= Cardinality(From(Other(u))')
  BY NextCounters DEF Counter
<1>5. TypeOK'
  BY <1>1, <1>2, <1>3, <1>4, NextCounters, NextContents, NextLast, NextPager, NextRequest
  DEF TypeOK, RowsStep
<1>6. UnreadCovered' /\ CountsAreCounts'
  BY NextCounters DEF Counter, UnreadCovered, CountsAreCounts
<1>7. \A r \in Request : (SendsSoundly(r) /\ ChangesSoundly(r) /\ MarksSoundly(r))'
  BY NextSends, NextChanges, NextMarks
<1> QED
  BY <1>5, <1>6, <1>7, NextContents DEF IInv

LEMMA InitInv == Init => IInv
<1> SUFFICES ASSUME Init PROVE IInv
  OBVIOUS
<1>1. Earlier \in Nat /\ Earlier <= MaxMessages /\ MaxMessages \in Nat /\ Administrator \in User
  BY ChatAssumption
<1>2. \A u \in User : Unread(u) = {}
  BY DEF Init, Unread, From
<1>3. \A u \in User : Cardinality(From(u)) \in Nat
  <2> TAKE u \in User
  <2>1. From(u) \in SUBSET (1..Earlier)
    BY DEF Init, From
  <2> QED
    BY <1>1, <2>1, SetsOfMessages
<1>4. \A u \in User : Other(u) \in User
  BY OtherIsOther
<1>5. begun \in 0..MaxMessages /\ messages = 1..begun /\ lastMessageId = begun
  BY <1>1 DEF Init
<1>6. lastMessageId \in messages \union {0} /\ (lastMessageId = 0 <=> messages = {})
  <2>1. CASE begun = 0
    BY <1>5, <2>1
  <2>2. CASE begun # 0
    <3>1. begun \in 1..begun
      BY <1>5, <1>1, <2>2
    <3> QED
      BY <1>5, <2>2, <3>1
  <2> QED
    BY <2>1, <2>2
<1>7. TypeOK
  <2>1. sender \in [Message -> User] /\ content \in [Message -> Contents]
    BY <1>1 DEF Init, Contents
  <2>2. unreadCount \in [User -> 0..MaxMessages] /\ \A u \in User : unreadCount[u] = 0
    BY <1>1 DEF Init
  <2>3. \A u \in User : unreadCount[u] <= Cardinality(From(Other(u)))
    BY <1>3, <1>4, <2>2
  <2>4. req \in [Request -> RequestState]
    BY IdleState DEF Init
  <2>5. pager.start = {} /\ pager.seen = {} /\ pager.pc = "closed"
    BY DEF Init, NoPager
  <2>6. /\ administration \subseteq User /\ isActive \in BOOLEAN
        /\ isBlocked \subseteq User /\ blocks \subseteq User \X User
        /\ isRead \subseteq messages /\ isDeleted \subseteq messages /\ messages \subseteq 1..begun
    BY <1>1 DEF Init
  <2> QED
    BY <1>5, <1>6, <2>1, <2>2, <2>3, <2>4, <2>5, <2>6 DEF TypeOK
<1>8. CountsAreCounts /\ UnreadCovered /\ DeletedTextIsGone
  <2>1. \A u \in User : Cardinality(Unread(u)) = 0
    BY <1>2, FS_EmptySet
  <2>2. \A u \in User : unreadCount[u] = 0 /\ uncounted[u] = 0
    BY DEF Init
  <2>3. UnreadCovered
    BY <2>1, <2>2 DEF UnreadCovered
  <2> QED
    BY <2>3 DEF Init, CountsAreCounts, DeletedTextIsGone
<1>9. \A r \in Request : req[r].pc = "idle"
  BY IdleState DEF Init
<1> QED
  BY <1>7, <1>8, <1>9 DEF IInv, SendsSoundly, ChangesSoundly, MarksSoundly, At

\* The inductive invariant.
THEOREM Invariance == Spec => []IInv
<1>1. IInv /\ [Next]_vars => IInv'
  BY NextInv
<1> QED
  BY <1>1, InitInv, PTL DEF Spec

\* The rows of a conversation keep their shape, its counters count no more than
\* the messages there are, and the cursor of a page is a message.
THEOREM TypeCorrect == Spec => []TypeOK
<1>1. IInv => TypeOK
  BY DEF IInv
<1> QED
  BY <1>1, Invariance, PTL

\* unreadCount covers what is unread, but for messages that came while their
\* receiver was marking messages as read.
THEOREM UnreadCoveredCorrect == Spec => []UnreadCovered
<1>1. IInv => UnreadCovered
  BY DEF IInv
<1> QED
  BY <1>1, Invariance, PTL

\* The text of a deleted message is gone, but for edits that were between their
\* check and their write.
THEOREM DeletedTextIsGoneCorrect == Spec => []DeletedTextIsGone
<1>1. IInv => DeletedTextIsGone
  BY DEF IInv
<1> QED
  BY <1>1, Invariance, PTL

\* No message lands in a conversation that was shut, but for those whose checks
\* were over and those of the administration.
THEOREM ShutMeansShutCorrect == Spec => ShutMeansShut
<1> DEFINE A == \A m \in messages' \ messages :
                   LET u == sender[m] IN
                   m \notin early =>
                       /\ isActive /\ isBlocked = {}
                       /\ <<Other(u), u>> \in blocks => Other(u) \in administration
<1>1. ASSUME IInv, [Next]_vars PROVE A
  <2> SUFFICES ASSUME NEW m \in messages' \ messages, m \notin early
               PROVE  /\ isActive /\ isBlocked = {}
                      /\ <<Other(sender[m]), sender[m]>> \in blocks
                         => Other(sender[m]) \in administration
    OBVIOUS
  <2>1. PICK r \in Request : CommitMessage(r)
    BY <1>1, Committed
  <2>2. m = req[r].message /\ At(r, "sending")
    BY <2>1 DEF CommitMessage
  <2>3. MaySend(sender[m])
    BY <1>1, <2>2 DEF IInv, SendsSoundly
  <2> QED
    BY <2>3 DEF MaySend, CanSendMessageToParticipant, HasActiveUserBlock
<1>2. IInv /\ [Next]_vars => [A]_vars
  BY <1>1
<1> QED
  BY <1>2, Invariance, PTL DEF Spec, ShutMeansShut
=============================================================================
