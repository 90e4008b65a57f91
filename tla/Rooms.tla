--------------------------------- MODULE Rooms ---------------------------------
(***************************************************************************)
(* What one client sees of the conversation it looks at: the conversation  *)
(* gateway commits a message, an edit or a deletion and then broadcasts it *)
(* to a room, while the client (client/js/app.js) goes from conversation   *)
(* to conversation, leaving and joining rooms over its socket and asking   *)
(* for the messages over HTTP.                                             *)
(*                                                                         *)
(* Nothing orders the answers of HTTP requests, the socket's events and    *)
(* the ends of the handlers that wait for the database.  A broadcast       *)
(* reaches the client's socket with the step that makes it.  What goes on  *)
(* between the check and the write of an edit or a deletion is in Chat.    *)
(***************************************************************************)
EXTENDS FiniteSets, Naturals

CONSTANTS
    Conversation,   \* conversations of the client's user
    RoomMessage,    \* messages that can be sent
    Page,           \* requests for messages that can be under way
    MaxAsked,       \* joins and leaves that may be under way when the client
                    \* selects a conversation
    NoConversation

ASSUME RoomsAssumption == MaxAsked \in Nat /\ NoConversation \notin Conversation

VARIABLES
    \* the rows: each message's conversation, and those deleted and edited
    thread, removed, changed,
    \* handlers that committed and are about to broadcast
    emits,
    \* the client's socket: rooms it is in, joins and leaves under way
    connection, room, asked,
    \* the client: the conversation it looks at, requests for messages, the
    \* messages it lists, and those it lists with their new text
    current, page, list, listedNew,
    \* history, of the conversation looked at: broadcasts not heard there, or
    \* heard while an older answer or announcement was still to come; messages
    \* listed from a late answer of another one; a leave that may come after
    \* the join, or a join refused
    missed, strays, inDoubt

rowVars == <<thread, removed, changed>>
roomSocketVars == <<connection, room, asked>>
viewVars == <<current, page, list, listedNew>>
roomHistory == <<missed, strays, inDoubt>>
roomVars == <<rowVars, emits, roomSocketVars, viewVars, roomHistory>>

Event == [event : {"new", "deleted", "edited"}, message : RoomMessage]
New(m) == [event |-> "new", message |-> m]
Deleted(m) == [event |-> "deleted", message |-> m]
Edited(m) == [event |-> "edited", message |-> m]

NoPage == [at |-> "none", of |-> NoConversation, data |-> {}, new |-> {}]

RoomsInit ==
    /\ thread = [m \in RoomMessage |-> NoConversation]
    /\ removed = {} /\ changed = {} /\ emits = {}
    /\ connection = "closed" /\ room = {} /\ asked = {}
    /\ current = NoConversation
    /\ page = [p \in Page |-> NoPage] /\ list = {} /\ listedNew = {}
    /\ missed = {} /\ strays = {} /\ inDoubt = FALSE

-----------------------------------------------------------------------------
\* Messages of an answer that is under way, with the text they have in it.
Carries(p, m) == page[p].at = "answered" /\ m \in page[p].data
CarriesOld(p, e) ==
    Carries(p, e.message) /\ (e.event = "edited" => e.message \notin page[p].new)

\* Something older than e is still to reach the client.
Overtakes(e) ==
    e.event # "new" /\ (New(e.message) \in emits \/ \E p \in Page : CarriesOld(p, e))

Heard(events) == missed' = missed \union {e \in events : Overtakes(e)}
NotHeard(events) ==
    missed' = missed \union {e \in events : thread[e.message] = current \/ Overtakes(e)}

(***************************************************************************)
(* The handlers of the gateway                                             *)
(***************************************************************************)
\* handleSendMessage, or a message of the administration.
CommitNew(m, c) ==
    /\ thread[m] = NoConversation
    /\ thread' = [thread EXCEPT ![m] = c]
    /\ emits' = emits \union {New(m)}
    /\ UNCHANGED <<removed, changed, roomSocketVars, viewVars, roomHistory>>

CommitEdit(m) ==
    /\ thread[m] # NoConversation /\ m \notin removed \union changed
    /\ changed' = changed \union {m}
    /\ emits' = emits \union {Edited(m)}
    /\ UNCHANGED <<thread, removed, roomSocketVars, viewVars, roomHistory>>

CommitDeletion(m) ==
    /\ thread[m] # NoConversation /\ m \notin removed
    /\ removed' = removed \union {m}
    /\ emits' = emits \union {Deleted(m)}
    /\ UNCHANGED <<thread, changed, roomSocketVars, viewVars, roomHistory>>

\* The controller deletes over HTTP, and tells nobody.
DeleteOverHttp(m) ==
    /\ thread[m] # NoConversation /\ m \notin removed
    /\ removed' = removed \union {m}
    /\ NotHeard({Deleted(m)})
    /\ UNCHANGED <<thread, changed, emits, roomSocketVars, viewVars, strays, inDoubt>>

\* The client looks at a message's conversation, if it is the current one.
FaultConcerns(m) == TRUE
Concerns(m) == thread[m] = current

\* appendMessage and the client's handlers of the three events.  The message of
\* `new` is the one that was committed, with its first text.
Receive(e) ==
    LET m == e.message IN
    CASE e.event = "new" -> list' = list \union {m} /\ UNCHANGED listedNew
      [] e.event = "deleted" -> list' = list \ {m} /\ listedNew' = listedNew \ {m}
      [] e.event = "edited" -> listedNew' = listedNew \union (list \intersect {m})
                               /\ UNCHANGED list

Broadcast(e) ==
    /\ e \in emits
    /\ emits' = emits \ {e}
    /\ IF thread[e.message] \in room
       THEN /\ IF Concerns(e.message) THEN Receive(e) ELSE UNCHANGED <<list, listedNew>>
            /\ Heard({e})
       ELSE NotHeard({e}) /\ UNCHANGED <<list, listedNew>>
    /\ UNCHANGED <<rowVars, roomSocketVars, current, page, strays, inDoubt>>

(***************************************************************************)
(* The socket                                                              *)
(***************************************************************************)
OpenSocket ==
    /\ connection = "closed"
    /\ connection' = "admitting"
    /\ UNCHANGED <<rowVars, emits, room, asked, viewVars, roomHistory>>

\* handleConnection has the user's conversations, and joins their rooms.
JoinAllRooms ==
    /\ connection = "admitting"
    /\ connection' = "open" /\ room' = Conversation
    /\ UNCHANGED <<rowVars, emits, asked, viewVars, roomHistory>>

\* The connection is lost, or the session is over and the server closes it.
CloseSocket ==
    /\ connection # "closed"
    /\ connection' = "closed" /\ room' = {} /\ asked' = {}
    /\ UNCHANGED <<rowVars, emits, viewVars, roomHistory>>

\* WsJwtGuard looks the session up again at each event, which may be over by then.
IfAllowed(rooms) == room' \in {rooms, room}

\* getConversationById, which finds the user to be a participant, or fails.
JoinRoom(c) ==
    /\ [event |-> "join", of |-> c] \in asked
    /\ asked' = asked \ {[event |-> "join", of |-> c]}
    /\ IfAllowed(room \union {c})
    /\ inDoubt' = (inDoubt \/ (c = current /\ c \notin room'))
    /\ UNCHANGED <<rowVars, emits, connection, viewVars, missed, strays>>

LeaveRoom(c) ==
    /\ [event |-> "leave", of |-> c] \in asked
    /\ asked' = asked \ {[event |-> "leave", of |-> c]}
    /\ IfAllowed(room \ {c})
    /\ UNCHANGED <<rowVars, emits, connection, viewVars, roomHistory>>

\* The messages that requests were to bring.
Wanted(pages) == {m \in RoomMessage : \E p \in pages : page[p] # NoPage /\ thread[m] = page[p].of}

\* The process stops: what it was about to broadcast is lost, as are the
\* requests it was serving.
GatewayStops ==
    /\ connection' = "closed" /\ room' = {} /\ asked' = {} /\ emits' = {}
    /\ page' = [p \in Page |-> NoPage]
    /\ NotHeard(emits \union {New(m) : m \in Wanted(Page)})
    /\ UNCHANGED <<rowVars, current, list, listedNew, strays, inDoubt>>

(***************************************************************************)
(* The client                                                              *)
(***************************************************************************)
Moves(c) ==
    {[event |-> "join", of |-> c]}
        \union {[event |-> "leave", of |-> k] : k \in {current} \ {NoConversation}}

\* Changes that no answer and no announcement still under way is older than do
\* not matter to a list that is read anew.
SelectConversation(c, p) ==
    /\ page[p] = NoPage /\ Cardinality(asked) <= MaxAsked
    /\ asked' = IF connection = "closed" THEN asked ELSE asked \union Moves(c)
    /\ current' = c /\ list' = {} /\ listedNew' = {}
    /\ page' = [page EXCEPT ![p] = [NoPage EXCEPT !.at = "asked", !.of = c]]
    /\ missed' = {e \in missed : Overtakes(e)} /\ strays' = {}
    /\ inDoubt' = ([event |-> "leave", of |-> c] \in asked')
    /\ UNCHANGED <<rowVars, emits, connection, room>>

\* The query of getMessages.
AnswerPage(p) ==
    /\ page[p].at = "asked"
    /\ page' = [page EXCEPT ![p] =
                    [@ EXCEPT !.at = "answered", !.new = changed,
                              !.data = {m \in RoomMessage \ removed : thread[m] = page[p].of}]]
    /\ UNCHANGED <<rowVars, emits, roomSocketVars, current, list, listedNew, roomHistory>>

\* Whatever the client looks at by now, the messages are appended to its list;
\* those it lists already stay as they are.
ShowPage(p) ==
    LET shown == page[p].data \ list IN
    /\ page[p].at = "answered"
    /\ page' = [page EXCEPT ![p] = NoPage]
    /\ list' = list \union shown
    /\ listedNew' = listedNew \union (shown \intersect page[p].new)
    /\ strays' = IF page[p].of = current THEN strays ELSE strays \union shown
    /\ UNCHANGED <<rowVars, emits, roomSocketVars, current, missed, inDoubt>>

\* The client leaves its list as it is.
PageFails(p) ==
    /\ page[p].at = "asked"
    /\ page' = [page EXCEPT ![p] = NoPage]
    /\ NotHeard({New(m) : m \in Wanted({p})})
    /\ UNCHANGED <<rowVars, emits, roomSocketVars, current, list, listedNew, strays, inDoubt>>

RoomsNext ==
    \/ \E m \in RoomMessage :
           \/ \E c \in Conversation : CommitNew(m, c)
           \/ CommitEdit(m) \/ CommitDeletion(m) \/ DeleteOverHttp(m)
    \/ \E e \in Event : Broadcast(e)
    \/ OpenSocket \/ JoinAllRooms \/ CloseSocket \/ GatewayStops
    \/ \E c \in Conversation :
           \/ JoinRoom(c) \/ LeaveRoom(c)
           \/ \E p \in Page : SelectConversation(c, p)
    \/ \E p \in Page : AnswerPage(p) \/ ShowPage(p) \/ PageFails(p)

-----------------------------------------------------------------------------
RoomsTypeOK ==
    /\ thread \in [RoomMessage -> Conversation \union {NoConversation}]
    /\ removed \subseteq RoomMessage /\ changed \subseteq RoomMessage
    /\ emits \subseteq Event /\ missed \subseteq Event
    /\ connection \in {"closed", "admitting", "open"}
    /\ room \subseteq Conversation
    /\ asked \subseteq [event : {"join", "leave"}, of : Conversation]
    /\ current \in Conversation \union {NoConversation}
    /\ page \in [Page -> [at : {"none", "asked", "answered"},
                          of : Conversation \union {NoConversation},
                          data : SUBSET RoomMessage, new : SUBSET RoomMessage]]
    /\ listedNew \subseteq list /\ strays \subseteq list /\ list \subseteq RoomMessage
    /\ inDoubt \in BOOLEAN

\* Once no answer and no broadcast is under way, the client lists the messages
\* of the conversation it looks at that are not deleted, each with its last text,
\* and nothing else, apart from what a broadcast it missed would have told it.
ListIsThread ==
    emits = {} /\ (\A p \in Page : page[p] = NoPage) =>
        /\ \A m \in RoomMessage :
               thread[m] = current /\ current # NoConversation /\ m \notin removed =>
                   m \in list \/ New(m) \in missed
        /\ \A m \in list \ strays :
               /\ thread[m] = current
               /\ m \in removed => Deleted(m) \in missed
               /\ m \in changed \ listedNew => Edited(m) \in missed

\* A client whose socket is open is in the room of the conversation it looks at
\* once its joins and leaves are over, so that it misses nothing from then on,
\* unless it came back to a conversation while still leaving it, or was refused.
InItsRoom ==
    connection = "open" /\ asked = {} /\ current # NoConversation /\ ~inDoubt => current \in room

RoomShowsThread == ListIsThread /\ InItsRoom
=============================================================================
