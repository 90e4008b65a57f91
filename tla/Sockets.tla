-------------------------------- MODULE Sockets --------------------------------
(***************************************************************************)
(* What the two WebSocket gateways remember about one user                 *)
(* (conversation.gateway.ts and auction.gateway.ts): the sockets the user  *)
(* has open, whether the user is online and what the others have been told *)
(* of that, and the auctions the user follows.                             *)
(*                                                                         *)
(* Handlers of one process run until they await something.  A socket may   *)
(* close at any time, also while the handler that admits it is waiting for *)
(* the database; handleDisconnect then knows nothing of it yet.            *)
(***************************************************************************)
EXTENDS FiniteSets

CONSTANTS
    ChatSocket,     \* the user's sockets in the conversation namespace
    AuctionSocket,  \* and in the auction namespace
    Auction

VARIABLES
    \* where each chat socket's handleConnection is, and the sockets that closed
    handler, closed,
    \* the conversation gateway: the sockets, whether the user is online, the
    \* sockets whose user was offline before, the disconnects about to be told
    userSockets, online, firstOne, leaving,
    \* the last user_presence that was broadcast to the others
    shown,
    \* the auction gateway: where each of its sockets is, joins under way, the user
    \* in the rooms of the auctions, and the auctions of the user
    auctionHandler, joining, auctionRooms, userAuctions,
    \* history: sockets admitted after they had closed; an online and an offline
    \* broadcast under way at once, or one that failed; joins ended after the user left
    ghosts, crossed, lateJoin

chatVars == <<handler, closed, userSockets, online, firstOne, leaving, shown, ghosts, crossed>>
auctionVars == <<auctionHandler, joining, auctionRooms, userAuctions, lateJoin>>
socketVars == <<chatVars, auctionVars>>

SocketsInit ==
    /\ handler = [s \in ChatSocket |-> "none"] /\ closed = {}
    /\ userSockets = {} /\ online = FALSE /\ firstOne = {} /\ leaving = {}
    /\ shown = FALSE
    /\ auctionHandler = [s \in AuctionSocket |-> "none"] /\ joining = {}
    /\ auctionRooms = {} /\ userAuctions = {}
    /\ ghosts = {} /\ crossed = FALSE /\ lateJoin = FALSE

(***************************************************************************)
(* Being online                                                            *)
(***************************************************************************)
Continue(s, pc) == handler' = [handler EXCEPT ![s] = pc]

\* Broadcasts that wait for the list of conversations.
Announcing == \E s \in firstOne : handler[s] = "joining"

\* handleConnection verifies the token and looks up the session...
Connect(s) ==
    /\ handler[s] = "none"
    /\ Continue(s, "checking")
    /\ UNCHANGED <<closed, userSockets, online, firstOne, leaving, shown, ghosts, crossed>>

\* ...which may be over, and then disconnects the socket...
Refuse(s) ==
    /\ handler[s] = "checking"
    /\ Continue(s, "done")
    /\ closed' = closed \union {s}
    /\ UNCHANGED <<userSockets, online, firstOne, leaving, shown, ghosts, crossed>>

\* ...registers the socket and asks for the user's conversations...
Admit(s) ==
    /\ handler[s] = "checking"
    /\ Continue(s, "joining")
    /\ userSockets' = userSockets \union {s}
    /\ firstOne' = IF online THEN firstOne ELSE firstOne \union {s}
    /\ online' = TRUE
    /\ ghosts' = IF s \in closed THEN ghosts \union {s} ELSE ghosts
    /\ crossed' = (crossed \/ (~online /\ leaving # {}))
    /\ UNCHANGED <<closed, leaving, shown>>

\* handleDisconnect, up to its await.
FaultStillOnline(sockets) == FALSE
StillOnline(sockets) == sockets # {}

Drop(s) ==
    LET leaves == s \in userSockets /\ ~StillOnline(userSockets \ {s}) IN
    /\ s \notin closed
    /\ closed' = closed \union {s}
    /\ userSockets' = userSockets \ {s}
    /\ online' = (online /\ ~leaves)
    /\ leaving' = IF leaves THEN leaving \union {s} ELSE leaving
    /\ UNCHANGED <<firstOne, shown, ghosts>>

Disconnect(s) ==
    /\ handler[s] # "none"
    /\ Drop(s)
    /\ crossed' = (crossed \/ (online /\ ~online' /\ Announcing))
    /\ UNCHANGED handler

\* ...and joins their rooms, and tells them that the user came.
Join(s) ==
    /\ handler[s] = "joining"
    /\ Continue(s, "done")
    /\ shown' = (s \in firstOne \/ shown)
    /\ UNCHANGED <<closed, userSockets, online, firstOne, leaving, ghosts, crossed>>

\* When the query fails the socket is disconnected, and whoever came with it has
\* not been announced.
JoinFails(s) ==
    /\ handler[s] = "joining"
    /\ Continue(s, "done")
    /\ crossed' = TRUE
    /\ IF s \in closed
       THEN UNCHANGED <<closed, userSockets, online, firstOne, leaving, shown, ghosts>>
       ELSE Drop(s)

\* The conversations are there, or the query fails and nobody is told.
TellOffline(s) ==
    /\ s \in leaving
    /\ leaving' = leaving \ {s}
    /\ \/ shown' = FALSE /\ UNCHANGED crossed
       \/ crossed' = TRUE /\ UNCHANGED shown
    /\ UNCHANGED <<handler, closed, userSockets, online, firstOne, ghosts>>

(***************************************************************************)
(* Following auctions                                                      *)
(***************************************************************************)
AuctionGoes(s, from, to) ==
    /\ auctionHandler[s] = from
    /\ auctionHandler' = [auctionHandler EXCEPT ![s] = to]

OpenSockets == {s \in AuctionSocket : auctionHandler[s] = "open"}

\* This gateway too looks the session up before it registers the socket.  One
\* that closes meanwhile is registered for good, as a ghost.
ConnectAuction(s) ==
    /\ AuctionGoes(s, "none", "checking")
    /\ UNCHANGED <<joining, auctionRooms, userAuctions, lateJoin>>

RefuseAuction(s) ==
    /\ AuctionGoes(s, "checking", "none") \/ AuctionGoes(s, "gone", "none")
    /\ UNCHANGED <<joining, auctionRooms, userAuctions, lateJoin>>

AdmitAuction(s) ==
    /\ AuctionGoes(s, "checking", "open") \/ AuctionGoes(s, "gone", "ghost")
    /\ UNCHANGED <<joining, auctionRooms, userAuctions, lateJoin>>

\* handleJoinAuction awaits the room before it notes who is in it.
JoinAuction(s, a) ==
    /\ s \in OpenSockets
    /\ joining' = joining \union {<<s, a>>}
    /\ UNCHANGED <<auctionHandler, auctionRooms, userAuctions, lateJoin>>

JoinedAuction(s, a) ==
    /\ <<s, a>> \in joining
    /\ joining' = joining \ {<<s, a>>}
    /\ auctionRooms' = auctionRooms \union {a}
    /\ userAuctions' = userAuctions \union {a}
    /\ lateJoin' = (lateJoin \/ OpenSockets = {})
    /\ UNCHANGED auctionHandler

LeaveAuction(s, a) ==
    /\ s \in OpenSockets
    /\ auctionRooms' = auctionRooms \ {a}
    /\ userAuctions' = userAuctions \ {a}
    /\ UNCHANGED <<auctionHandler, joining, lateJoin>>

\* One socket that closes takes the user out of all rooms, whatever other sockets
\* the user has.
FaultRoomsLeft == auctionRooms \ {a \in userAuctions : OpenSockets = {}}
RoomsLeft == auctionRooms \ userAuctions

DisconnectAuction(s) ==
    /\ AuctionGoes(s, "open", "none")
    /\ auctionRooms' = RoomsLeft
    /\ userAuctions' = {}
    /\ UNCHANGED <<joining, lateJoin>>

\* handleDisconnect knows nothing of a socket that has no user yet.
CloseUnknown(s) ==
    /\ AuctionGoes(s, "checking", "gone")
    /\ UNCHANGED <<joining, auctionRooms, userAuctions, lateJoin>>

-----------------------------------------------------------------------------
ChatGateway ==
    /\ \E s \in ChatSocket :
           \/ Connect(s) \/ Refuse(s) \/ Admit(s) \/ Join(s) \/ JoinFails(s)
           \/ Disconnect(s) \/ TellOffline(s)
    /\ UNCHANGED auctionVars

AuctionGateway ==
    /\ \E s \in AuctionSocket :
           \/ ConnectAuction(s) \/ RefuseAuction(s) \/ AdmitAuction(s)
           \/ DisconnectAuction(s) \/ CloseUnknown(s)
           \/ \E a \in Auction :
                  JoinAuction(s, a) \/ JoinedAuction(s, a) \/ LeaveAuction(s, a)
    /\ UNCHANGED chatVars

SocketsNext == ChatGateway \/ AuctionGateway

-----------------------------------------------------------------------------
SocketsTypeOK ==
    /\ handler \in [ChatSocket -> {"none", "checking", "joining", "done"}]
    /\ closed \subseteq ChatSocket /\ userSockets \subseteq ChatSocket
    /\ online \in BOOLEAN /\ shown \in BOOLEAN
    /\ leaving \subseteq closed
    /\ auctionHandler \in [AuctionSocket -> {"none", "checking", "open", "gone", "ghost"}]
    /\ joining \subseteq AuctionSocket \X Auction

\* The user is online exactly while a socket is registered, and every socket that
\* was admitted and is open is: closing one never takes the user offline while
\* another is there.  Sockets that closed before they were admitted stay for good.
OnlineWhileConnected ==
    /\ online <=> userSockets # {}
    /\ \A s \in ChatSocket :
           s \in userSockets <=> /\ handler[s] \in {"joining", "done"}
                                 /\ s \notin closed \/ s \in ghosts

\* The others are told: once no broadcast is under way, what was broadcast last is
\* true, unless an online and an offline broadcast crossed or one could not be made.
OthersAreTold == crossed \/ Announcing \/ leaving # {} \/ shown = online

\* An auction's room holds no user who does not follow it, so that a disconnect
\* empties them all: a user without an open socket is in no room, unless a join
\* ended after the last one was gone.
RoomsAreLeft ==
    /\ auctionRooms \subseteq userAuctions
    /\ OpenSockets = {} /\ ~lateJoin => auctionRooms = {}

Presence == OnlineWhileConnected /\ OthersAreTold /\ RoomsAreLeft
=============================================================================
