---------------------------- MODULE AccountsProofs -----------------------------
(***************************************************************************)
(* Proofs about the parts of MCAccounts.  The parts have no state in       *)
(* common, so that a step of the whole is a step of one part or leaves it  *)
(* alone (PartsAlone), and each part has an inductive invariant of its     *)
(* own.                                                                    *)
(***************************************************************************)
EXTENDS MCAccounts, FiniteSetTheorems, TLAPS

(***************************************************************************)
(* The inductive invariant of the chat and auction gateways.  What         *)
(* Presence leaves open is where a socket can be that was admitted after   *)
(* it had closed, and that a broadcast under way, as long as none crossed, *)
(* tells what is so.                                                       *)
(***************************************************************************)
GhostsWereAdmitted ==
    /\ ghosts \subseteq closed /\ firstOne \subseteq ChatSocket
    /\ \A s \in ChatSocket : /\ handler[s] \in {"none", "checking"} => s \notin ghosts
                             /\ handler[s] = "none" => s \notin closed

BroadcastsAreTrue ==
    /\ ~crossed /\ Announcing => online
    /\ ~crossed /\ leaving # {} => ~online

SocketsInv == SocketsTypeOK /\ Presence /\ GhostsWereAdmitted /\ BroadcastsAreTrue

(***************************************************************************)
(* The inductive invariant of the channels: each place of a request says   *)
(* what it has left in the storage and the database.                       *)
(***************************************************************************)
BreakerState == [state : {"closed", "open", "half-open"},
                 failures : 0..Threshold, age : 0..(Timeout + 1)]
ChannelPlace == [at : Answered \union Working, attempt : 1..MaxAttempts, held : Token \union {NoToken}]

CallFits(c) ==
    /\ call[c].at = "saved" => c \in rows /\ c \in objects
    /\ call[c].at \in Refused => c \notin rows \/ c \in lost
    /\ call[c].at \in {"uploading", "saving"} => c \notin rows
    /\ call[c].at = "cleaning" => c \notin rows \/ c \in lost
    /\ call[c].at \in {"uploading", "saving", "cleaning"} => service = "storage"
    /\ call[c].at = "saving" => c \in objects
    /\ call[c].at \in {"starting", "logging in", "sending"} => service = "sms"

FilesInv ==
    /\ rows \ objects \subseteq lost
    /\ objects \subseteq Call /\ rows \subseteq Call /\ lost \subseteq Call
    /\ service = "sms" => rows = {}
    /\ \A c \in Call : CallFits(c)

ChannelsInv == ChannelsTypeOK /\ FilesInv

(***************************************************************************)
(* The inductive invariant of the names.  What a handler found when it     *)
(* checked the name stays true of those rows: nothing had the name, or,    *)
(* among conditions and sizes, rows that are deleted for good.  A handler  *)
(* that names a deleted user is one that the deletion has noted.           *)
(***************************************************************************)
NamingPlaces == {"checking", "code", "writing", "checking again"}
NamingRecord == [at : NamingPlaces, row : Row, name : Name, seen : SUBSET Row]

RowsInv ==
    /\ table \in Tables
    /\ rowState \in [Row -> {"none", "live", "deleted"}]
    /\ nameOf \in [Row -> Name \union {NoName, Freed}]
    /\ \A x \in Row : nameOf[x] # Freed => Having(nameOf[x]) = {x} \/ nameOf[x] = NoName
    /\ lateNames \subseteq Row
    /\ \A x \in Row : rowState[x] = "none" => nameOf[x] = NoName
    /\ \A x \in Row : table \in Users /\ rowState[x] = "deleted" =>
           nameOf[x] \in {NoName, Freed} \/ x \in lateNames

WriterFits(r) ==
    LET q == naming[r] IN
    /\ q.at \in {"code", "writing", "checking again"} =>
           \A y \in q.seen \ {q.row} : table \in Labels /\ rowState[y] = "deleted"
    /\ q.at = "refused" => q.by = "race" \/ (q.by = "deleted row" /\ table \in Labels)
    /\ table \in Users /\ q.at \in NamingPlaces =>
           rowState[q.row] # "deleted" \/ q.row \in lateNames

NamesInv == RowsInv /\ naming \in [Writer -> NamingState] /\ \A r \in Writer : WriterFits(r)

(***************************************************************************)
(* The inductive invariant of the sessions.  A device holds the session    *)
(* when it has its tokens, or when a login that no other has overtaken is  *)
(* about to give them to it; there is one such device at most, because     *)
(* every login raises the version in the statement that begins it.  A      *)
(* refresh brings nothing back: where the version it has read is still the *)
(* account's, its device has that version already.                         *)
(***************************************************************************)
CarryingPlaces == {"clear", "issue", "reissue"}

KnowsVersion(r) ==
    /\ req[r].pc \in CarryingPlaces => req[r].version <= version
    /\ req[r].pc = "reissue" /\ req[r].version = version => token[req[r].device] = version

NoAccountYet ==
    account = "none" =>
        /\ version = 0 /\ byTelegram = {} /\ \A d \in Device : token[d] = -1
        /\ \A r \in Request : req[r].pc \notin CarryingPlaces

Awaits(r, d) == req[r].pc \in {"clear", "issue"} /\ req[r].device = d /\ req[r].version = version
Holds(d) == (Current(d) /\ d \notin byTelegram) \/ \E r \in Request : Awaits(r, d)
OneHolder == \A c, d \in Device : Holds(c) /\ Holds(d) => c = d

SessionsCore == (\A r \in Request : KnowsVersion(r)) /\ NoAccountYet /\ OneHolder
SessionsInv == SessionsTypeOK /\ SessionsCore /\ TokensEndWithSession

-----------------------------------------------------------------------------
LEMMA PartsAlone ==
    ASSUME [Next]_<<partVars, part>>
    PROVE  /\ [SessionsNext]_sessionVars /\ [SocketsNext]_socketVars /\ [NamesNext]_nameVars
           /\ [ChannelsNext]_channelVars /\ [InboxNext]_inboxVars
           /\ [RoomsNext]_roomVars /\ [MailboxNext]_mailVars /\ part' = part
  BY DEF Next, Only, Keep, partVars, SocketsNext, InboxNext

-----------------------------------------------------------------------------
(***************************************************************************)
(* The gateways.                                                           *)
(***************************************************************************)
LEMMA SocketsInvInit == SocketsInit => SocketsInv
  BY DEF SocketsInit, SocketsInv, SocketsTypeOK, Presence, OpenSockets, OnlineWhileConnected, OthersAreTold,
         RoomsAreLeft, GhostsWereAdmitted, BroadcastsAreTrue, Announcing

ChatInv ==
    /\ OnlineWhileConnected /\ OthersAreTold /\ GhostsWereAdmitted /\ BroadcastsAreTrue

\* A socket that goes, with or without the handler that admits it.
LEMMA DropKeeps ==
    ASSUME SocketsTypeOK, ChatInv, NEW s \in ChatSocket, Drop(s), handler[s] # "none",
           \/ UNCHANGED handler /\ crossed' = (crossed \/ (online /\ ~online' /\ Announcing))
           \/ handler[s] = "joining" /\ Continue(s, "done") /\ crossed' = TRUE
    PROVE  ChatInv'
<1>1. ChatInv /\ handler \in [ChatSocket -> {"none", "checking", "joining", "done"}]
      /\ leaving \subseteq closed /\ closed \subseteq ChatSocket /\ userSockets \subseteq ChatSocket
  BY DEF SocketsTypeOK
<1>2. /\ closed' = closed \union {s} /\ userSockets' = userSockets \ {s} /\ s \notin closed
      /\ UNCHANGED <<firstOne, shown, ghosts>>
  BY DEF Drop
<1>3. \A t \in ChatSocket \ {s} : handler'[t] = handler[t]
  BY <1>1 DEF Continue
<1>4. handler'[s] = handler[s] \/ (handler[s] = "joining" /\ handler'[s] = "done")
  BY <1>1 DEF Continue
<1>5. GhostsWereAdmitted'
  BY <1>1, <1>2, <1>3, <1>4 DEF ChatInv, GhostsWereAdmitted
<1>6. OnlineWhileConnected'
  <2>1. online' <=> userSockets' # {}
    BY <1>1, <1>2 DEF Drop, StillOnline, ChatInv, OnlineWhileConnected
  <2>2. s \notin ghosts
    BY <1>1, <1>2 DEF ChatInv, GhostsWereAdmitted
  <2> QED
    BY <1>1, <1>2, <1>3, <1>4, <2>1, <2>2 DEF ChatInv, OnlineWhileConnected
<1>7. OthersAreTold' /\ BroadcastsAreTrue'
  <2>1. CASE crossed'
    BY <2>1 DEF OthersAreTold, BroadcastsAreTrue
  <2>2. CASE ~crossed'
    <3>1. /\ ~crossed /\ UNCHANGED handler /\ ~(online /\ ~online' /\ Announcing)
          /\ Announcing' = Announcing
      BY <1>2, <2>2 DEF Announcing
    <3>2. CASE s \in userSockets /\ ~StillOnline(userSockets \ {s})
      <4>1. online /\ ~online' /\ leaving' # {} /\ ~Announcing
        BY <1>1, <3>1, <3>2 DEF Drop, OnlineWhileConnected, ChatInv
      <4> QED
        BY <3>1, <4>1 DEF OthersAreTold, BroadcastsAreTrue
    <3>3. CASE ~(s \in userSockets /\ ~StillOnline(userSockets \ {s}))
      <4>1. online' = online /\ leaving' = leaving /\ shown' = shown
        BY <3>3, <1>1, <1>2 DEF Drop, OnlineWhileConnected, ChatInv, SocketsTypeOK
      <4> QED
        BY <1>1, <2>2, <3>1, <4>1 DEF ChatInv, OthersAreTold, BroadcastsAreTrue
    <3> QED
      BY <3>2, <3>3
  <2> QED
    BY <2>1, <2>2
<1> QED
  BY <1>5, <1>6, <1>7 DEF ChatInv

LEMMA ChatGatewayKeeps ==
    ASSUME SocketsTypeOK, ChatInv, ChatGateway
    PROVE  SocketsTypeOK' /\ ChatInv'
<1>1. PICK s \in ChatSocket :
          \/ Connect(s) \/ Refuse(s) \/ Admit(s) \/ Join(s) \/ JoinFails(s)
          \/ Disconnect(s) \/ TellOffline(s)
  BY DEF ChatGateway
<1>2. /\ handler \in [ChatSocket -> {"none", "checking", "joining", "done"}]
      /\ closed \subseteq ChatSocket /\ userSockets \subseteq ChatSocket
      /\ online \in BOOLEAN /\ shown \in BOOLEAN /\ leaving \subseteq closed
      /\ UNCHANGED auctionVars
  BY DEF SocketsTypeOK, ChatGateway
<1>3. SocketsTypeOK'
  <2>1. handler' \in [ChatSocket -> {"none", "checking", "joining", "done"}]
    BY <1>1, <1>2 DEF Connect, Refuse, Admit, Join, JoinFails, Disconnect, TellOffline, Continue,
                      Drop
  <2>2. /\ closed' \subseteq ChatSocket /\ userSockets' \subseteq ChatSocket
        /\ leaving' \subseteq closed'
    BY <1>1, <1>2 DEF Connect, Refuse, Admit, Join, JoinFails, Disconnect, TellOffline, Continue,
                      Drop
  <2>3. online' \in BOOLEAN /\ shown' \in BOOLEAN
    BY <1>1, <1>2 DEF Connect, Refuse, Admit, Join, JoinFails, Disconnect, TellOffline, Continue,
                      Drop
  <2> QED
    BY <1>2, <2>1, <2>2, <2>3 DEF SocketsTypeOK, auctionVars
<1>4. CASE Connect(s) \/ Refuse(s)
  <2>1. /\ \A t \in ChatSocket \ {s} : handler'[t] = handler[t]
        /\ \/ handler[s] = "none" /\ handler'[s] = "checking" /\ UNCHANGED closed
           \/ handler[s] = "checking" /\ handler'[s] = "done" /\ closed' = closed \union {s}
        /\ UNCHANGED <<userSockets, online, firstOne, leaving, shown, ghosts, crossed>>
    BY <1>2, <1>4 DEF Connect, Refuse, Continue
  <2>2. GhostsWereAdmitted'
    BY <1>2, <2>1 DEF ChatInv, GhostsWereAdmitted
  <2>3. OnlineWhileConnected'
    BY <1>2, <2>1 DEF ChatInv, GhostsWereAdmitted, OnlineWhileConnected
  <2>4. Announcing' <=> Announcing
    BY <1>2, <2>1 DEF Announcing, ChatInv, GhostsWereAdmitted
  <2>5. OthersAreTold' /\ BroadcastsAreTrue'
    BY <2>1, <2>4 DEF ChatInv, OthersAreTold, BroadcastsAreTrue
  <2> QED
    BY <1>3, <2>2, <2>3, <2>5 DEF ChatInv
<1>5. CASE Admit(s)
  <2>1. /\ \A t \in ChatSocket \ {s} : handler'[t] = handler[t]
        /\ handler[s] = "checking" /\ handler'[s] = "joining" /\ UNCHANGED <<closed, leaving, shown>>
        /\ userSockets' = userSockets \union {s} /\ online' = TRUE
        /\ firstOne' = (IF online THEN firstOne ELSE firstOne \union {s})
        /\ ghosts' = (IF s \in closed THEN ghosts \union {s} ELSE ghosts)
        /\ crossed' = (crossed \/ (~online /\ leaving # {}))
    BY <1>2, <1>5 DEF Admit, Continue
  <2>2. GhostsWereAdmitted'
    BY <1>2, <2>1 DEF ChatInv, GhostsWereAdmitted
  <2>3. OnlineWhileConnected'
    BY <1>2, <2>1 DEF ChatInv, GhostsWereAdmitted, OnlineWhileConnected
  <2>4. CASE crossed'
    BY <1>3, <2>4, <2>2, <2>3 DEF ChatInv, OthersAreTold, BroadcastsAreTrue
  <2>5. CASE ~crossed'
    <3>1. ~crossed /\ (online \/ leaving = {})
      BY <2>1, <2>5
    <3>2. leaving' = {}
      BY <2>1, <3>1 DEF ChatInv, BroadcastsAreTrue
    <3>3. BroadcastsAreTrue'
      BY <2>1, <3>2 DEF BroadcastsAreTrue
    <3>4. OthersAreTold'
      <4>1. CASE online
        <5>1. Announcing => Announcing'
          BY <1>2, <2>1, <4>1 DEF Announcing, ChatInv, GhostsWereAdmitted
        <5> QED
          BY <2>1, <3>1, <3>2, <4>1, <5>1 DEF ChatInv, OthersAreTold
      <4>2. CASE ~online
        <5>1. Announcing'
          BY <2>1, <4>2 DEF Announcing
        <5> QED
          BY <5>1 DEF OthersAreTold
      <4> QED
        BY <4>1, <4>2
    <3> QED
      BY <1>3, <2>2, <2>3, <3>3, <3>4 DEF ChatInv
  <2> QED
    BY <2>4, <2>5
<1>6. CASE Join(s)
  <2>1. /\ \A t \in ChatSocket \ {s} : handler'[t] = handler[t]
        /\ handler[s] = "joining" /\ handler'[s] = "done" /\ shown' = (s \in firstOne \/ shown)
        /\ UNCHANGED <<closed, userSockets, online, firstOne, leaving, ghosts, crossed>>
    BY <1>2, <1>6 DEF Join, Continue
  <2>2. GhostsWereAdmitted'
    BY <1>2, <2>1 DEF ChatInv, GhostsWereAdmitted
  <2>3. OnlineWhileConnected'
    BY <1>2, <2>1 DEF ChatInv, GhostsWereAdmitted, OnlineWhileConnected
  <2>4. Announcing' => Announcing
    BY <1>2, <2>1 DEF Announcing, ChatInv, GhostsWereAdmitted
  <2>5. Announcing => Announcing' \/ s \in firstOne
    BY <1>2, <2>1 DEF Announcing, ChatInv, GhostsWereAdmitted
  <2>6. s \in firstOne => Announcing
    BY <2>1 DEF Announcing
  <2>7. OthersAreTold' /\ BroadcastsAreTrue'
    BY <1>2, <2>1, <2>4, <2>5, <2>6 DEF ChatInv, OthersAreTold, BroadcastsAreTrue
  <2> QED
    BY <1>3, <2>2, <2>3, <2>7 DEF ChatInv
<1>7. CASE JoinFails(s)
  <2>1. CASE s \notin closed
    <3>1. Drop(s) /\ handler[s] = "joining" /\ Continue(s, "done") /\ crossed' = TRUE
      BY <1>7, <2>1 DEF JoinFails
    <3> QED
      BY <1>3, <3>1, DropKeeps
  <2>2. CASE s \in closed
    <3>1. /\ \A t \in ChatSocket \ {s} : handler'[t] = handler[t]
          /\ handler[s] = "joining" /\ handler'[s] = "done" /\ crossed' = TRUE
          /\ UNCHANGED <<closed, userSockets, online, firstOne, leaving, shown, ghosts>>
      BY <1>2, <1>7, <2>2 DEF JoinFails, Continue
    <3>2. GhostsWereAdmitted'
      BY <1>2, <3>1 DEF ChatInv, GhostsWereAdmitted
    <3>3. OnlineWhileConnected'
      BY <1>2, <3>1 DEF ChatInv, GhostsWereAdmitted, OnlineWhileConnected
    <3> QED
      BY <1>3, <3>1, <3>2, <3>3 DEF ChatInv, OthersAreTold, BroadcastsAreTrue
  <2> QED
    BY <1>3, <2>1, <2>2
<1>8. CASE Disconnect(s)
  <2>1. /\ Drop(s) /\ handler[s] # "none" /\ UNCHANGED handler
        /\ crossed' = (crossed \/ (online /\ ~online' /\ Announcing))
    BY <1>8 DEF Disconnect
  <2> QED
    BY <1>3, <2>1, DropKeeps
<1>9. CASE TellOffline(s)
  <2>1. /\ s \in leaving /\ leaving' = leaving \ {s}
        /\ (shown' = FALSE /\ crossed' = crossed) \/ crossed' = TRUE
        /\ UNCHANGED <<handler, closed, userSockets, online, firstOne, ghosts>>
    BY <1>9 DEF TellOffline
  <2>2. GhostsWereAdmitted' /\ OnlineWhileConnected' /\ Announcing' = Announcing
    BY <2>1 DEF ChatInv, GhostsWereAdmitted, OnlineWhileConnected, Announcing
  <2>3. CASE crossed'
    BY <1>3, <2>2, <2>3 DEF ChatInv, OthersAreTold, BroadcastsAreTrue
  <2>4. CASE ~crossed'
    <3>1. ~crossed /\ leaving # {} /\ shown' = FALSE
      BY <2>1, <2>4
    <3>2. ~online /\ ~online'
      BY <2>1, <3>1 DEF ChatInv, BroadcastsAreTrue
    <3>3. ~Announcing'
      BY <2>2, <3>1, <3>2 DEF ChatInv, BroadcastsAreTrue
    <3>4. OthersAreTold' /\ BroadcastsAreTrue'
      BY <1>2, <2>1, <3>1, <3>2, <3>3 DEF OthersAreTold, BroadcastsAreTrue
    <3> QED
      BY <1>3, <2>2, <3>4 DEF ChatInv
  <2> QED
    BY <2>3, <2>4
<1> QED
  BY <1>1, <1>3, <1>4, <1>5, <1>6, <1>7, <1>8, <1>9

LEMMA AuctionGatewayKeeps ==
    ASSUME SocketsTypeOK, RoomsAreLeft, AuctionGateway
    PROVE  SocketsTypeOK' /\ RoomsAreLeft'
<1>1. PICK s \in AuctionSocket :
          \/ ConnectAuction(s) \/ RefuseAuction(s) \/ AdmitAuction(s)
          \/ DisconnectAuction(s) \/ CloseUnknown(s)
          \/ \E a \in Auction : JoinAuction(s, a) \/ JoinedAuction(s, a) \/ LeaveAuction(s, a)
  BY DEF AuctionGateway
<1>2. UNCHANGED chatVars
  BY DEF AuctionGateway
<1>3. SocketsTypeOK'
  <2>1. auctionHandler' \in [AuctionSocket -> {"none", "checking", "open", "gone", "ghost"}]
    BY <1>1 DEF SocketsTypeOK, ConnectAuction, RefuseAuction, AdmitAuction, DisconnectAuction,
                CloseUnknown, AuctionGoes, JoinAuction, JoinedAuction, LeaveAuction
  <2>2. joining' \subseteq AuctionSocket \X Auction
    <3>1. joining' \subseteq joining \/ \E a \in Auction : joining' = joining \union {<<s, a>>}
      BY <1>1 DEF ConnectAuction, RefuseAuction, AdmitAuction, DisconnectAuction, CloseUnknown,
                  JoinAuction, JoinedAuction, LeaveAuction
    <3> QED
      BY <3>1 DEF SocketsTypeOK
  <2> QED
    BY <1>2, <2>1, <2>2 DEF SocketsTypeOK, chatVars
<1>4. RoomsAreLeft'
  <2>1. CASE ConnectAuction(s) \/ RefuseAuction(s) \/ AdmitAuction(s) \/ CloseUnknown(s)
    <3>1. UNCHANGED <<auctionRooms, userAuctions, lateJoin>> /\ OpenSockets \subseteq OpenSockets'
      BY <2>1 DEF ConnectAuction, RefuseAuction, AdmitAuction, CloseUnknown, AuctionGoes, OpenSockets,
                  SocketsTypeOK
    <3> QED
      BY <3>1 DEF RoomsAreLeft
  <2>2. CASE DisconnectAuction(s)
    BY <2>2 DEF DisconnectAuction, RoomsAreLeft, RoomsLeft
  <2>3. CASE \E a \in Auction : JoinAuction(s, a) \/ JoinedAuction(s, a) \/ LeaveAuction(s, a)
    <3>1. UNCHANGED OpenSockets
      BY <2>3 DEF JoinAuction, JoinedAuction, LeaveAuction, OpenSockets
    <3> QED
      BY <2>3, <3>1 DEF RoomsAreLeft, JoinAuction, JoinedAuction, LeaveAuction
  <2> QED
    BY <1>1, <2>1, <2>2, <2>3
<1> QED
  BY <1>3, <1>4

LEMMA SocketsInvNext == ASSUME SocketsInv, [SocketsNext]_socketVars PROVE SocketsInv'
<1>1. SocketsInv <=> SocketsTypeOK /\ ChatInv /\ RoomsAreLeft
  BY DEF SocketsInv, ChatInv, Presence
<1>2. SocketsInv' <=> SocketsTypeOK' /\ ChatInv' /\ RoomsAreLeft'
  BY DEF SocketsInv, ChatInv, Presence
<1>3. CASE ChatGateway
  <2>1. RoomsAreLeft'
    BY <1>1, <1>3 DEF ChatGateway, auctionVars, RoomsAreLeft, OpenSockets
  <2> QED
    BY <1>1, <1>2, <1>3, <2>1, ChatGatewayKeeps
<1>4. CASE AuctionGateway
  <2>1. ChatInv'
    <3>1. UNCHANGED chatVars /\ ChatInv
      BY <1>1, <1>4 DEF AuctionGateway
    <3> QED
      BY <3>1 DEF ChatInv, chatVars, OnlineWhileConnected, OthersAreTold, GhostsWereAdmitted,
                  BroadcastsAreTrue, Announcing
  <2> QED
    BY <1>1, <1>2, <1>4, <2>1, AuctionGatewayKeeps
<1>5. CASE UNCHANGED socketVars
  <2>1. ChatInv' /\ RoomsAreLeft'
    BY <1>1, <1>5 DEF socketVars, auctionVars, ChatInv, chatVars, OnlineWhileConnected, OthersAreTold,
          GhostsWereAdmitted, BroadcastsAreTrue, Announcing, RoomsAreLeft, OpenSockets
  <2>2. SocketsTypeOK'
    BY <1>1, <1>5 DEF socketVars, auctionVars, chatVars, SocketsTypeOK
  <2> QED
    BY <1>2, <2>1, <2>2
<1> QED
  BY <1>3, <1>4, <1>5 DEF SocketsNext

-----------------------------------------------------------------------------
(***************************************************************************)
(* The channels.                                                           *)
(***************************************************************************)
LEMMA ChannelsInvInit == ChannelsInit => ChannelsInv
<1> SUFFICES ASSUME ChannelsInit PROVE ChannelsInv
  OBVIOUS
<1>1. ChannelsTypeOK
  BY ChannelsAssumption DEF ChannelsInit, ChannelsTypeOK, FreshBreaker, Answered
<1>2. FilesInv
  BY DEF ChannelsInit, FilesInv, CallFits, Refused
<1> QED
  BY <1>1, <1>2 DEF ChannelsInv

\* What can become of the breaker in one step.
BreakerMoves ==
    \/ UNCHANGED breaker
    \/ breaker' = Entered
    \/ breaker' = Succeeded
    \/ breaker' = Failed
    \/ breaker' = FreshBreaker
    \/ breaker.age <= Timeout /\ breaker' = [breaker EXCEPT !.age = @ + 1]

LEMMA EachStepMovesTheBreaker == ChannelsNext => BreakerMoves
<1> SUFFICES ASSUME ChannelsNext PROVE BreakerMoves
  OBVIOUS
<1>1. CASE Tick \/ TokensRejected \/ TokenExpires \/ ServerRestarts
  BY <1>1 DEF Tick, TokensRejected, TokenExpires, ServerRestarts, BreakerMoves
<1>2. CASE \E c \in Call : StartUpload(c) \/ SaveRow(c) \/ StartSend(c) \/ GetValidToken(c)
  BY <1>2 DEF StartUpload, SaveRow, StartSend, GetValidToken, BreakerMoves
<1>3. CASE \E c \in Call : UploadFile(c) \/ DeleteFile(c) \/ LogInToProvider(c) \/ SendMessage(c)
  BY <1>3 DEF UploadFile, DeleteFile, LogInToProvider, SendMessage, AttemptFails,
              AttemptSucceeds, BreakerMoves
<1> QED
  BY <1>1, <1>2, <1>3 DEF ChannelsNext

LEMMA BreakerKeepsItsType == ASSUME breaker \in BreakerState, BreakerMoves PROVE breaker' \in BreakerState
<1>1. PICK state \in {"closed", "open", "half-open"}, failures \in 0..Threshold,
           age \in 0..(Timeout + 1) :
              breaker = [state |-> state, failures |-> failures, age |-> age]
  BY DEF BreakerState
<1>2. Threshold \in Nat \ {0} /\ Timeout \in Nat
  BY ChannelsAssumption
<1>3. CASE breaker' = breaker
  BY <1>3
<1>4. CASE breaker' = Entered
  <2>1. breaker' = [state |-> IF state = "open" THEN "half-open" ELSE state,
                    failures |-> failures, age |-> age]
    BY <1>1, <1>4 DEF Entered
  <2> QED
    BY <2>1 DEF BreakerState
<1>5. CASE breaker' = Succeeded
  <2>1. breaker' = [state |-> IF state = "half-open" THEN "closed" ELSE state,
                    failures |-> 0, age |-> age]
    BY <1>1, <1>5 DEF Succeeded
  <2> QED
    BY <1>2, <2>1 DEF BreakerState
<1>6. CASE breaker' \in {Failed, FreshBreaker}
  BY <1>1, <1>2, <1>6 DEF BreakerState, Failed, Capped, FreshBreaker
<1>7. CASE breaker.age <= Timeout /\ breaker' = [breaker EXCEPT !.age = @ + 1]
  BY <1>1, <1>2, <1>7 DEF BreakerState
<1> QED
  BY <1>3, <1>4, <1>5, <1>6, <1>7 DEF BreakerMoves

\* A request goes on, and nothing is written but what belongs to it.
LEMMA OneCallMoves ==
    ASSUME ChannelsInv, NEW c \in Call, NEW state \in ChannelPlace,
           call' = [call EXCEPT ![c] = state],
           rows' \in {rows, rows \union {c}, rows \ {c}},
           objects' \in {objects, objects \union {c}, objects \ {c}},
           lost' \in {lost, lost \union {c}, lost \ {c}},
           c \in rows' => c \in objects' \/ c \in lost',
           service' = service, service = "sms" => rows' = rows, CallFits(c)'
    PROVE  FilesInv' /\ call' \in [Call -> ChannelPlace]
<1>1. call \in [Call -> ChannelPlace] /\ FilesInv
  BY DEF ChannelsInv, ChannelsTypeOK, ChannelPlace
<1>2. call' \in [Call -> ChannelPlace] /\ \A d \in Call \ {c} : call'[d] = call[d]
  BY <1>1
<1>3. /\ \A d \in Call \ {c} : /\ d \in rows' <=> d \in rows
                               /\ d \in objects' <=> d \in objects
                               /\ d \in lost' <=> d \in lost
      /\ rows' \subseteq Call /\ objects' \subseteq Call /\ lost' \subseteq Call
  BY <1>1 DEF FilesInv
<1>4. rows' \ objects' \subseteq lost'
  BY <1>1, <1>3 DEF FilesInv
<1>5. ASSUME NEW d \in Call \ {c} PROVE CallFits(d)'
  BY <1>1, <1>2, <1>3, <1>5 DEF FilesInv, CallFits
<1> QED
  BY <1>1, <1>2, <1>3, <1>4, <1>5 DEF FilesInv

\* Nothing is written, and each request stays where it is.
LEMMA CallsStay ==
    ASSUME ChannelsInv, UNCHANGED <<service, objects, rows, lost>>,
           \A c \in Call : call'[c].at = call[c].at
    PROVE  FilesInv'
<1>1. FilesInv
  BY DEF ChannelsInv
<1>2. ASSUME NEW c \in Call PROVE CallFits(c)'
  BY <1>1 DEF FilesInv, CallFits, Refused
<1> QED
  BY <1>1, <1>2 DEF FilesInv

\* Requests are interrupted, and what they had asked for may still take place.
LEMMA RestartKeeps ==
    ASSUME ChannelsInv, ServerRestarts
    PROVE  FilesInv' /\ call' \in [Call -> ChannelPlace]
<1>1. FilesInv /\ call \in [Call -> ChannelPlace]
  BY DEF ChannelsInv, ChannelsTypeOK, ChannelPlace
<1>2. ASSUME NEW c \in Call
      PROVE  /\ call'[c] \in ChannelPlace
             /\ IF call[c].at \in Working THEN call'[c].at = "interrupted" ELSE call'[c] = call[c]
  <2>1. call[c] \in ChannelPlace
    BY <1>1
  <2>2. call'[c] = IF call[c].at \in Working
                   THEN [at |-> "interrupted", attempt |-> 1, held |-> NoToken] ELSE call[c]
    BY DEF ServerRestarts
  <2> QED
    BY <2>1, <2>2, ChannelsAssumption DEF ChannelPlace, Answered
<1>3. call' = [c \in Call |-> call'[c]]
  BY DEF ServerRestarts
<1>4. call' \in [Call -> ChannelPlace]
  BY <1>2, <1>3
<1>5. PICK stored \in SUBSET Call, deleted \in SUBSET Call, inserted \in SUBSET Call :
          /\ \A c \in stored : call[c].at = "uploading"
          /\ \A c \in deleted : call[c].at = "cleaning"
          /\ \A c \in inserted : call[c].at = "saving"
          /\ objects' = (objects \union stored) \ deleted
          /\ rows' = rows \union inserted /\ lost' = lost \union inserted
          /\ service' = service
  BY DEF ServerRestarts, Asked
<1>6. rows' \ objects' \subseteq lost'
  BY <1>1, <1>5 DEF FilesInv, CallFits
<1>7. service = "sms" => rows' = {}
  BY <1>1, <1>5 DEF FilesInv, CallFits
<1>8. ASSUME NEW c \in Call PROVE CallFits(c)'
  <2>1. CASE call[c].at \in Working
    BY <1>2, <2>1 DEF CallFits, Refused
  <2>2. CASE call[c].at \notin Working
    <3>1. call'[c].at = call[c].at /\ c \notin stored /\ c \notin deleted /\ c \notin inserted
      BY <1>2, <1>5, <2>2 DEF Working
    <3>2. /\ c \in rows' <=> c \in rows
          /\ c \in lost' <=> c \in lost
          /\ c \in objects' <=> c \in objects
      BY <1>5, <3>1
    <3> QED
      BY <1>1, <1>5, <3>1, <3>2 DEF FilesInv, CallFits
  <2> QED
    BY <2>1, <2>2
<1> QED
  BY <1>1, <1>4, <1>5, <1>6, <1>7, <1>8 DEF FilesInv

\* The next place of a request whose attempt ended.
LEMMA AttemptEnds ==
    ASSUME ChannelsInv, NEW c \in Call, NEW again \in Working, NEW after \in Answered \union Working,
           AttemptFails(c, again, after) \/ AttemptSucceeds(c, after)
    PROVE  \E state \in ChannelPlace :
              call' = [call EXCEPT ![c] = state] /\ state.at \in {again, after}
<1>1. call[c] \in ChannelPlace /\ MaxAttempts \in Nat \ {0}
  BY ChannelsAssumption DEF ChannelsInv, ChannelsTypeOK, ChannelPlace
<1>2. CASE CallGoes(c, after)
  <2>1. PICK state : state = [at |-> after, attempt |-> 1, held |-> NoToken]
    OBVIOUS
  <2>2. state \in ChannelPlace /\ state.at = after
    BY <1>1, <2>1 DEF ChannelPlace
  <2> QED
    BY <1>2, <2>1, <2>2 DEF CallGoes
<1>3. CASE ~LastAttempt(c) /\ AttemptFails(c, again, after)
  <2>1. PICK state : state = [at |-> again, attempt |-> call[c].attempt + 1, held |-> NoToken]
    OBVIOUS
  <2>2. call[c].attempt \in 1..MaxAttempts /\ call[c].attempt # MaxAttempts
    BY <1>1, <1>3 DEF ChannelPlace, LastAttempt
  <2>3. call[c].attempt + 1 \in 1..MaxAttempts
    BY <1>1, <2>2
  <2>4. state \in ChannelPlace /\ state.at = again
    BY <2>1, <2>3 DEF ChannelPlace
  <2> QED
    BY <1>3, <2>1, <2>4 DEF AttemptFails
<1> QED
  BY <1>2, <1>3 DEF AttemptFails, AttemptSucceeds

LEMMA GoesTo ==
    ASSUME ChannelsInv, NEW c \in Call, NEW place \in Answered \union Working, CallGoes(c, place)
    PROVE  \E state \in ChannelPlace : call' = [call EXCEPT ![c] = state] /\ state.at = place
<1>1. PICK state : state = [at |-> place, attempt |-> 1, held |-> NoToken]
  OBVIOUS
<1>2. state \in ChannelPlace /\ state.at = place
  BY <1>1, ChannelsAssumption DEF ChannelPlace
<1> QED
  BY <1>1, <1>2 DEF CallGoes

LEMMA StorageKeeps ==
    ASSUME ChannelsInv, NEW c \in Call,
           StartUpload(c) \/ UploadFile(c) \/ SaveRow(c) \/ DeleteFile(c)
    PROVE  FilesInv' /\ call' \in [Call -> ChannelPlace]
<1>1. /\ CallFits(c) /\ rows \ objects \subseteq lost /\ call \in [Call -> ChannelPlace]
      /\ service = "sms" => rows = {}
  BY DEF ChannelsInv, FilesInv, ChannelsTypeOK, ChannelPlace
<1>2. CASE StartUpload(c)
  <2>1. PICK state \in ChannelPlace :
            call' = [call EXCEPT ![c] = state] /\ state.at = "uploading"
    BY <1>2, GoesTo DEF StartUpload, Answered, Working
  <2>2. call'[c].at = "uploading"
    BY <1>1, <2>1
  <2>3. /\ objects' = objects \ {c} /\ rows' = rows \ {c} /\ lost' = lost \ {c}
        /\ service' = service /\ service = "storage"
    BY <1>2 DEF StartUpload
  <2>4. CallFits(c)'
    BY <2>2, <2>3 DEF CallFits, Refused
  <2> QED
    BY <2>1, <2>3, <2>4, OneCallMoves
<1>3. CASE UploadFile(c)
  <2>1. PICK state \in ChannelPlace :
            /\ call' = [call EXCEPT ![c] = state]
            /\ state.at \in {"uploading", "saving", "not stored"}
            /\ state.at = "saving" => c \in objects'
    <3>1. "uploading" \in Working /\ {"saving", "not stored"} \subseteq Answered \union Working
      BY DEF Answered, Working, Refused
    <3>2. CASE AttemptSucceeds(c, "saving") /\ objects' = objects \union {c}
      <4>1. "saving" \in Answered \union Working /\ AttemptSucceeds(c, "saving")
        BY <3>1, <3>2
      <4>2. PICK state \in ChannelPlace :
                call' = [call EXCEPT ![c] = state] /\ state.at \in {"uploading", "saving"}
        BY <3>1, <4>1, AttemptEnds
      <4> QED
        BY <3>2, <4>2
    <3>3. CASE AttemptFails(c, "uploading", "not stored")
      <4>1. PICK state \in ChannelPlace :
                call' = [call EXCEPT ![c] = state] /\ state.at \in {"uploading", "not stored"}
        BY <3>1, <3>3, AttemptEnds
      <4> QED
        BY <4>1
    <3> QED
      BY <1>3, <3>2, <3>3 DEF UploadFile, AfterUploadError
  <2>2. call'[c].at \in {"uploading", "saving", "not stored"}
    BY <1>1, <2>1
  <2>3. objects' \in {objects, objects \union {c}} /\ UNCHANGED <<rows, lost, service>>
        /\ call[c].at = "uploading"
    BY <1>3 DEF UploadFile
  <2>4. call'[c].at = "saving" => c \in objects'
    BY <1>1, <2>1
  <2>5. c \notin rows /\ service = "storage"
    BY <1>1, <2>3 DEF CallFits
  <2>6. CallFits(c)'
    BY <2>2, <2>3, <2>4, <2>5 DEF CallFits, Refused
  <2> QED
    BY <2>1, <2>3, <2>5, <2>6, OneCallMoves
<1>4. CASE SaveRow(c)
  <2>1. call[c].at = "saving" /\ c \in objects /\ c \notin rows /\ service = "storage"
    BY <1>1, <1>4 DEF SaveRow, CallFits
  <2>2. PICK place \in {"saved", "cleaning", "not saved"} :
            /\ CallGoes(c, place)
            /\ \/ place = "saved" /\ rows' = rows \union {c} /\ lost' = lost
               \/ place # "saved" /\ UNCHANGED <<rows, lost>>
               \/ place # "saved" /\ rows' = rows \union {c} /\ lost' = lost \union {c}
    <3>1. CASE rows' = rows \union {c} /\ CallGoes(c, "saved") /\ UNCHANGED <<lost, breaker>>
      BY <3>1
    <3>2. CASE /\ \/ UNCHANGED <<rows, lost>>
                  \/ rows' = rows \union {c} /\ lost' = lost \union {c}
               /\ \/ Admits /\ breaker' = Entered /\ CallGoes(c, "cleaning")
                  \/ ~Admits /\ UNCHANGED breaker /\ CallGoes(c, "not saved")
      <4>1. PICK place \in {"cleaning", "not saved"} : CallGoes(c, place)
        BY <3>2
      <4> QED
        BY <3>2, <4>1
    <3> QED
      BY <1>4, <3>1, <3>2 DEF SaveRow
  <2>3. place \in Answered \union Working
    BY DEF Answered, Working, Refused
  <2>4. PICK state \in ChannelPlace : call' = [call EXCEPT ![c] = state] /\ state.at = place
    BY <2>2, <2>3, GoesTo
  <2>5. call'[c].at = place
    BY <1>1, <2>4
  <2>6. objects' = objects /\ service' = service
    BY <1>4 DEF SaveRow
  <2>7. CallFits(c)'
    BY <2>1, <2>2, <2>5, <2>6 DEF CallFits, Refused
  <2>8. rows' \in {rows, rows \union {c}} /\ lost' \in {lost, lost \union {c}} /\ c \in objects'
    BY <2>1, <2>2, <2>6
  <2> QED
    BY <2>1, <2>4, <2>6, <2>7, <2>8, OneCallMoves
<1>5. CASE DeleteFile(c)
  <2>1. PICK state \in ChannelPlace :
            call' = [call EXCEPT ![c] = state] /\ state.at \in {"cleaning", "not saved"}
    BY <1>5, AttemptEnds DEF DeleteFile, Answered, Working, Refused
  <2>2. call'[c].at \in {"cleaning", "not saved"}
    BY <1>1, <2>1
  <2>3. objects' \in {objects, objects \ {c}} /\ UNCHANGED <<rows, lost, service>>
        /\ call[c].at = "cleaning"
    BY <1>5 DEF DeleteFile
  <2>4. (c \notin rows \/ c \in lost) /\ service = "storage"
    BY <1>1, <2>3 DEF CallFits
  <2>5. CallFits(c)'
    BY <2>2, <2>3, <2>4 DEF CallFits, Refused
  <2> QED
    BY <2>1, <2>3, <2>4, <2>5, OneCallMoves
<1> QED
  BY <1>2, <1>3, <1>4, <1>5

LEMMA SmsKeeps ==
    ASSUME ChannelsInv, NEW c \in Call,
           StartSend(c) \/ GetValidToken(c) \/ LogInToProvider(c) \/ SendMessage(c)
    PROVE  FilesInv' /\ call' \in [Call -> ChannelPlace] /\ smsToken' \in Token \union {NoToken}
<1>1. /\ CallFits(c) /\ rows \ objects \subseteq lost /\ call \in [Call -> ChannelPlace]
      /\ service = "sms" => rows = {}
      /\ smsToken \in Token \union {NoToken}
  BY DEF ChannelsInv, FilesInv, ChannelsTypeOK, ChannelPlace
<1>2. service = "sms" /\ UNCHANGED <<service, objects, rows, lost>>
  BY <1>1 DEF fileVars, StartSend, GetValidToken, LogInToProvider, SendMessage, CallFits
<1>3. smsToken' \in Token \union {NoToken}
  BY <1>1 DEF StartSend, GetValidToken, LogInToProvider, SendMessage, Token
<1>4. PICK state \in ChannelPlace :
          /\ call' = [call EXCEPT ![c] = state]
          /\ state.at \in {"starting", "logging in", "sending", "sent", "not sent"}
  <2>1. {"starting", "sent", "not sent"} \subseteq Answered \union Working /\ "starting" \in Working
        /\ {"logging in", "sending"} \subseteq Working
    BY DEF Answered, Working, Refused
  <2>2. CASE CallGoes(c, "starting")
    <3>1. PICK state \in ChannelPlace :
              call' = [call EXCEPT ![c] = state] /\ state.at = "starting"
      BY <2>1, <2>2, GoesTo
    <3> QED
      BY <3>1
  <2>3. ASSUME NEW after \in {"sent", "not sent"},
               AttemptSucceeds(c, after) \/ AttemptFails(c, "starting", after)
        PROVE  \E state \in ChannelPlace :
                  /\ call' = [call EXCEPT ![c] = state]
                  /\ state.at \in {"starting", "logging in", "sending", "sent", "not sent"}
    <3>1. after \in Answered \union Working
      BY <2>1
    <3>2. PICK state \in ChannelPlace :
              call' = [call EXCEPT ![c] = state] /\ state.at \in {"starting", after}
      BY <2>1, <2>3, <3>1, AttemptEnds
    <3> QED
      BY <3>2
  <2>4. ASSUME NEW t \in Token, Holding(c, t)
        PROVE  \E state \in ChannelPlace :
                  /\ call' = [call EXCEPT ![c] = state]
                  /\ state.at \in {"starting", "logging in", "sending", "sent", "not sent"}
    <3>1. PICK state : state = [at |-> "sending", attempt |-> call[c].attempt, held |-> t]
      OBVIOUS
    <3>2. state \in ChannelPlace /\ state.at = "sending"
      BY <1>1, <2>1, <3>1 DEF ChannelPlace
    <3>3. call' = [call EXCEPT ![c] = state]
      <4>1. call' \in [Call -> ChannelPlace \union {call'[c]}] /\ call'[c] = state
            /\ \A d \in Call \ {c} : call'[d] = call[d]
        BY <1>1, <2>4, <3>1 DEF Holding, ChannelPlace
      <4> QED
        BY <1>1, <4>1
    <3> QED
      BY <3>2, <3>3
  <2>5. CASE call' = [call EXCEPT ![c].at = "logging in"]
    <3>1. PICK state : state = [at |-> "logging in", attempt |-> call[c].attempt, held |-> call[c].held]
      OBVIOUS
    <3>2. state \in ChannelPlace /\ state.at = "logging in"
      BY <1>1, <2>1, <3>1 DEF ChannelPlace
    <3>3. call' = [call EXCEPT ![c] = state]
      <4>1. call' \in [Call -> ChannelPlace \union {call'[c]}] /\ call'[c] = state
            /\ \A d \in Call \ {c} : call'[d] = call[d]
        BY <1>1, <2>5, <3>1 DEF ChannelPlace
      <4> QED
        BY <1>1, <4>1
    <3> QED
      BY <3>2, <3>3
  <2>6. CASE StartSend(c)
    BY <2>2, <2>6 DEF StartSend
  <2>7. CASE GetValidToken(c)
    <3>1. smsToken # NoToken => smsToken \in Token
      BY <1>1
    <3> QED
      BY <2>4, <2>5, <2>7, <3>1 DEF GetValidToken
  <2>8. CASE LogInToProvider(c)
    BY <2>3, <2>4, <2>8 DEF LogInToProvider, Token
  <2>9. CASE SendMessage(c)
    BY <2>3, <2>9 DEF SendMessage
  <2> QED
    BY <2>6, <2>7, <2>8, <2>9
<1>5. call'[c].at \in {"starting", "logging in", "sending", "sent", "not sent"}
  BY <1>1, <1>4
<1>6. CallFits(c)'
  BY <1>1, <1>2, <1>5 DEF CallFits, Refused
<1> QED
  BY <1>1, <1>2, <1>3, <1>4, <1>6, OneCallMoves

LEMMA ChannelsInvNext == ASSUME ChannelsInv, [ChannelsNext]_channelVars PROVE ChannelsInv'
<1>1. /\ ChannelsTypeOK /\ FilesInv /\ breaker \in BreakerState
      /\ call \in [Call -> ChannelPlace] /\ smsToken \in Token \union {NoToken}
      /\ service \in {"storage", "sms"}
  BY DEF ChannelsInv, ChannelsTypeOK, ChannelPlace, BreakerState
<1>2. BreakerMoves
  BY EachStepMovesTheBreaker DEF channelVars, BreakerMoves
<1>3. breaker' \in BreakerState
  BY <1>1, <1>2, BreakerKeepsItsType
<1>4. /\ FilesInv' /\ call' \in [Call -> ChannelPlace] /\ smsToken' \in Token \union {NoToken}
      /\ service' \in {"storage", "sms"}
  <2>1. CASE \E c \in Call : StartUpload(c) \/ UploadFile(c) \/ SaveRow(c) \/ DeleteFile(c)
    <3>1. UNCHANGED <<service, smsToken>>
      BY <2>1 DEF StartUpload, UploadFile, SaveRow, DeleteFile
    <3> QED
      BY <1>1, <2>1, <3>1, StorageKeeps
  <2>2. CASE \E c \in Call :
                StartSend(c) \/ GetValidToken(c) \/ LogInToProvider(c) \/ SendMessage(c)
    <3>1. UNCHANGED service
      BY <2>2 DEF StartSend, GetValidToken, LogInToProvider, SendMessage
    <3> QED
      BY <1>1, <2>2, <3>1, SmsKeeps
  <2>3. CASE Tick \/ TokenExpires \/ UNCHANGED channelVars
    <3>1. UNCHANGED <<service, objects, rows, lost, call>> /\ smsToken' \in {smsToken, NoToken}
      BY <2>3 DEF Tick, TokenExpires, channelVars, fileVars
    <3> QED
      BY <1>1, <3>1, CallsStay
  <2>4. CASE TokensRejected
    <3>1. UNCHANGED <<service, objects, rows, lost>> /\ smsToken' \in Token \union {NoToken}
      BY <1>1, <2>4 DEF TokensRejected, Token, fileVars
    <3>2. ASSUME NEW c \in Call
          PROVE  call'[c] \in ChannelPlace /\ call'[c].at = call[c].at
      <4>1. call[c] \in ChannelPlace
        BY <1>1
      <4>2. call'[c] = [call[c] EXCEPT !.held = IF @ = "valid" THEN "rejected" ELSE @]
        BY <2>4 DEF TokensRejected
      <4> QED
        BY <4>1, <4>2 DEF ChannelPlace, Token
    <3>3. call' = [c \in Call |-> call'[c]]
      BY <2>4 DEF TokensRejected
    <3>4. call' \in [Call -> ChannelPlace]
      BY <3>2, <3>3
    <3> QED
      BY <1>1, <3>1, <3>2, <3>4, CallsStay
  <2>5. CASE ServerRestarts
    BY <1>1, <2>5, RestartKeeps DEF ServerRestarts
  <2> QED
    BY <2>1, <2>2, <2>3, <2>4, <2>5 DEF ChannelsNext
<1> QED
  BY <1>3, <1>4 DEF ChannelsInv, ChannelsTypeOK, FilesInv, ChannelPlace, BreakerState

-----------------------------------------------------------------------------
(***************************************************************************)
(* The names.                                                              *)
(***************************************************************************)
LEMMA NamesInvSays == NamesInv => NamesTypeOK /\ NamesComeFree
  BY DEF NamesInv, RowsInv, WriterFits, NamesTypeOK, NamesComeFree

LEMMA NamesInvInit == NamesInit => NamesInv
<1> SUFFICES ASSUME NamesInit PROVE NamesInv
  OBVIOUS
<1>1. RowsInv
  BY DEF NamesInit, RowsInv
<1>2. naming \in [Writer -> NamingState]
  BY DEF NamesInit, NamingState
<1>3. \A r \in Writer : WriterFits(r)
  BY DEF NamesInit, WriterFits, Resting, NamingPlaces
<1> QED
  BY <1>1, <1>2, <1>3 DEF NamesInv

LEMMA NamingAt ==
    ASSUME NEW q \in NamingState
    PROVE  /\ q.at \in NamingPlaces => q \in NamingRecord
           /\ q.at = "deleting" => q.row \in Row
<1>1. CASE q \in NamingRecord
  BY <1>1 DEF NamingRecord, NamingPlaces
<1>2. CASE q = Resting
  BY <1>2 DEF Resting, NamingPlaces
<1>3. CASE q \in [at : {"refused"}, by : {"race", "deleted row", "nobody"}]
  BY <1>3 DEF NamingPlaces
<1>4. CASE q \in [at : {"deleting"}, row : Row]
  BY <1>4 DEF NamingPlaces
<1> QED
  BY <1>1, <1>2, <1>3, <1>4 DEF NamingState, NamingRecord, NamingPlaces

LEMMA NamingStates ==
    /\ NamingRecord \subseteq NamingState /\ Resting \in NamingState
    /\ [at : {"refused"}, by : {"race", "deleted row", "nobody"}] \subseteq NamingState
    /\ [at : {"deleting"}, row : Row] \subseteq NamingState
  BY DEF NamingState, NamingRecord, NamingPlaces

\* What may become of the rows for the other handlers' knowledge to stay true:
\* deleted rows stay deleted, and who deletes a user notes that it is being named.
RowsMove ==
    /\ table' = table /\ lateNames \subseteq lateNames'
    /\ \A y \in Row : rowState[y] = "deleted" => rowState'[y] = "deleted"
    /\ \A y \in Row : table \in Users /\ rowState'[y] = "deleted" =>
           rowState[y] = "deleted" \/ Naming(y) = {} \/ y \in lateNames'

LEMMA OthersStillFit ==
    ASSUME NamesInv, RowsMove, NEW s \in Writer, naming'[s] = naming[s]
    PROVE  WriterFits(s)'
<1>1. WriterFits(s) /\ naming[s] \in NamingState
  BY DEF NamesInv
<1>2. ASSUME naming[s].at \in {"code", "writing", "checking again"},
             NEW y \in naming[s].seen \ {naming[s].row}
      PROVE  table' \in Labels /\ rowState'[y] = "deleted"
  <2>1. y \in Row
    BY <1>1, <1>2, NamingAt DEF NamingPlaces, NamingRecord
  <2> QED
    BY <1>1, <1>2, <2>1 DEF WriterFits, RowsMove
<1>3. ASSUME table \in Users, naming[s].at \in NamingPlaces
      PROVE  rowState'[naming[s].row] # "deleted" \/ naming[s].row \in lateNames'
  <2>1. naming[s].row \in Row
    BY <1>1, <1>3, NamingAt DEF NamingRecord
  <2>2. s \in Naming(naming[s].row)
    BY <1>3 DEF Naming, NamingPlaces
  <2>3. Naming(naming[s].row) # {}
    BY <2>2
  <2>4. PICK x \in Row : x = naming[s].row
    BY <2>1
  <2>5. rowState[x] # "deleted" \/ x \in lateNames
    BY <1>1, <1>3, <2>4 DEF WriterFits
  <2> QED
    BY <1>3, <2>3, <2>4, <2>5 DEF RowsMove
<1>4. (naming[s].at = "refused" =>
          naming[s].by = "race" \/ (naming[s].by = "deleted row" /\ table' \in Labels))
      /\ table' = table
  BY <1>1 DEF WriterFits, RowsMove
<1> QED
  BY <1>2, <1>3, <1>4 DEF WriterFits

LEMMA OneWriterMoves ==
    ASSUME NamesInv, RowsMove, RowsInv', NEW r \in Writer, NEW state \in NamingState,
           WriterGoes(r, state), naming'[r] = state => WriterFits(r)'
    PROVE  NamesInv'
<1>1. /\ naming' \in [Writer -> NamingState] /\ naming'[r] = state
      /\ \A s \in Writer \ {r} : naming'[s] = naming[s]
  BY DEF NamesInv, WriterGoes
<1>2. \A s \in Writer \ {r} : WriterFits(s)'
  BY <1>1, OthersStillFit
<1> QED
  BY <1>1, <1>2 DEF NamesInv

LEMMA RowsStayMove == ASSUME NamesInv, RowsStay PROVE RowsMove /\ RowsInv'
<1>1. UNCHANGED <<table, rowState, nameOf, lateNames>>
  BY DEF RowsStay
<1> QED
  BY <1>1 DEF RowsMove, NamesInv, RowsInv, Having

\* A handler that rests, or is about to delete, knows nothing.
LEMMA RestingFits ==
    ASSUME NEW r \in Writer, naming'[r].at \in {"idle", "deleting"}
    PROVE  WriterFits(r)'
  BY DEF WriterFits, NamingPlaces

LEMMA RestsFit ==
    ASSUME NEW r \in Writer, naming'[r] = Resting
    PROVE  WriterFits(r)'
<1>1. naming'[r].at = "idle"
  BY DEF Resting
<1> QED
  BY <1>1, RestingFits

LEMMA AskKeeps ==
    ASSUME NamesInv, NEW r \in Writer, NEW x \in Row, NEW b \in Base, AskForName(r, x, b)
    PROVE  NamesInv'
<1>1. Ask(r, x, b) /\ rowState[x] # "deleted"
  BY DEF AskForName, CreateUser, UpdateProfile, UpdateUserByAdmin, VerifyPhoneChange,
     CreateCondition, UpdateCondition, CreateSize, UpdateSize, TitleProduct, RetitleProduct,
     NameCategory, RenameCategory, Creates, Renames
<1>2. PICK state : state = [at |-> "checking", row |-> x, name |-> Called(b), seen |-> {}]
  OBVIOUS
<1>3. state \in NamingState
  BY <1>2, NamingStates DEF NamingRecord, NamingPlaces, Called, Name
<1>4. WriterGoes(r, state) /\ RowsStay
  BY <1>1, <1>2 DEF Ask
<1>5. ASSUME naming'[r] = state PROVE WriterFits(r)'
  BY <1>1, <1>2, <1>4, <1>5 DEF WriterFits, RowsStay
<1> QED
  BY <1>3, <1>4, <1>5, RowsStayMove, OneWriterMoves

LEMMA CheckKeeps == ASSUME NamesInv, NEW r \in Writer, CheckName(r) PROVE NamesInv'
<1> DEFINE q == naming[r]
           taken == Finds(q.name) \ {q.row} # {}
<1>1. q \in NamingRecord /\ WriterFits(r) /\ q.at = "checking" /\ q.at \in NamingPlaces
  BY NamingAt DEF NamesInv, CheckName, NamingPlaces
<1>2. /\ RowsStay /\ RowsMove /\ RowsInv' /\ RowsInv
      /\ UNCHANGED <<table, rowState, nameOf, lateNames>>
  BY RowsStayMove DEF CheckName, RowsStay, NamesInv
<1>3. table \in Users => rowState[q.row] # "deleted" \/ q.row \in lateNames
  BY <1>1 DEF WriterFits
<1>4. CASE ~taken
  <2>1. AfterCheck(q.row) \in {"code", "writing", "checking again"}
    BY DEF AfterCheck
  <2>2. PICK state : state = [at |-> AfterCheck(q.row), row |-> q.row, name |-> q.name,
                              seen |-> Having(q.name)]
    OBVIOUS
  <2>3. WriterGoes(r, state)
    BY <1>1, <1>4, <2>2 DEF CheckName, NamingRecord
  <2>4. state \in NamingState
    BY <1>1, <2>1, <2>2, NamingStates DEF NamingRecord, NamingPlaces, Having
  <2>5. ASSUME NEW y \in Having(q.name) \ {q.row} PROVE table \in Labels /\ rowState[y] = "deleted"
    <3>1. y \in Row /\ nameOf[y] = q.name /\ q.name \in Name
      BY <1>1, <2>5 DEF Having, NamingRecord
    <3>2. table \in Labels /\ rowState[y] # "live"
      BY <1>4, <2>5 DEF Finds
    <3>3. rowState[y] # "none"
      BY <1>2, <3>1, NamesAssumption DEF RowsInv, Name
    <3> QED
      BY <1>2, <3>1, <3>2, <3>3 DEF RowsInv
  <2>6. ASSUME naming'[r] = state PROVE WriterFits(r)'
    <3>1. /\ state.at \in {"code", "writing", "checking again"}
          /\ state.row = q.row /\ state.seen = Having(q.name)
      BY <2>1, <2>2
    <3>2. \A y \in state.seen \ {state.row} : table' \in Labels /\ rowState'[y] = "deleted"
      BY <1>2, <2>5, <3>1
    <3>3. table' \in Users => rowState'[state.row] # "deleted" \/ state.row \in lateNames'
      BY <1>2, <1>3, <3>1
    <3> HIDE DEF q, taken
    <3> QED
      BY <2>6, <3>1, <3>2, <3>3 DEF WriterFits
  <2> QED
    BY <1>2, <2>3, <2>4, <2>6, OneWriterMoves
<1>5. CASE taken /\ table \in Numbered
  <2>1. q.name \in Name
    BY <1>1 DEF NamingRecord
  <2>2. PICK name : name = [base |-> q.name.base, number |-> q.name.number + 1]
    OBVIOUS
  <2>3. name \in Name
    BY <2>1, <2>2 DEF Name
  <2>4. PICK state : state = [at |-> "checking", row |-> q.row, name |-> name, seen |-> q.seen]
    OBVIOUS
  <2>5. state \in NamingState
    BY <1>1, <2>3, <2>4, NamingStates DEF NamingRecord, NamingPlaces
  <2>6. state = [q EXCEPT !.name.number = @ + 1]
    BY <1>1, <2>1, <2>2, <2>4 DEF NamingRecord, Name
  <2>7. WriterGoes(r, state)
    BY <1>5, <2>6 DEF CheckName
  <2>8. ASSUME naming'[r] = state PROVE WriterFits(r)'
    BY <1>2, <1>3, <2>4, <2>8 DEF WriterFits
  <2> QED
    BY <1>2, <2>5, <2>7, <2>8, OneWriterMoves
<1>6. CASE taken /\ table \notin Numbered
  <2>1. WriterGoes(r, Resting)
    BY <1>6 DEF CheckName
  <2>2. ASSUME naming'[r] = Resting PROVE WriterFits(r)'
    BY <2>2, RestsFit
  <2> QED
    BY <1>2, <2>1, <2>2, NamingStates, OneWriterMoves
<1> QED
  BY <1>4, <1>5, <1>6

\* A handler between its check and its write goes on or gives up.
LEMMA GoOnKeeps ==
    ASSUME NamesInv, NEW r \in Writer, naming[r].at \in {"code", "checking again"}, RowsStay,
           WriterGoes(r, [naming[r] EXCEPT !.at = "writing"]) \/ WriterGoes(r, Resting)
    PROVE  NamesInv'
<1>1. naming[r] \in NamingRecord /\ WriterFits(r)
  BY NamingAt DEF NamesInv, NamingPlaces
<1>2. RowsMove /\ RowsInv' /\ UNCHANGED <<table, rowState, nameOf, lateNames>>
  BY RowsStayMove DEF RowsStay
<1>3. CASE WriterGoes(r, [naming[r] EXCEPT !.at = "writing"])
  <2>1. PICK state : state = [naming[r] EXCEPT !.at = "writing"]
    OBVIOUS
  <2>2. state \in NamingRecord /\ state.at = "writing" /\ state.row = naming[r].row
        /\ state.seen = naming[r].seen
    BY <1>1, <2>1 DEF NamingRecord, NamingPlaces
  <2>3. ASSUME naming'[r] = state PROVE WriterFits(r)'
    BY <1>1, <1>2, <2>2, <2>3 DEF WriterFits, NamingPlaces
  <2> QED
    BY <1>2, <1>3, <2>1, <2>2, <2>3, NamingStates, OneWriterMoves
<1>4. CASE WriterGoes(r, Resting)
  <2>1. ASSUME naming'[r] = Resting PROVE WriterFits(r)'
    BY <2>1, RestsFit
  <2> QED
    BY <1>2, <1>4, <2>1, NamingStates, OneWriterMoves
<1> QED
  BY <1>3, <1>4

LEMMA WriteKeeps == ASSUME NamesInv, NEW r \in Writer, WriteName(r) PROVE NamesInv'
<1>1. naming[r] \in NamingRecord /\ WriterFits(r) /\ naming[r].at = "writing" /\ RowsInv
  BY NamingAt DEF NamesInv, WriteName, NamingPlaces
<1>2. PICK x \in Row, name \in Name, seen \in SUBSET Row :
          naming[r] = [at |-> "writing", row |-> x, name |-> name, seen |-> seen]
  BY <1>1 DEF NamingRecord
<1>3. /\ naming[r].row = x /\ naming[r].name = name /\ naming[r].seen = seen
      /\ table' = table /\ lateNames' = lateNames
  <2>1. naming[r].row = x /\ naming[r].name = name /\ naming[r].seen = seen
    BY <1>2
  <2>2. table' = table /\ lateNames' = lateNames
    BY DEF WriteName
  <2> QED
    BY <2>1, <2>2
<1>4. /\ \A y \in seen \ {x} : table \in Labels /\ rowState[y] = "deleted"
      /\ table \in Users => rowState[x] # "deleted" \/ x \in lateNames
  BY <1>1, <1>3 DEF WriterFits, NamingPlaces
<1>5. CASE Having(name) \ {x} = {}
  <2>1. /\ rowState' = [rowState EXCEPT ![x] = IF @ = "none" THEN "live" ELSE @]
        /\ nameOf' = [nameOf EXCEPT ![x] = name]
        /\ WriterGoes(r, Resting)
    BY <1>3, <1>5 DEF WriteName
  <2>2. /\ rowState \in [Row -> {"none", "live", "deleted"}]
        /\ nameOf \in [Row -> Name \union {NoName, Freed}]
    BY <1>1 DEF RowsInv
  <2>3. /\ rowState' \in [Row -> {"none", "live", "deleted"}]
        /\ nameOf' \in [Row -> Name \union {NoName, Freed}]
        /\ rowState'[x] \in {"live", "deleted"} /\ nameOf'[x] = name
        /\ rowState'[x] = "deleted" <=> rowState[x] = "deleted"
        /\ \A y \in Row \ {x} : rowState'[y] = rowState[y] /\ nameOf'[y] = nameOf[y]
    BY <2>1, <2>2
  <2>4. \A y \in Row : nameOf'[y] # Freed => Having(nameOf[y])' = {y} \/ nameOf'[y] = NoName
    <3>1. \A y \in Row \ {x} : nameOf[y] # name
      BY <1>5 DEF Having
    <3>2. \A y \in Row : nameOf[y] # Freed /\ nameOf[y] # NoName =>
              \A z \in Row : nameOf[z] = nameOf[y] => z = y
      BY <1>1 DEF RowsInv, Having
    <3>3. \A y \in Row : nameOf'[y] # Freed /\ nameOf'[y] # NoName =>
              \A z \in Row : nameOf'[z] = nameOf'[y] => z = y
      BY <2>3, <3>1, <3>2
    <3> QED
      BY <3>3 DEF Having
  <2>5. RowsInv'
    BY <1>1, <1>3, <1>4, <2>3, <2>4 DEF RowsInv
  <2>6. RowsMove
    BY <1>3, <2>3 DEF RowsMove
  <2>7. ASSUME naming'[r] = Resting PROVE WriterFits(r)'
    BY <2>7, RestsFit
  <2> QED
    BY <2>1, <2>5, <2>6, <2>7, NamingStates, OneWriterMoves
<1>6. CASE Having(name) \ {x} # {}
  <2>1. PICK race \in BOOLEAN, deleted \in BOOLEAN :
            /\ race = ~ (Having(name) \ {x} \subseteq seen)
            /\ deleted = \E y \in Having(name) \ {x} : rowState[y] = "deleted"
    OBVIOUS
  <2>2. PICK by : /\ by = (IF race THEN "race" ELSE IF deleted THEN "deleted row" ELSE "nobody")
                  /\ WriterGoes(r, [at |-> "refused", by |-> by])
                  /\ UNCHANGED <<rowState, nameOf>>
    BY <1>3, <1>6, <2>1 DEF WriteName
  <2>3. by = "race" \/ (by = "deleted row" /\ table \in Labels)
    <3>1. CASE race
      BY <2>2, <3>1
    <3>2. CASE ~race
      <4>1. PICK y \in Having(name) \ {x} : y \in seen \ {x}
        BY <1>6, <2>1, <3>2
      <4>2. table \in Labels /\ rowState[y] = "deleted"
        BY <1>4, <4>1
      <4>3. deleted
        BY <2>1, <4>1, <4>2
      <4> QED
        BY <2>2, <3>2, <4>2, <4>3
    <3> QED
      BY <3>1, <3>2
  <2>4. RowsStay
    BY <1>3, <2>2 DEF RowsStay
  <2>5. PICK state : state = [at |-> "refused", by |-> by]
    OBVIOUS
  <2>6. state \in NamingState
    BY <2>3, <2>5, NamingStates
  <2>7. ASSUME naming'[r] = state PROVE WriterFits(r)'
    <3>1. state.at = "refused" /\ state.by = by
      BY <2>5
    <3> QED
      BY <1>3, <2>3, <2>7, <3>1 DEF WriterFits, NamingPlaces
  <2> QED
    BY <2>2, <2>4, <2>5, <2>6, <2>7, RowsStayMove, OneWriterMoves
<1> QED
  BY <1>5, <1>6

LEMMA SoftDeleteUserKeeps == ASSUME NamesInv, NEW r \in Writer, SoftDeleteUser(r) PROVE NamesInv'
<1>1. PICK x \in Row : x = naming[r].row
  BY NamingAt DEF NamesInv, SoftDeleteUser
<1>2. /\ rowState' = [rowState EXCEPT ![x] = "deleted"] /\ nameOf' = [nameOf EXCEPT ![x] = FreedName(x)]
      /\ lateNames' = (IF Naming(x) # {} THEN lateNames \union {x} ELSE lateNames)
      /\ WriterGoes(r, Resting) /\ table' = table
  BY <1>1 DEF SoftDeleteUser
<1>3. RowsInv /\ rowState \in [Row -> {"none", "live", "deleted"}]
      /\ nameOf \in [Row -> Name \union {NoName, Freed}]
  BY DEF NamesInv, RowsInv
<1>4. /\ rowState' \in [Row -> {"none", "live", "deleted"}]
      /\ nameOf' \in [Row -> Name \union {NoName, Freed}]
      /\ rowState'[x] = "deleted" /\ nameOf'[x] \in {NoName, Freed}
      /\ \A y \in Row \ {x} : rowState'[y] = rowState[y] /\ nameOf'[y] = nameOf[y]
  BY <1>2, <1>3 DEF FreedName
<1>5. \A y \in Row : nameOf'[y] # Freed => Having(nameOf[y])' = {y} \/ nameOf'[y] = NoName
  <2>1. \A y \in Row : nameOf[y] # Freed /\ nameOf[y] # NoName =>
            \A z \in Row : nameOf[z] = nameOf[y] => z = y
    BY <1>3 DEF RowsInv, Having
  <2>2. \A y \in Row : nameOf'[y] # Freed /\ nameOf'[y] # NoName =>
            \A z \in Row : nameOf'[z] = nameOf'[y] => z = y
    BY <1>4, <2>1
  <2> QED
    BY <2>2 DEF Having
<1>6. RowsInv'
  BY <1>2, <1>3, <1>4, <1>5 DEF RowsInv
<1>7. RowsMove
  BY <1>2, <1>3, <1>4 DEF RowsMove
<1>8. ASSUME naming'[r] = Resting PROVE WriterFits(r)'
  BY <1>8, RestsFit
<1> QED
  BY <1>2, <1>6, <1>7, <1>8, NamingStates, OneWriterMoves

LEMMA NamesInvNext == ASSUME NamesInv, [NamesNext]_nameVars PROVE NamesInv'
<1>1. CASE UNCHANGED nameVars
  BY <1>1 DEF nameVars, NamesInv, RowsInv, WriterFits, Having
<1>2. ASSUME NEW x \in Row, SoftDeleteRow(x) PROVE NamesInv'
  <2>1. /\ table \notin Users /\ rowState' = [rowState EXCEPT ![x] = "deleted"]
        /\ rowState[x] = "live" /\ UNCHANGED <<table, nameOf, naming, lateNames>>
    BY <1>2 DEF SoftDeleteRow
  <2>2. RowsInv'
    BY <2>1 DEF NamesInv, RowsInv, Having
  <2>3. RowsMove
    BY <2>1 DEF NamesInv, RowsInv, RowsMove
  <2>4. \A s \in Writer : WriterFits(s)'
    BY <2>1, <2>3, OthersStillFit
  <2> QED
    BY <2>1, <2>2, <2>4 DEF NamesInv
<1>3. ASSUME NEW r \in Writer, NEW x \in Row, DeleteNamedUser(r, x) PROVE NamesInv'
  <2>1. PICK state : state = [at |-> "deleting", row |-> x]
    OBVIOUS
  <2>2. WriterGoes(r, state) /\ RowsStay /\ state \in NamingState /\ state.at = "deleting"
    BY <1>3, <2>1, NamingStates DEF DeleteNamedUser
  <2>3. ASSUME naming'[r] = state PROVE WriterFits(r)'
    BY <2>2, <2>3, RestingFits
  <2> QED
    BY <2>2, <2>3, RowsStayMove, OneWriterMoves
<1>4. ASSUME NEW r \in Writer, CheckAgain(r) \/ VerifyCode(r) PROVE NamesInv'
  BY <1>4, GoOnKeeps DEF CheckAgain, VerifyCode
<1>5. ASSUME NEW r \in Writer, AnswerRefusal(r) PROVE NamesInv'
  <2>1. WriterGoes(r, Resting) /\ RowsStay
    BY <1>5 DEF AnswerRefusal
  <2>2. ASSUME naming'[r] = Resting PROVE WriterFits(r)'
    BY <2>2, RestsFit
  <2> QED
    BY <2>1, <2>2, NamingStates, RowsStayMove, OneWriterMoves
<1> QED
  BY <1>1, <1>2, <1>3, <1>4, <1>5, AskKeeps, CheckKeeps, WriteKeeps, SoftDeleteUserKeeps
  DEF NamesNext

-----------------------------------------------------------------------------
(***************************************************************************)
(* The sessions.                                                           *)
(***************************************************************************)
LEMMA OneHolderSays == ASSUME OneHolder PROVE OneSession
<1> DEFINE S == {d \in Device \ byTelegram : Current(d)}
<1>1. \A c, d \in S : c = d
  BY DEF OneHolder, Holds
<1>2. CASE S = {}
  BY <1>2, FS_EmptySet DEF OneSession
<1>3. CASE S # {}
  <2>1. PICK d : S = {d}
    BY <1>1, <1>3
  <2>2. Cardinality(S) = 1
    BY <2>1, FS_Singleton
  <2> QED
    BY <2>2 DEF OneSession
<1> QED
  BY <1>2, <1>3

LEMMA SessionsInvInit == SessionsInit => SessionsInv
<1> SUFFICES ASSUME SessionsInit PROVE SessionsInv
  OBVIOUS
<1>1. Idle \in RequestState /\ Idle.pc = "idle"
  BY DEF Idle, RequestState
<1>2. SessionsTypeOK
  BY <1>1, SessionsAssumption DEF SessionsInit, SessionsTypeOK
<1>3. \A r \in Request : KnowsVersion(r)
  BY <1>1 DEF SessionsInit, KnowsVersion, CarryingPlaces
<1>4. NoAccountYet
  BY <1>1 DEF SessionsInit, NoAccountYet, CarryingPlaces
<1>5. OneHolder
  BY <1>1 DEF SessionsInit, OneHolder, Holds, Awaits, Current
<1>6. TokensEndWithSession
  BY DEF SessionsInit, TokensEndWithSession, Ended
<1> QED
  BY <1>2, <1>3, <1>4, <1>5, <1>6 DEF SessionsInv, SessionsCore

LEMMA RequestAt ==
    ASSUME NEW q \in RequestState
    PROVE  /\ q.pc = "useCode" => q.device \in Device
           /\ q.pc = "logIn" => q.device \in Device
           /\ q.pc = "clear" => q.device \in Device \union {None} /\ q.version \in 0..MaxVersion
           /\ q.pc \in {"issue", "reissue"} => q.device \in Device /\ q.version \in 0..MaxVersion
           /\ q.pc = "setMap" => q.device \in Device /\ q.on \in BOOLEAN /\ q.map \subseteq Device
           /\ q.pc = "setFcm" => q.device \in Device
  BY DEF RequestState, Idle

LEMMA RequestStates ==
    /\ Idle \in RequestState /\ Idle.pc = "idle"
    /\ [pc : {"useCode"}, device : Device, code : Code] \subseteq RequestState
    /\ [pc : {"logIn"}, device : Device] \subseteq RequestState
    /\ [pc : {"clear"}, device : Device \union {None}, version : 0..MaxVersion] \subseteq RequestState
    /\ [pc : {"issue", "reissue"}, device : Device, version : 0..MaxVersion] \subseteq RequestState
    /\ [pc : {"setMap"}, device : Device, on : BOOLEAN, map : SUBSET Device] \subseteq RequestState
    /\ [pc : {"setFcm"}, device : Device, on : BOOLEAN] \subseteq RequestState
  BY DEF RequestState, Idle

LEMMA VersionFacts ==
    ASSUME SessionsTypeOK
    PROVE  /\ MaxVersion \in Nat /\ version \in 0..MaxVersion /\ version \in Int
           /\ \A d \in Device : token[d] \in Int /\ token[d] <= version
           /\ \A r \in Request : req[r] \in RequestState
  BY SessionsAssumption DEF SessionsTypeOK

LEMMA GotoFacts ==
    ASSUME SessionsTypeOK, NEW r \in Request, NEW state \in RequestState, Goto(r, state)
    PROVE  /\ req' \in [Request -> RequestState] /\ req'[r] = state
           /\ \A s \in Request \ {r} : req'[s] = req[s]
  BY DEF SessionsTypeOK, Goto

\* Versions and tokens only go up: what a request knows of them stays true.
Forward ==
    /\ version' \in Int /\ version <= version'
    /\ \A d \in Device : token'[d] \in Int /\ token[d] <= token'[d] /\ token'[d] <= version'

LEMMA KnowledgeStays ==
    ASSUME SessionsInv, Forward, NEW s \in Request, req'[s] = req[s]
    PROVE  KnowsVersion(s)'
<1>1. KnowsVersion(s) /\ req[s] \in RequestState
  BY VersionFacts DEF SessionsInv, SessionsCore
<1>2. ASSUME req[s].pc \in CarryingPlaces
      PROVE  /\ req[s].version \in Int /\ req[s].version <= version
             /\ req[s].pc = "reissue" => req[s].device \in Device
  BY <1>1, <1>2, RequestAt DEF KnowsVersion, CarryingPlaces
<1>3. version \in Int /\ \A d \in Device : token[d] \in Int
  BY VersionFacts DEF SessionsInv
<1>4. req[s].pc \in CarryingPlaces => req[s].version <= version'
  BY <1>2, <1>3 DEF Forward
<1>5. ASSUME req[s].pc = "reissue", req[s].version = version'
      PROVE  token'[req[s].device] = version'
  <2>1. req[s].version = version /\ version' = version
    BY <1>2, <1>3, <1>5 DEF Forward, CarryingPlaces
  <2>2. token[req[s].device] = version /\ req[s].device \in Device
    BY <1>1, <1>2, <1>5, <2>1 DEF KnowsVersion, CarryingPlaces
  <2> QED
    BY <1>3, <2>1, <2>2 DEF Forward
<1> QED
  BY <1>4, <1>5 DEF KnowsVersion

\* A request goes on and the session stays what it is.
LEMMA QuietStep ==
    ASSUME SessionsInv, NEW r \in Request, NEW state \in RequestState, Goto(r, state),
           UNCHANGED <<account, version, token, byTelegram>>,
           \/ state.pc \notin CarryingPlaces
           \/ /\ state.pc = "issue" /\ At(r, "clear")
              /\ state.device = req[r].device /\ state.version = req[r].version
           \/ /\ state.pc = "reissue" /\ account = "active"
              /\ state.version = version /\ token[state.device] = version
    PROVE  SessionsCore'
<1>1. /\ SessionsTypeOK /\ (\A s \in Request : KnowsVersion(s)) /\ NoAccountYet /\ OneHolder
      /\ req' \in [Request -> RequestState] /\ req'[r] = state
      /\ \A s \in Request \ {r} : req'[s] = req[s]
  BY GotoFacts DEF SessionsInv, SessionsCore
<1>2. version \in Int /\ Forward
  BY <1>1, VersionFacts DEF Forward
<1>3. KnowsVersion(r)'
  BY <1>1, <1>2 DEF KnowsVersion, CarryingPlaces, At
<1>4. NoAccountYet'
  BY <1>1 DEF NoAccountYet, CarryingPlaces, At
<1>5. ASSUME NEW d \in Device, Holds(d)' PROVE Holds(d)
  <2>1. Awaits(r, d)' => Awaits(r, d)
    BY <1>1 DEF Awaits, CarryingPlaces, At
  <2>2. \A s \in Request \ {r} : Awaits(s, d)' => Awaits(s, d)
    BY <1>1 DEF Awaits
  <2> QED
    BY <1>5, <2>1, <2>2 DEF Holds, Current
<1>6. OneHolder'
  BY <1>1, <1>5 DEF OneHolder
<1> QED
  BY <1>1, <1>2, <1>3, <1>4, <1>6, KnowledgeStays DEF SessionsCore

\* A login or a logout ends the session there was: nobody has the new version.
LEMMA NewVersion ==
    ASSUME SessionsInv, NEW status \in {"active", "inactive", "deleted"}, EndSession(status),
           token' = token,
           NEW r \in Request, NEW state \in RequestState, Goto(r, state),
           state.pc = "clear", state.version = version'
    PROVE  SessionsCore'
<1>1. /\ SessionsTypeOK /\ req'[r] = state /\ \A s \in Request \ {r} : req'[s] = req[s]
      /\ version' = version + 1 /\ account' = status
  BY GotoFacts DEF SessionsInv, EndSession
<1>2. version \in Int /\ \A d \in Device : token[d] \in Int /\ token[d] <= version
  BY <1>1, VersionFacts
<1>3. Forward
  BY <1>1, <1>2 DEF Forward
<1>4. KnowsVersion(r)'
  BY <1>1, <1>2 DEF KnowsVersion
<1>5. \A s \in Request : KnowsVersion(s)'
  BY <1>1, <1>3, <1>4, KnowledgeStays
<1>6. NoAccountYet'
  BY <1>1 DEF NoAccountYet
<1>7. ASSUME NEW d \in Device, Holds(d)' PROVE d = state.device
  <2>1. ~Current(d)'
    BY <1>1, <1>2 DEF Current
  <2>2. ASSUME NEW s \in Request \ {r}, Awaits(s, d)' PROVE FALSE
    <3>1. req[s].pc \in CarryingPlaces /\ req[s].version = version + 1 /\ KnowsVersion(s)
      BY <1>1, <2>2 DEF Awaits, CarryingPlaces, SessionsInv, SessionsCore
    <3>2. req[s].version \in Int /\ req[s].version <= version
      BY <1>1, <1>2, <3>1 DEF KnowsVersion
    <3> QED
      BY <1>2, <3>1, <3>2
  <2>3. Awaits(r, d)'
    BY <1>7, <2>1, <2>2 DEF Holds
  <2> QED
    BY <1>1, <2>3 DEF Awaits
<1>8. OneHolder'
  BY <1>7 DEF OneHolder
<1> QED
  BY <1>5, <1>6, <1>8 DEF SessionsCore

LEMMA LogInCore == ASSUME SessionsInv, NEW r \in Request, LogIn(r) PROVE SessionsCore'
<1>1. SessionsTypeOK /\ req[r] \in RequestState /\ version \in 0..MaxVersion
  BY VersionFacts DEF SessionsInv
<1>2. PICK d \in Device : d = req[r].device
  BY <1>1, RequestAt DEF LogIn, At
<1>3. CASE account = "none"
  <2>1. PICK state : state = [pc |-> "issue", device |-> d, version |-> version]
    OBVIOUS
  <2>2. state \in RequestState /\ state.pc = "issue" /\ state.device = d /\ state.version = version
    BY <1>1, <2>1, RequestStates
  <2>3. /\ account' = "active" /\ UNCHANGED <<version, fcmToken, byTelegram, token>>
        /\ Goto(r, state)
    BY <1>2, <1>3, <2>1 DEF LogIn
  <2>4. req'[r] = state /\ \A s \in Request \ {r} : req'[s] = req[s]
    BY <1>1, <2>2, <2>3, GotoFacts
  <2>5. Forward /\ version \in Int
    BY <1>1, <2>3, VersionFacts DEF Forward
  <2>6. KnowsVersion(r)'
    BY <2>2, <2>3, <2>4, <2>5 DEF KnowsVersion
  <2>7. \A s \in Request : KnowsVersion(s)'
    BY <2>4, <2>5, <2>6, KnowledgeStays
  <2>8. NoAccountYet'
    BY <2>3 DEF NoAccountYet
  <2>9. ASSUME NEW c \in Device, Holds(c)' PROVE c = d
    <3>1. version = 0 /\ token[c] = -1 /\ \A s \in Request : req[s].pc \notin CarryingPlaces
      BY <1>3 DEF SessionsInv, SessionsCore, NoAccountYet
    <3>2. ~Current(c)'
      BY <2>3, <3>1 DEF Current
    <3>3. \A s \in Request \ {r} : ~Awaits(s, c)'
      BY <2>4, <3>1 DEF Awaits, CarryingPlaces
    <3> QED
      BY <2>2, <2>4, <2>9, <3>2, <3>3 DEF Holds, Awaits
  <2>10. OneHolder'
    BY <2>9 DEF OneHolder
  <2> QED
    BY <2>7, <2>8, <2>10 DEF SessionsCore
<1>4. CASE account # "none"
  <2>1. PICK state : state = [pc |-> "clear", device |-> d, version |-> version + 1]
    OBVIOUS
  <2>2. EndSession("active") /\ Goto(r, state) /\ token' = token
    BY <1>2, <1>4, <2>1 DEF LogIn, AfterLogIn, EndSession
  <2>3. version' = version + 1 /\ version + 1 \in 0..MaxVersion
    BY <1>1, <2>2, SessionsAssumption DEF EndSession
  <2>4. state \in RequestState /\ state.pc = "clear" /\ state.version = version'
    BY <2>1, <2>3, RequestStates
  <2> QED
    BY <2>2, <2>4, NewVersion
<1> QED
  BY <1>3, <1>4

LEMMA LogOutCore ==
    ASSUME SessionsInv, NEW r \in Request, NEW d \in Device, LogOut(r, d)
    PROVE  SessionsCore'
<1>1. SessionsTypeOK /\ version \in 0..MaxVersion /\ account = "active"
  BY VersionFacts DEF SessionsInv, LogOut, Accepted
<1>2. PICK state : state = [pc |-> "clear", device |-> None, version |-> version + 1]
  OBVIOUS
<1>3. EndSession("active") /\ Goto(r, state) /\ token' = token
  BY <1>1, <1>2 DEF LogOut, EndSession
<1>4. version' = version + 1 /\ version + 1 \in 0..MaxVersion
  BY <1>1, <1>3, SessionsAssumption DEF EndSession
<1>5. state \in RequestState /\ state.pc = "clear" /\ state.version = version'
  BY <1>2, <1>4, RequestStates
<1> QED
  BY <1>3, <1>5, NewVersion

\* Tokens are handed to a device: by a login, which still counts if its version is
\* the account's, or by a refresh, which then changes nothing.
LEMMA GenerateTokensCore ==
    ASSUME SessionsInv, NEW r \in Request, GenerateTokens(r)
    PROVE  /\ SessionsCore' /\ Forward
           /\ token' \in [Device -> -1..version] /\ byTelegram' \subseteq Device
<1>1. /\ SessionsTypeOK /\ req[r] \in RequestState /\ req[r].pc \in {"issue", "reissue"}
      /\ KnowsVersion(r) /\ OneHolder /\ NoAccountYet
      /\ token \in [Device -> -1..version] /\ byTelegram \subseteq Device
  BY VersionFacts DEF SessionsInv, SessionsCore, GenerateTokens, At, SessionsTypeOK
<1>2. PICK d \in Device, v \in 0..MaxVersion : d = req[r].device /\ v = req[r].version
  BY <1>1, RequestAt
<1>3. v <= version /\ version \in 0..MaxVersion /\ MaxVersion \in Nat
      /\ \A c \in Device : token[c] \in Int /\ token[c] <= version
  BY <1>1, <1>2, VersionFacts DEF KnowsVersion, CarryingPlaces
<1>4. /\ Goto(r, Idle) /\ UNCHANGED <<account, version>>
      /\ IF v < token[d] THEN UNCHANGED <<token, byTelegram>>
         ELSE /\ token' = [token EXCEPT ![d] = v]
              /\ byTelegram' = IF req[r].pc = "issue" THEN byTelegram \ {d} ELSE byTelegram
  BY <1>2 DEF GenerateTokens, Signed, At, tokenVars, accountVars
<1>5. req'[r] = Idle /\ Idle.pc = "idle" /\ \A s \in Request \ {r} : req'[s] = req[s]
  BY <1>1, <1>4, RequestStates, GotoFacts
<1>6. /\ token' \in [Device -> -1..version] /\ byTelegram' \subseteq byTelegram
      /\ \A c \in Device : token[c] <= token'[c]
      /\ \A c \in Device \ {d} : token'[c] = token[c]
      /\ token'[d] # token[d] => token'[d] = v
      /\ ~(d \in byTelegram' <=> d \in byTelegram) => req[r].pc = "issue" /\ token'[d] = v
      /\ byTelegram \ {d} \subseteq byTelegram'
  <2>1. CASE v < token[d]
    BY <1>1, <1>3, <1>4, <2>1
  <2>2. CASE ~(v < token[d])
    <3>1. token' = [token EXCEPT ![d] = v] /\ v \in -1..version /\ token[d] <= v
      BY <1>3, <1>4, <2>2
    <3>2. token' \in [Device -> -1..version] /\ token'[d] = v
          /\ \A c \in Device \ {d} : token'[c] = token[c]
      BY <1>1, <3>1
    <3>3. \A c \in Device : token[c] <= token'[c]
      BY <1>3, <3>1, <3>2
    <3> QED
      BY <1>4, <2>2, <3>2, <3>3
  <2> QED
    BY <2>1, <2>2
<1>7. Forward
  <2>1. \A c \in Device : token'[c] \in Int /\ token'[c] <= version
    BY <1>3, <1>6
  <2> QED
    BY <1>3, <1>4, <1>6, <2>1 DEF Forward
<1>8. \A s \in Request : KnowsVersion(s)'
  <2>1. KnowsVersion(r)'
    BY <1>5 DEF KnowsVersion, CarryingPlaces
  <2> QED
    BY <1>5, <1>7, <2>1, KnowledgeStays
<1>9. NoAccountYet'
  BY <1>1, <1>4 DEF NoAccountYet, CarryingPlaces
<1>10. ASSUME NEW c \in Device, Holds(c)' PROVE Holds(c)
  <2>1. CASE \E s \in Request : Awaits(s, c)'
    <3>1. PICK s \in Request : Awaits(s, c)'
      BY <2>1
    <3>2. s # r
      BY <1>5, <3>1 DEF Awaits
    <3>3. Awaits(s, c)
      BY <1>4, <1>5, <3>1, <3>2 DEF Awaits
    <3> QED
      BY <3>3 DEF Holds
  <2>2. CASE token'[c] = version /\ c \notin byTelegram'
    <3>1. CASE c = d /\ req[r].pc = "issue" /\ token'[d] = v
      BY <1>2, <2>2, <3>1 DEF Holds, Awaits
    <3>2. CASE c = d /\ req[r].pc = "reissue" /\ token'[d] = v
      <4>1. token[d] = version
        BY <1>1, <1>2, <2>2, <3>2 DEF KnowsVersion
      <4>2. d \notin byTelegram
        BY <1>6, <2>2, <3>2
      <4> QED
        BY <3>2, <4>1, <4>2 DEF Holds, Current
    <3>3. CASE c = d /\ token'[d] # v
      BY <1>6, <2>2, <3>3 DEF Holds, Current
    <3>4. CASE c # d
      BY <1>6, <2>2, <3>4 DEF Holds, Current
    <3> QED
      BY <1>1, <3>1, <3>2, <3>3, <3>4
  <2> QED
    BY <1>4, <1>10, <2>1, <2>2 DEF Holds, Current
<1>11. OneHolder'
  BY <1>1, <1>10 DEF OneHolder
<1> QED
  BY <1>1, <1>6, <1>7, <1>8, <1>9, <1>11 DEF SessionsCore

LEMMA LinkTelegramCore ==
    ASSUME SessionsInv, NEW d \in Device, LinkTelegramContact(d)
    PROVE  SessionsCore' /\ Forward /\ token' \in [Device -> -1..version]
<1>1. /\ SessionsTypeOK /\ OneHolder /\ NoAccountYet /\ token \in [Device -> -1..version]
  BY DEF SessionsInv, SessionsCore, SessionsTypeOK
<1>2. version \in 0..MaxVersion /\ MaxVersion \in Nat
      /\ \A c \in Device : token[c] \in Int /\ token[c] <= version
  BY <1>1, VersionFacts
<1>3. /\ token' = [token EXCEPT ![d] = version] /\ account' # "none"
      /\ byTelegram' = (IF Current(d) THEN byTelegram ELSE byTelegram \union {d})
      /\ UNCHANGED <<version, req>>
  BY DEF LinkTelegramContact
<1>4. /\ token' \in [Device -> -1..version] /\ token'[d] = version
      /\ \A c \in Device \ {d} : token'[c] = token[c]
  BY <1>1, <1>2, <1>3
<1>5. Forward
  <2>1. \A c \in Device : token'[c] \in Int /\ token[c] <= token'[c] /\ token'[c] <= version
    BY <1>2, <1>4
  <2> QED
    BY <1>2, <1>3, <2>1 DEF Forward
<1>6. \A s \in Request : KnowsVersion(s)'
  BY <1>3, <1>5, KnowledgeStays
<1>7. ASSUME NEW c \in Device, Holds(c)' PROVE Holds(c)
  BY <1>3, <1>4, <1>7 DEF Holds, Awaits, Current
<1> QED
  BY <1>1, <1>3, <1>4, <1>5, <1>6, <1>7 DEF SessionsCore, NoAccountYet, OneHolder

\* Push tokens stay, and so does the session they belong to.
LEMMA SameTokens ==
    ASSUME TokensEndWithSession, UNCHANGED <<fcmToken, deviceTokens, leftBehind>>,
           fcmToken \in Device \union {None}, deviceTokens \subseteq Device,
           \A d \in Device : Current(d) => Current(d)', ClearPending => ClearPending'
    PROVE  TokensEndWithSession'
  BY DEF TokensEndWithSession, Ended

LEMMA CurrentStays ==
    ASSUME SessionsTypeOK, Forward, version' = version, NEW d \in Device, Current(d)
    PROVE  Current(d)'
<1>1. version \in Int /\ token[d] = version
  BY VersionFacts DEF Current
<1>2. token'[d] \in Int /\ token[d] <= token'[d] /\ token'[d] <= version
  BY DEF Forward
<1>3. token'[d] = version
  BY <1>1, <1>2
<1> QED
  BY <1>3 DEF Current

LEMMA ClearStays ==
    ASSUME SessionsTypeOK, NEW r \in Request, NEW state \in RequestState, Goto(r, state),
           ~At(r, "clear"), ClearPending
    PROVE  ClearPending'
<1>1. PICK s \in Request : At(s, "clear")
  BY DEF ClearPending
<1>2. req'[s] = req[s]
  BY <1>1, GotoFacts DEF At
<1> QED
  BY <1>1, <1>2 DEF ClearPending, At

\* A request goes on, and nothing changes but its place and the codes.
LEMMA JustGoesOn ==
    ASSUME SessionsInv, NEW r \in Request, NEW state \in RequestState, Goto(r, state),
           UNCHANGED <<accountVars, tokenVars, deviceVars>>, validCodes' \subseteq Code,
           ~At(r, "clear"),
           \/ state.pc \notin CarryingPlaces
           \/ /\ state.pc = "reissue" /\ account = "active"
              /\ state.version = version /\ token[state.device] = version
    PROVE  SessionsInv'
<1>1. /\ SessionsTypeOK /\ TokensEndWithSession
      /\ UNCHANGED <<account, version, fcmToken, token, byTelegram, deviceTokens, leftBehind>>
  BY DEF SessionsInv, accountVars, tokenVars, deviceVars
<1>2. SessionsCore'
  BY <1>1, QuietStep
<1>3. SessionsTypeOK'
  BY <1>1, GotoFacts DEF SessionsTypeOK
<1>4. ClearPending => ClearPending'
  BY <1>1, ClearStays
<1>5. \A d \in Device : Current(d) => Current(d)'
  BY <1>1 DEF Current
<1>6. TokensEndWithSession'
  BY <1>1, <1>4, <1>5, SameTokens DEF SessionsTypeOK
<1> QED
  BY <1>2, <1>3, <1>6 DEF SessionsInv

LEMMA CodeSteps ==
    ASSUME SessionsInv,
           \/ SendOtp \/ CodeExpires
           \/ \E r \in Request, d \in Device, c \in Code : FindValid(r, d, c)
           \/ \E r \in Request : MarkAsUsed(r)
    PROVE  SessionsInv'
<1>1. CASE SendOtp \/ CodeExpires
  <2>1. validCodes' \subseteq Code /\ UNCHANGED <<accountVars, tokenVars, deviceVars, req>>
    BY <1>1 DEF SendOtp, CodeExpires, SessionsInv, SessionsTypeOK
  <2>2. UNCHANGED <<account, version, fcmToken, token, byTelegram, deviceTokens, leftBehind, req>>
    BY <2>1 DEF accountVars, tokenVars, deviceVars
  <2>3. SessionsTypeOK'
    BY <2>1, <2>2 DEF SessionsInv, SessionsTypeOK
  <2>4. SessionsCore'
    BY <2>2 DEF SessionsInv, SessionsCore, KnowsVersion, NoAccountYet, OneHolder, Holds, Awaits,
                Current
  <2>5. TokensEndWithSession'
    BY <2>2 DEF SessionsInv, TokensEndWithSession, Ended, Current, ClearPending, At
  <2> QED
    BY <2>3, <2>4, <2>5 DEF SessionsInv
<1>2. ASSUME NEW r \in Request, NEW d \in Device, NEW c \in Code, FindValid(r, d, c)
      PROVE  SessionsInv'
  <2>1. PICK state : state = [pc |-> "useCode", device |-> d, code |-> c]
    OBVIOUS
  <2>2. state \in RequestState /\ state.pc \notin CarryingPlaces
    BY <2>1, RequestStates DEF CarryingPlaces
  <2>3. /\ Goto(r, state) /\ UNCHANGED <<accountVars, tokenVars, deviceVars>> /\ ~At(r, "clear")
        /\ validCodes' \subseteq Code
    BY <1>2, <2>1, RequestStates DEF FindValid, At, SessionsInv, SessionsTypeOK
  <2> QED
    BY <2>2, <2>3, JustGoesOn
<1>3. ASSUME NEW r \in Request, MarkAsUsed(r) PROVE SessionsInv'
  <2>1. PICK d \in Device : d = req[r].device
    BY <1>3, VersionFacts, RequestAt DEF MarkAsUsed, At, SessionsInv
  <2>2. PICK state : state = [pc |-> "logIn", device |-> d]
    OBVIOUS
  <2>3. state \in RequestState /\ state.pc \notin CarryingPlaces
    BY <2>2, RequestStates DEF CarryingPlaces
  <2>4. /\ Goto(r, state) /\ UNCHANGED <<accountVars, tokenVars, deviceVars>> /\ ~At(r, "clear")
        /\ validCodes' \subseteq Code
    BY <1>3, <2>1, <2>2 DEF MarkAsUsed, At, SessionsInv, SessionsTypeOK
  <2> QED
    BY <2>3, <2>4, JustGoesOn
<1> QED
  BY <1>1, <1>2, <1>3

\* A login or a logout takes the single token away, and is about to clear the others.
LEMMA SessionEnds ==
    ASSUME SessionsInv, NEW status \in {"active", "inactive", "deleted"}, EndSession(status),
           NEW r \in Request, NEW state \in RequestState, Goto(r, state), state.pc = "clear",
           UNCHANGED <<validCodes, token, deviceVars>>, SessionsCore'
    PROVE  SessionsInv'
<1>1. /\ SessionsTypeOK /\ version' = version + 1 /\ version' \in 0..MaxVersion
      /\ account' = status /\ fcmToken' = None /\ byTelegram' = {}
      /\ UNCHANGED <<validCodes, token, deviceTokens, leftBehind>>
  BY VersionFacts DEF SessionsInv, EndSession, FcmTokenAfter, deviceVars
<1>2. req' \in [Request -> RequestState] /\ req'[r].pc = "clear"
  BY <1>1, GotoFacts
<1>3. token' \in [Device -> -1..version']
  <2>1. -1..version \subseteq -1..version'
    BY <1>1, VersionFacts
  <2> QED
    BY <1>1, <2>1 DEF SessionsTypeOK
<1>4. SessionsTypeOK'
  BY <1>1, <1>2, <1>3 DEF SessionsTypeOK
<1>5. TokensEndWithSession'
  BY <1>1, <1>2 DEF TokensEndWithSession, ClearPending, At
<1> QED
  BY <1>4, <1>5 DEF SessionsInv

LEMMA LogInKeeps == ASSUME SessionsInv, NEW r \in Request, LogIn(r) PROVE SessionsInv'
<1>1. /\ SessionsTypeOK /\ TokensEndWithSession /\ version \in 0..MaxVersion /\ ~At(r, "clear")
      /\ UNCHANGED <<validCodes, token, deviceVars>> /\ SessionsCore'
  BY VersionFacts, LogInCore DEF SessionsInv, LogIn, At
<1>2. PICK d \in Device : d = req[r].device
  BY <1>1, VersionFacts, RequestAt DEF LogIn, At
<1>3. CASE account = "none"
  <2>1. PICK state : state = [pc |-> "issue", device |-> d, version |-> version]
    OBVIOUS
  <2>2. state \in RequestState
    BY <1>1, <2>1, RequestStates
  <2>3. /\ account' = "active" /\ UNCHANGED <<version, fcmToken, byTelegram>> /\ Goto(r, state)
    BY <1>2, <1>3, <2>1 DEF LogIn
  <2>4. SessionsTypeOK'
    BY <1>1, <2>2, <2>3, GotoFacts DEF SessionsTypeOK, deviceVars
  <2>5. ClearPending => ClearPending'
    BY <1>1, <2>2, <2>3, ClearStays
  <2>6. \A c \in Device : Current(c) => Current(c)'
    BY <1>1, <2>3 DEF Current
  <2>7. TokensEndWithSession'
    BY <1>1, <2>3, <2>5, <2>6, SameTokens DEF SessionsTypeOK, deviceVars
  <2> QED
    BY <1>1, <2>4, <2>7 DEF SessionsInv
<1>4. CASE account # "none"
  <2>1. PICK state : state = [pc |-> "clear", device |-> d, version |-> version + 1]
    OBVIOUS
  <2>2. EndSession("active") /\ Goto(r, state)
    BY <1>2, <1>4, <2>1 DEF LogIn, AfterLogIn, EndSession
  <2>3. version + 1 \in 0..MaxVersion
    BY <1>1, <2>2, SessionsAssumption DEF EndSession
  <2>4. state \in RequestState /\ state.pc = "clear"
    BY <2>1, <2>3, RequestStates
  <2> QED
    BY <1>1, <2>2, <2>4, SessionEnds
<1> QED
  BY <1>3, <1>4

LEMMA LogOutKeeps ==
    ASSUME SessionsInv, NEW r \in Request, NEW d \in Device, LogOut(r, d)
    PROVE  SessionsInv'
<1>1. version \in 0..MaxVersion /\ SessionsCore' /\ account = "active"
      /\ UNCHANGED <<validCodes, token, deviceVars>>
  BY VersionFacts, LogOutCore DEF SessionsInv, LogOut, Accepted
<1>2. PICK state : state = [pc |-> "clear", device |-> None, version |-> version + 1]
  OBVIOUS
<1>3. EndSession("active") /\ Goto(r, state)
  BY <1>1, <1>2 DEF LogOut, EndSession
<1>4. version + 1 \in 0..MaxVersion
  BY <1>1, <1>3, SessionsAssumption DEF EndSession
<1>5. state \in RequestState /\ state.pc = "clear"
  BY <1>2, <1>4, RequestStates
<1> QED
  BY <1>1, <1>3, <1>5, SessionEnds

LEMMA TokenSteps ==
    ASSUME SessionsInv,
           \/ \E r \in Request : GenerateTokens(r)
           \/ \E d \in Device : LinkTelegramContact(d)
    PROVE  SessionsInv'
<1>1. SessionsTypeOK /\ TokensEndWithSession
  BY DEF SessionsInv
<1>2. ASSUME NEW r \in Request, GenerateTokens(r) PROVE SessionsInv'
  <2>1. /\ SessionsCore' /\ Forward /\ token' \in [Device -> -1..version]
        /\ byTelegram' \subseteq Device
    BY <1>2, GenerateTokensCore
  <2>2. /\ UNCHANGED <<account, version, fcmToken, validCodes, deviceTokens, leftBehind>>
        /\ Goto(r, Idle) /\ ~At(r, "clear")
    BY <1>2 DEF GenerateTokens, accountVars, deviceVars, At
  <2>3. SessionsTypeOK'
    BY <1>1, <2>1, <2>2, RequestStates, GotoFacts DEF SessionsTypeOK
  <2>4. ClearPending => ClearPending'
    BY <1>1, <2>2, RequestStates, ClearStays
  <2>5. \A d \in Device : Current(d) => Current(d)'
    BY <1>1, <2>1, <2>2, CurrentStays
  <2>6. TokensEndWithSession'
    BY <1>1, <2>2, <2>4, <2>5, SameTokens DEF SessionsTypeOK
  <2> QED
    BY <2>1, <2>3, <2>6 DEF SessionsInv
<1>3. ASSUME NEW d \in Device, LinkTelegramContact(d) PROVE SessionsInv'
  <2>1. SessionsCore' /\ Forward /\ token' \in [Device -> -1..version]
    BY <1>3, LinkTelegramCore
  <2>2. /\ UNCHANGED <<version, fcmToken, validCodes, deviceTokens, leftBehind, req>>
        /\ account' \in {"active", account} /\ byTelegram' \subseteq byTelegram \union {d}
    BY <1>3 DEF LinkTelegramContact, deviceVars
  <2>3. SessionsTypeOK'
    BY <1>1, <2>1, <2>2 DEF SessionsTypeOK
  <2>4. ClearPending => ClearPending'
    BY <2>2 DEF ClearPending, At
  <2>5. \A c \in Device : Current(c) => Current(c)'
    BY <1>1, <2>1, <2>2, CurrentStays
  <2>6. TokensEndWithSession'
    BY <1>1, <2>2, <2>4, <2>5, SameTokens DEF SessionsTypeOK
  <2> QED
    BY <2>1, <2>3, <2>6 DEF SessionsInv
<1> QED
  BY <1>2, <1>3

LEMMA BeginningSteps ==
    ASSUME SessionsInv, NEW r \in Request, NEW d \in Device,
           \/ RefreshToken(r, d)
           \/ \E on, withDevice \in BOOLEAN : UpdateFcmToken(r, d, on, withDevice)
    PROVE  SessionsInv'
<1>1. /\ version \in 0..MaxVersion /\ ~At(r, "clear") /\ account = "active" /\ token[d] = version
      /\ UNCHANGED <<accountVars, tokenVars, deviceVars>> /\ validCodes' \subseteq Code
      /\ deviceTokens \subseteq Device
  BY VersionFacts, RequestStates
  DEF SessionsInv, RefreshToken, UpdateFcmToken, At, Accepted, Current, SessionsTypeOK
<1>2. CASE RefreshToken(r, d)
  <2>1. PICK state : state = [pc |-> "reissue", device |-> d, version |-> version]
    OBVIOUS
  <2>2. state \in RequestState /\ state.pc = "reissue" /\ state.version = version
        /\ state.device = d
    BY <1>1, <2>1, RequestStates
  <2>3. Goto(r, state)
    BY <1>2, <2>1 DEF RefreshToken
  <2> QED
    BY <1>1, <2>2, <2>3, JustGoesOn
<1>3. ASSUME NEW on \in BOOLEAN, NEW withDevice \in BOOLEAN, UpdateFcmToken(r, d, on, withDevice)
      PROVE  SessionsInv'
  <2>1. CASE withDevice
    <3>1. PICK map \in {deviceTokens, {}} :
              Goto(r, [pc |-> "setMap", device |-> d, on |-> on, map |-> map])
      BY <1>3, <2>1 DEF UpdateFcmToken
    <3>2. PICK state : state = [pc |-> "setMap", device |-> d, on |-> on, map |-> map]
      OBVIOUS
    <3>3. state \in RequestState /\ state.pc \notin CarryingPlaces
      BY <1>1, <3>2, RequestStates DEF CarryingPlaces
    <3> QED
      BY <1>1, <3>1, <3>2, <3>3, JustGoesOn
  <2>2. CASE ~withDevice
    <3>1. PICK state : state = [pc |-> "setFcm", device |-> d, on |-> on]
      OBVIOUS
    <3>2. state \in RequestState /\ state.pc \notin CarryingPlaces
      BY <3>1, RequestStates DEF CarryingPlaces
    <3>3. Goto(r, state)
      BY <1>3, <2>2, <3>1 DEF UpdateFcmToken
    <3> QED
      BY <1>1, <3>2, <3>3, JustGoesOn
  <2> QED
    BY <2>1, <2>2
<1> QED
  BY <1>2, <1>3

\* Push tokens are written or cleared, and the rest is as QuietStep says.
LEMMA QuietKeeps ==
    ASSUME SessionsInv, NEW r \in Request, NEW state \in RequestState, Goto(r, state),
           UNCHANGED <<account, version, token, byTelegram, validCodes>>,
           \/ state.pc \notin CarryingPlaces
           \/ /\ state.pc = "issue" /\ At(r, "clear")
              /\ state.device = req[r].device /\ state.version = req[r].version,
           fcmToken' \in Device \union {None}, deviceTokens' \subseteq Device,
           leftBehind' \subseteq Device, TokensEndWithSession'
    PROVE  SessionsInv'
<1>1. SessionsCore'
  BY QuietStep
<1>2. SessionsTypeOK'
  BY GotoFacts DEF SessionsInv, SessionsTypeOK
<1> QED
  BY <1>1, <1>2 DEF SessionsInv

LEMMA ClearKeeps == ASSUME SessionsInv, NEW r \in Request, ClearAllTokens(r) PROVE SessionsInv'
<1>1. /\ SessionsTypeOK /\ TokensEndWithSession /\ At(r, "clear")
      /\ UNCHANGED <<account, version, fcmToken, token, byTelegram, validCodes>>
      /\ deviceTokens' \in {{}, deviceTokens} /\ req[r] \in RequestState
      /\ leftBehind' = (leftBehind \union Ended(deviceTokens))
                          \intersect (deviceTokens' \union {fcmToken'})
  BY VersionFacts DEF SessionsInv, ClearAllTokens, accountVars, tokenVars, LeftBehind
<1>2. /\ deviceTokens' \subseteq Device /\ leftBehind' \subseteq Device
      /\ fcmToken' \in Device \union {None}
  BY <1>1 DEF SessionsTypeOK, Ended
<1>3. TokensEndWithSession'
  BY <1>1 DEF TokensEndWithSession, Ended, Current
<1>4. CASE req[r].device = None
  <2>1. Goto(r, Idle) /\ Idle.pc \notin CarryingPlaces
    BY <1>4, RequestStates DEF ClearAllTokens, CarryingPlaces
  <2> QED
    BY <1>1, <1>2, <1>3, <2>1, RequestStates, QuietKeeps
<1>5. CASE req[r].device # None
  <2>1. PICK state : state = [pc |-> "issue", device |-> req[r].device, version |-> req[r].version]
    OBVIOUS
  <2>2. req[r].device \in Device /\ req[r].version \in 0..MaxVersion
    BY <1>1, <1>5, RequestAt DEF At
  <2>3. /\ state \in RequestState /\ state.pc = "issue"
        /\ state.device = req[r].device /\ state.version = req[r].version
    BY <2>1, <2>2, RequestStates
  <2>4. Goto(r, state)
    BY <1>5, <2>1 DEF ClearAllTokens
  <2> QED
    BY <1>1, <1>2, <1>3, <2>3, <2>4, QuietKeeps
<1> QED
  BY <1>4, <1>5

LEMMA SetMapKeeps == ASSUME SessionsInv, NEW r \in Request, SetMap(r) PROVE SessionsInv'
<1>1. /\ SessionsTypeOK /\ TokensEndWithSession /\ At(r, "setMap") /\ ~At(r, "clear")
      /\ UNCHANGED <<account, version, fcmToken, token, byTelegram, validCodes>>
      /\ leftBehind' = (leftBehind \union (IF ClearPending THEN {} ELSE Ended(deviceTokens')))
                          \intersect (deviceTokens' \union {fcmToken'})
  BY DEF SessionsInv, SetMap, accountVars, tokenVars, LeftBehind, At
<1>2. PICK d \in Device, on \in BOOLEAN, map \in SUBSET Device :
          d = req[r].device /\ on = req[r].on /\ map = req[r].map
  BY <1>1, VersionFacts, RequestAt DEF At
<1>3. deviceTokens' \subseteq Device
  BY <1>1, <1>2 DEF SetMap, SessionsTypeOK
<1>4. leftBehind' \subseteq Device /\ fcmToken' \in Device \union {None}
  BY <1>1, <1>3 DEF SessionsTypeOK, Ended
<1>5. PICK state : state = [pc |-> "setFcm", device |-> d, on |-> on]
  OBVIOUS
<1>6. state \in RequestState /\ state.pc \notin CarryingPlaces
  BY <1>5, RequestStates DEF CarryingPlaces
<1>7. Goto(r, state)
  BY <1>2, <1>5 DEF SetMap
<1>8. ClearPending => ClearPending'
  BY <1>1, <1>6, <1>7, ClearStays
<1>9. TokensEndWithSession'
  BY <1>1, <1>8 DEF TokensEndWithSession, Ended, Current
<1> QED
  BY <1>1, <1>3, <1>4, <1>6, <1>7, <1>9, QuietKeeps

LEMMA SetFcmKeeps == ASSUME SessionsInv, NEW r \in Request, SetFcmToken(r) PROVE SessionsInv'
<1>1. /\ SessionsTypeOK /\ TokensEndWithSession /\ At(r, "setFcm") /\ ~At(r, "clear")
      /\ UNCHANGED <<account, version, token, byTelegram, validCodes, deviceTokens>>
      /\ Goto(r, Idle)
  BY DEF SessionsInv, SetFcmToken, tokenVars, At
<1>2. PICK d \in Device : d = req[r].device
  BY <1>1, VersionFacts, RequestAt DEF At
<1>3. /\ fcmToken' \in {d, None}
      /\ leftBehind' = (leftBehind \union Ended({d})) \intersect (deviceTokens' \union {fcmToken'})
  BY <1>2 DEF SetFcmToken, LeftBehind
<1>4. fcmToken' \in Device \union {None} /\ deviceTokens' \subseteq Device
      /\ leftBehind' \subseteq Device
  BY <1>1, <1>3 DEF SessionsTypeOK, Ended
<1>5. ClearPending => ClearPending'
  BY <1>1, RequestStates, ClearStays
<1>6. TokensEndWithSession'
  <2>1. fcmToken' # None => Current(fcmToken)' \/ fcmToken' \in leftBehind'
    BY <1>1, <1>3 DEF Ended, Current
  <2>2. ~ClearPending' => Ended(deviceTokens)' \subseteq leftBehind'
    BY <1>1, <1>3, <1>5 DEF TokensEndWithSession, Ended, Current
  <2> QED
    BY <2>1, <2>2 DEF TokensEndWithSession
<1> QED
  BY <1>1, <1>4, <1>6, RequestStates, QuietKeeps DEF CarryingPlaces

LEMMA AbortKeeps == ASSUME SessionsInv, NEW r \in Request, Abort(r) PROVE SessionsInv'
<1>1. /\ SessionsTypeOK /\ TokensEndWithSession /\ Goto(r, Idle)
      /\ UNCHANGED <<account, version, fcmToken, token, byTelegram, validCodes, deviceTokens>>
      /\ leftBehind' = (IF At(r, "clear") THEN leftBehind \union Ended(deviceTokens)
                        ELSE leftBehind)
  BY DEF SessionsInv, Abort, accountVars, tokenVars
<1>2. fcmToken' \in Device \union {None} /\ deviceTokens' \subseteq Device
      /\ leftBehind' \subseteq Device
  BY <1>1 DEF SessionsTypeOK, Ended
<1>3. ~At(r, "clear") /\ ClearPending => ClearPending'
  BY <1>1, RequestStates, ClearStays
<1>4. TokensEndWithSession'
  BY <1>1, <1>3 DEF TokensEndWithSession, Ended, Current
<1> QED
  BY <1>1, <1>2, <1>4, RequestStates, QuietKeeps DEF CarryingPlaces

LEMMA UserSteps == ASSUME SessionsInv, UpdateUser \/ DeleteUser PROVE SessionsInv'
<1>1. /\ account # "none" /\ account' \in {"active", "inactive", "deleted"}
      /\ UNCHANGED <<version, token, byTelegram, deviceTokens, req>>
      /\ validCodes' \subseteq validCodes /\ fcmToken' \in {fcmToken, None}
      /\ leftBehind' \subseteq leftBehind
      /\ \/ leftBehind' = leftBehind
         \/ /\ leftBehind' = leftBehind \intersect (deviceTokens \union {None})
            /\ fcmToken' = None
  <2>1. CASE UpdateUser
    BY <2>1 DEF UpdateUser, tokenVars, deviceVars
  <2>2. CASE DeleteUser
    <3>1. /\ account \in {"active", "inactive"} /\ account' = "deleted" /\ fcmToken' = None
          /\ validCodes' = {} /\ UNCHANGED <<version, token, byTelegram, deviceTokens, req>>
      BY <2>2 DEF DeleteUser, tokenVars
    <3>2. leftBehind' = leftBehind \intersect (deviceTokens \union {None})
      BY <2>2, <3>1 DEF DeleteUser, LeftBehind
    <3> QED
      BY <3>1, <3>2
  <2> QED
    BY <2>1, <2>2
<1>2. SessionsTypeOK'
  BY <1>1 DEF SessionsInv, SessionsTypeOK
<1>3. SessionsCore'
  <2>1. \A r \in Request : KnowsVersion(r)'
    BY <1>1 DEF SessionsInv, SessionsCore, KnowsVersion
  <2>2. NoAccountYet'
    BY <1>1 DEF NoAccountYet
  <2>3. OneHolder'
    BY <1>1 DEF SessionsInv, SessionsCore, OneHolder, Holds, Awaits, Current
  <2> QED
    BY <2>1, <2>2, <2>3 DEF SessionsCore
<1>4. TokensEndWithSession'
  BY <1>1 DEF SessionsInv, SessionsTypeOK, TokensEndWithSession, Ended, Current, ClearPending, At
<1> QED
  BY <1>2, <1>3, <1>4 DEF SessionsInv

LEMMA SessionsInvNext == ASSUME SessionsInv, [SessionsNext]_sessionVars PROVE SessionsInv'
<1>1. CASE UNCHANGED sessionVars
  <2>1. UNCHANGED <<account, version, fcmToken, validCodes, token, byTelegram, deviceTokens,
                    leftBehind, req>>
    BY <1>1 DEF sessionVars, accountVars, tokenVars, deviceVars
  <2>2. SessionsTypeOK'
    BY <2>1 DEF SessionsInv, SessionsTypeOK
  <2>3. SessionsCore'
    BY <2>1 DEF SessionsInv, SessionsCore, KnowsVersion, NoAccountYet, OneHolder, Holds, Awaits,
                Current
  <2>4. TokensEndWithSession'
    BY <2>1 DEF SessionsInv, TokensEndWithSession, Ended, Current, ClearPending, At
  <2> QED
    BY <2>2, <2>3, <2>4 DEF SessionsInv
<1>2. ASSUME NEW r \in Request, SessionHandler(r) PROVE SessionsInv'
  BY <1>2, CodeSteps, LogInKeeps, LogOutKeeps, ClearKeeps, TokenSteps, BeginningSteps,
     SetMapKeeps, SetFcmKeeps, AbortKeeps DEF SessionHandler
<1> QED
  BY <1>1, <1>2, CodeSteps, TokenSteps, UserSteps DEF SessionsNext

-----------------------------------------------------------------------------
(***************************************************************************)
(* The inductive invariant of the inbox.  The account's tokens are tokens  *)
(* that were given and not given up, or are left over in the map; a        *)
(* request that is about to have tokens given up has taken them out of     *)
(* both places, or they were given again or are left over; and a           *)
(* notification under way has noted all of those since it began.           *)
(***************************************************************************)
PhonesWereGiven == phones \subseteq given \union leftovers /\ lastPhone \in given \union {NoPhone}

TokenCallFits(r) ==
    /\ tokenCall[r].at = "giving" => tokenCall[r].phone \in Phone
    /\ tokenCall[r].at = "clearing" => lastPhone \in tokenCall[r].again \union {NoPhone}
    /\ tokenCall[r].at = "forgetting" /\ tokenCall[r].phone \in phones =>
           tokenCall[r].phone \in tokenCall[r].again \union leftovers

PushFits(n) ==
    /\ UnderWay(n) => given \union leftovers \subseteq push[n].had
    /\ UnderWay(n) => push[n].read \in push[n].had \union {NoPhone}
    /\ push[n].to \subseteq push[n].had

InboxInv ==
    /\ InboxTypeOK /\ OffStaysOff /\ PhonesWereGiven
    /\ \A r \in PrefRequest : asking[r].at = "writing" => asking[r].value # "show"
    /\ \A n \in Notice : PushFits(n)
    /\ \A r \in TokenRequest : TokenCallFits(r)

NoticeStep(n) ==
    \/ NotifyOutbid(n) \/ NotifyNewBidForSeller(n) \/ NotifyBidRejected(n)
    \/ NotifyAuctionEndedForParticipant(n) \/ NotifyAuctionExtendedForParticipant(n)
    \/ NotifyOrderShipped(n) \/ NotifyOrderDelivered(n) \/ NotifyOrderCancelled(n)
    \/ NotifyProductApproved(n) \/ NotifyProductRejected(n) \/ NotifyNewMessage(n)

LEMMA InboxInvInit == InboxInit => InboxInv
<1> SUFFICES ASSUME InboxInit PROVE InboxInv
  OBVIOUS
<1> USE DEF InboxInit
<1>1. InboxTypeOK
  BY DEF InboxTypeOK, NoticeType, TokenCall, NoCall, NoPush
<1>2. OffStaysOff /\ PhonesWereGiven
  BY DEF OffStaysOff, PhonesWereGiven
<1>3. \A r \in PrefRequest : asking[r].at = "writing" => asking[r].value # "show"
  OBVIOUS
<1>4. \A n \in Notice : PushFits(n)
  BY DEF PushFits, UnderWay, NoPush
<1>5. \A r \in TokenRequest : TokenCallFits(r)
  BY DEF TokenCallFits, NoCall
<1> QED
  BY <1>1, <1>2, <1>3, <1>4, <1>5 DEF InboxInv

PlaceState == [at : {"idle", "creating", "writing"}, value : {"show", "on", "off"}]
NoticeState ==
    [at : {"none", "allowed", "stored", "addressed", "chosen", "sent"},
     row : {"none", "unread", "read", "deleted"}, type : NoticeType,
     mode : {"data-only", "notification"}]
PushState == [read : Phone \union {NoPhone}, to : SUBSET Phone, had : SUBSET Phone]

\* A request that goes on as it should.
LEMMA PreferenceKeeps ==
    ASSUME InboxInv, NEW r \in PrefRequest, NEW state \in PlaceState,
           asking' = [asking EXCEPT ![r] = state], state.at = "writing" => state.value # "show",
           UNCHANGED <<notice, present, phoneVars, push>>,
           preference' \in {"none", "on", "off"}, switchedOff' \in BOOLEAN, OffStaysOff'
    PROVE  InboxInv'
<1>1. asking' \in [PrefRequest -> PlaceState]
  BY DEF InboxInv, InboxTypeOK, PlaceState
<1>2. \A p \in PrefRequest : asking'[p].at = "writing" => asking'[p].value # "show"
  BY DEF InboxInv, InboxTypeOK
<1>3. InboxTypeOK'
  BY <1>1 DEF InboxInv, InboxTypeOK, PlaceState, phoneVars
<1>4. PhonesWereGiven' /\ (\A n \in Notice : PushFits(n)') /\ \A q \in TokenRequest : TokenCallFits(q)'
  BY DEF InboxInv, PhonesWereGiven, PushFits, UnderWay, TokenCallFits, phoneVars
<1> QED
  BY <1>2, <1>3, <1>4 DEF InboxInv

LEMMA StandFacts ==
    ASSUME InboxInv, NEW r \in PrefRequest, NEW value \in {"show", "on", "off"}, Then(r, value)
    PROVE  \E state \in PlaceState : /\ asking' = [asking EXCEPT ![r] = state]
                                     /\ state.at = "writing" => state.value # "show"
<1>1. CASE value = "show"
  <2>1. asking' = [asking EXCEPT ![r] = [at |-> "idle", value |-> "show"]]
    BY <1>1 DEF Then, StandAt
  <2>2. [at |-> "idle", value |-> "show"] \in PlaceState
    BY DEF PlaceState
  <2> QED
    BY <2>1, <2>2
<1>2. CASE value # "show"
  <2>1. asking' = [asking EXCEPT ![r] = [at |-> "writing", value |-> value]]
    BY <1>2 DEF Then, StandAt
  <2>2. [at |-> "writing", value |-> value] \in PlaceState
    BY DEF PlaceState
  <2> QED
    BY <1>2, <2>1, <2>2
<1> QED
  BY <1>1, <1>2

LEMMA ReadPreferenceKeeps ==
    ASSUME InboxInv, NEW r \in PrefRequest, NEW value \in {"show", "on", "off"},
           ReadPreference(r, value)
    PROVE  InboxInv'
<1>1. UNCHANGED <<preference, switchedOff, notice, present, phoneVars, push>> /\ OffStaysOff'
  BY DEF ReadPreference, InboxInv, OffStaysOff
<1>2. PICK state \in PlaceState : /\ asking' = [asking EXCEPT ![r] = state]
                                  /\ state.at = "writing" => state.value # "show"
  <2>1. CASE preference = "none"
    <3>1. asking' = [asking EXCEPT ![r] = [at |-> "creating", value |-> value]]
      BY <2>1 DEF ReadPreference, StandAt
    <3>2. [at |-> "creating", value |-> value] \in PlaceState
      BY DEF PlaceState
    <3> QED
      BY <3>1, <3>2
  <2>2. CASE preference # "none"
    BY <2>2, StandFacts DEF ReadPreference
  <2> QED
    BY <2>1, <2>2
<1>3. preference' \in {"none", "on", "off"} /\ switchedOff' \in BOOLEAN
  BY <1>1 DEF InboxInv, InboxTypeOK
<1> QED
  BY <1>1, <1>2, <1>3, PreferenceKeeps

LEMMA WritingSteps ==
    ASSUME InboxInv, NEW r \in PrefRequest,
           CreatePreference(r) \/ FindAgain(r) \/ WritePreference(r)
    PROVE  InboxInv'
<1> USE DEF InboxInv, OffStaysOff
<1>0. asking[r] \in PlaceState /\ preference \in {"none", "on", "off"} /\ switchedOff \in BOOLEAN
  BY DEF InboxTypeOK, PlaceState
<1>1. PICK value \in {"show", "on", "off"} : value = asking[r].value
  BY <1>0 DEF PlaceState
<1>2. [at |-> "idle", value |-> "show"] \in PlaceState
  BY DEF PlaceState
<1>3. CASE CreatePreference(r)
  <2>1. UNCHANGED <<switchedOff, notice, present, phoneVars, push>> /\ preference' \in {"on", "off"}
        /\ OffStaysOff'
    BY <1>0, <1>3 DEF CreatePreference, Created
  <2>2. \E state \in PlaceState : /\ asking' = [asking EXCEPT ![r] = state]
                                  /\ state.at = "writing" => state.value # "show"
    <3>1. CASE preference = "none"
      BY <1>1, <1>3, <3>1, StandFacts DEF CreatePreference
    <3>2. CASE preference # "none"
      BY <1>2, <1>3, <3>2 DEF CreatePreference, StandAt
    <3> QED
      BY <3>1, <3>2
  <2> QED
    BY <1>0, <2>1, <2>2, PreferenceKeeps
<1>4. CASE FindAgain(r)
  <2>1. asking' = [asking EXCEPT ![r] = [at |-> "writing", value |-> value]] /\ value # "show"
    BY <1>1, <1>4 DEF FindAgain, StandAt
  <2>2. [at |-> "writing", value |-> value] \in PlaceState
    BY DEF PlaceState
  <2>3. UNCHANGED <<preference, switchedOff, notice, present, phoneVars, push>>
    BY <1>4 DEF FindAgain
  <2> QED
    BY <1>0, <2>1, <2>2, <2>3, PreferenceKeeps
<1>5. CASE WritePreference(r)
  <2>1. asking' = [asking EXCEPT ![r] = [at |-> "idle", value |-> "show"]]
    BY <1>5 DEF WritePreference, StandAt
  <2>2. value # "show" /\ preference' = value /\ switchedOff' = (value = "off")
    BY <1>1, <1>5 DEF WritePreference
  <2>3. UNCHANGED <<notice, present, phoneVars, push>>
    BY <1>5 DEF WritePreference
  <2> QED
    BY <1>2, <2>1, <2>2, <2>3, PreferenceKeeps
<1> QED
  BY <1>3, <1>4, <1>5

-----------------------------------------------------------------------------
\* A notification that goes on with a push that fits.
LEMMA NoticeMoves ==
    ASSUME InboxInv, UNCHANGED <<preferenceVars, present, phoneVars>>,
           notice' \in [Notice -> NoticeState], push' \in [Notice -> PushState],
           \A n \in Notice :
               \/ push'[n] = push[n] /\ (UnderWay(n)' => UnderWay(n))
               \/ PushFits(n)'
    PROVE  InboxInv'
<1>1. UNCHANGED <<preference, switchedOff, asking, present, phones, lastPhone, given, leftovers,
                  tokenCall>>
  BY DEF preferenceVars, phoneVars
<1>2. InboxTypeOK'
  BY <1>1 DEF InboxInv, InboxTypeOK, NoticeState, PushState
<1>3. \A n \in Notice : PushFits(n)'
  BY <1>1 DEF InboxInv, PushFits, UnderWay
<1> QED
  BY <1>1, <1>2, <1>3 DEF InboxInv, OffStaysOff, PhonesWereGiven, TokenCallFits

LEMMA NotifyKeeps ==
    ASSUME InboxInv, NEW n \in Notice, NEW type \in NoticeType, NotifyIfEnabled(n, type)
    PROVE  InboxInv'
<1> DEFINE state == [notice[n] EXCEPT !.at = "allowed", !.type = type]
           fresh == [read |-> lastPhone, to |-> {}, had |-> given \union leftovers]
<1>1. notice \in [Notice -> NoticeState] /\ push \in [Notice -> PushState]
  BY DEF InboxInv, InboxTypeOK, NoticeState, PushState
<1>2. fresh \in PushState /\ lastPhone \in given \union {NoPhone}
  BY DEF InboxInv, InboxTypeOK, PhonesWereGiven, PushState
<1>3. PICK s : s = state
  OBVIOUS
<1>4. PICK f : f = fresh
  OBVIOUS
<1>5. s \in NoticeState
  BY <1>1, <1>3 DEF NoticeState
<1>6. notice' = [notice EXCEPT ![n] = s]
  BY <1>1, <1>3 DEF NotifyIfEnabled
<1>7. push' = [push EXCEPT ![n] = f]
  BY <1>4 DEF NotifyIfEnabled
<1>8. UNCHANGED <<preferenceVars, present, phoneVars>>
  BY DEF NotifyIfEnabled
<1>9. notice' \in [Notice -> NoticeState] /\ push' \in [Notice -> PushState]
  BY <1>1, <1>2, <1>4, <1>5, <1>6, <1>7
<1>10. PushFits(n)'
  <2>1. push'[n] = f /\ given' = given /\ leftovers' = leftovers
    BY <1>1, <1>7, <1>8 DEF phoneVars
  <2> QED
    BY <1>2, <1>4, <2>1 DEF PushFits
<1>11. \A m \in Notice \ {n} : notice'[m] = notice[m] /\ push'[m] = push[m]
  BY <1>1, <1>6, <1>7
<1> QED
  BY <1>8, <1>9, <1>10, <1>11, NoticeMoves DEF UnderWay

LEMMA NoticeSteps == ASSUME InboxInv, NEW n \in Notice, NoticeStep(n) PROVE InboxInv'
<1>1. PICK type \in NoticeType : NotifyIfEnabled(n, type)
  BY DEF NoticeType, NoticeStep, NotifyOutbid, NotifyNewBidForSeller, NotifyBidRejected,
         NotifyAuctionEndedForParticipant, NotifyAuctionExtendedForParticipant,
         NotifyOrderShipped, NotifyOrderDelivered, NotifyOrderCancelled, NotifyProductApproved,
         NotifyProductRejected, NotifyNewMessage
<1> QED
  BY <1>1, NotifyKeeps

\* Steps that leave the push of a notification under way alone.
LEMMA SamePush ==
    ASSUME InboxInv, NEW n \in Notice, NEW state \in NoticeState,
           notice' = [notice EXCEPT ![n] = state], state.at \in {"none", "sent"} \/ UnderWay(n),
           UNCHANGED <<preferenceVars, present, phoneVars, push>>
    PROVE  InboxInv'
<1>1. notice' \in [Notice -> NoticeState] /\ push' \in [Notice -> PushState]
  BY DEF InboxInv, InboxTypeOK, NoticeState, PushState
<1>2. \A m \in Notice : push'[m] = push[m] /\ (UnderWay(m)' => UnderWay(m))
  BY DEF InboxInv, InboxTypeOK, UnderWay
<1> QED
  BY <1>1, <1>2, NoticeMoves

\* A notification is not stored, has nowhere to go or has gone: its push is over.
LEMMA PushEnds ==
    ASSUME InboxInv, NEW n \in Notice, NEW state \in NoticeState, state.at \in {"none", "sent"},
           notice' = [notice EXCEPT ![n] = state], push' = [push EXCEPT ![n] = NoPush],
           UNCHANGED <<preferenceVars, present, phoneVars>>
    PROVE  InboxInv'
<1>1. notice \in [Notice -> NoticeState] /\ push \in [Notice -> PushState]
  BY DEF InboxInv, InboxTypeOK, NoticeState, PushState
<1>2. NoPush \in PushState /\ NoPush.to = {}
  BY DEF NoPush, PushState
<1>3. notice' \in [Notice -> NoticeState] /\ push' \in [Notice -> PushState]
  BY <1>1, <1>2
<1>4. notice'[n].at \in {"none", "sent"} /\ push'[n].to = {}
  BY <1>1, <1>2
<1>5. PushFits(n)'
  BY <1>4 DEF PushFits, UnderWay
<1>6. \A m \in Notice \ {n} : notice'[m] = notice[m] /\ push'[m] = push[m]
  BY <1>1
<1>7. \A m \in Notice \ {n} : UnderWay(m)' => UnderWay(m)
  BY <1>6 DEF UnderWay
<1> QED
  BY <1>3, <1>5, <1>6, <1>7, NoticeMoves

LEMMA PersistSteps ==
    ASSUME InboxInv, NEW n \in Notice,
           \/ Persist(n) \/ ChooseMode(n) \/ SendPush(n)
           \/ UpdateNotification(n) \/ MarkAsRead(n) \/ DeleteNotification(n)
    PROVE  InboxInv'
<1>1. notice \in [Notice -> NoticeState]
  BY DEF InboxInv, InboxTypeOK, NoticeState
<1>2. ASSUME Persist(n) PROVE InboxInv'
  <2>1. PICK s, t : /\ s = [notice[n] EXCEPT !.at = "stored", !.row = "unread"]
                    /\ t = [notice[n] EXCEPT !.at = "none"]
    OBVIOUS
  <2>2. /\ s \in NoticeState /\ t \in NoticeState /\ s.at = "stored" /\ t.at = "none"
        /\ UnderWay(n) /\ UNCHANGED <<preferenceVars, present, phoneVars>>
    BY <1>1, <1>2, <2>1 DEF NoticeState, Persist, UnderWay
  <2>3. \/ notice' = [notice EXCEPT ![n] = s] /\ UNCHANGED push
        \/ notice' = [notice EXCEPT ![n] = t] /\ push' = [push EXCEPT ![n] = NoPush]
    BY <1>1, <1>2, <2>1 DEF Persist
  <2> QED
    BY <2>2, <2>3, SamePush, PushEnds
<1>3. ASSUME ChooseMode(n) PROVE InboxInv'
  <2>1. PICK s : s = [notice[n] EXCEPT !.at = "chosen", !.type = "SYSTEM",
                                       !.mode = DeliveryModeForType(notice[n].type)]
    OBVIOUS
  <2>2. notice' = [notice EXCEPT ![n] = s] /\ UnderWay(n)
    BY <1>1, <1>3, <2>1 DEF ChooseMode, UnderWay
  <2>3. s \in NoticeState
    BY <1>1, <2>1 DEF NoticeState, NoticeType, DeliveryModeForType
  <2>4. UNCHANGED <<preferenceVars, present, phoneVars, push>>
    BY <1>3 DEF ChooseMode
  <2> QED
    BY <2>2, <2>3, <2>4, SamePush
<1>4. ASSUME SendPush(n) PROVE InboxInv'
  <2>1. PICK s : s = [notice[n] EXCEPT !.at = "sent"]
    OBVIOUS
  <2>2. notice' = [notice EXCEPT ![n] = s] /\ push' = [push EXCEPT ![n] = NoPush]
    BY <1>1, <1>4, <2>1 DEF SendPush
  <2>3. s \in NoticeState /\ s.at = "sent"
    BY <1>1, <2>1 DEF NoticeState
  <2>4. UNCHANGED <<preferenceVars, present, phoneVars>>
    BY <1>4 DEF SendPush
  <2> QED
    BY <2>2, <2>3, <2>4, PushEnds
<1>5. ASSUME UpdateNotification(n) \/ MarkAsRead(n) \/ DeleteNotification(n) PROVE InboxInv'
  <2>1. PICK value \in {"read", "unread", "deleted"} : SetRow(n, value)
    BY <1>5 DEF UpdateNotification, MarkAsRead, DeleteNotification
  <2>2. PICK s : s = [notice[n] EXCEPT !.row = value]
    OBVIOUS
  <2>3. notice' = [notice EXCEPT ![n] = s] /\ s.at = notice[n].at
    BY <1>1, <2>1, <2>2 DEF SetRow, NoticeState
  <2>4. s \in NoticeState
    BY <1>1, <2>2 DEF NoticeState
  <2>5. UNCHANGED <<preferenceVars, present, phoneVars, push>>
    BY <2>1 DEF SetRow
  <2> QED
    BY <2>3, <2>4, <2>5, SamePush DEF UnderWay
<1> QED
  BY <1>2, <1>3, <1>4, <1>5

LEMMA GetTokensKeeps == ASSUME InboxInv, NEW n \in Notice, GetTokens(n) PROVE InboxInv'
<1>1. notice \in [Notice -> NoticeState] /\ push \in [Notice -> PushState]
  BY DEF InboxInv, InboxTypeOK, NoticeState, PushState
<1>2. phones \subseteq given \union leftovers /\ given \union leftovers \subseteq push[n].had
      /\ UnderWay(n)
      /\ push[n].read \in push[n].had \union {NoPhone} /\ phones \subseteq Phone
  BY DEF InboxInv, InboxTypeOK, PhonesWereGiven, PushFits, GetTokens, UnderWay
<1>3. PICK to \in {Tokens(n, map) : map \in MapRead} :
          IF to = {}
          THEN notice' = [notice EXCEPT ![n].at = "sent"] /\ push' = [push EXCEPT ![n] = NoPush]
          ELSE notice' = [notice EXCEPT ![n].at = "addressed"] /\ push' = [push EXCEPT ![n].to = to]
  BY DEF GetTokens
<1>4. to \subseteq push[n].had
  BY <1>2, <1>3 DEF Tokens, MapRead
<1>5. to \subseteq Phone
  BY <1>1, <1>4 DEF PushState
<1>6. PICK s : s = [notice[n] EXCEPT !.at = IF to = {} THEN "sent" ELSE "addressed"]
  OBVIOUS
<1>7. PICK f : f = [push[n] EXCEPT !.to = to]
  OBVIOUS
<1>8. /\ notice' = [notice EXCEPT ![n] = s]
      /\ to # {} => push' = [push EXCEPT ![n] = f]
      /\ to = {} => push' = [push EXCEPT ![n] = NoPush]
  BY <1>1, <1>3, <1>6, <1>7
<1>9. s \in NoticeState
  BY <1>1, <1>6 DEF NoticeState
<1>10. f \in PushState /\ f.to = to /\ f.had = push[n].had /\ f.read = push[n].read
  BY <1>1, <1>5, <1>7 DEF PushState
<1>11. UNCHANGED <<preferenceVars, present, phoneVars>>
  BY DEF GetTokens
<1>12. CASE to = {}
  <2>1. s.at = "sent"
    BY <1>1, <1>6, <1>12 DEF NoticeState
  <2> QED
    BY <1>8, <1>9, <1>11, <1>12, <2>1, PushEnds
<1>13. CASE to # {}
  <2>1. notice' \in [Notice -> NoticeState] /\ push' \in [Notice -> PushState]
    BY <1>1, <1>8, <1>9, <1>10, <1>13
  <2>2. push'[n] = f /\ given' = given /\ leftovers' = leftovers
    BY <1>1, <1>8, <1>11, <1>13 DEF phoneVars
  <2>3. PushFits(n)'
    BY <1>2, <1>4, <1>10, <2>2 DEF PushFits
  <2>4. \A m \in Notice \ {n} : notice'[m] = notice[m] /\ push'[m] = push[m]
    BY <1>1, <1>8, <1>13
  <2> QED
    BY <1>11, <2>1, <2>3, <2>4, NoticeMoves DEF UnderWay
<1> QED
  BY <1>12, <1>13

LEMMA MarkAllKeeps == ASSUME InboxInv, MarkAllAsRead PROVE InboxInv'
<1>1. notice \in [Notice -> NoticeState] /\ push \in [Notice -> PushState]
  BY DEF InboxInv, InboxTypeOK, NoticeState, PushState
<1>2. \A n \in Notice : notice'[n] \in NoticeState /\ notice'[n].at = notice[n].at
  BY <1>1 DEF MarkAllAsRead, NoticeState
<1>3. notice' \in [Notice -> NoticeState]
  BY <1>2 DEF MarkAllAsRead
<1> QED
  BY <1>1, <1>2, <1>3, NoticeMoves DEF MarkAllAsRead, UnderWay

-----------------------------------------------------------------------------
\* The account's tokens change, and every notification under way notes those it has.
LEMMA SetPhonesKeeps ==
    ASSUME InboxInv, NEW map \in SUBSET Phone, NEW last \in Phone \union {NoPhone},
           NEW tokens \in SUBSET Phone, NEW left \in SUBSET Phone,
           SetPhones(map, last, tokens, left),
           map \subseteq tokens \union left, last \in tokens \union {NoPhone},
           tokenCall' \in [TokenRequest -> TokenCall], \A r \in TokenRequest : TokenCallFits(r)'
    PROVE  InboxInv'
<1>1. push \in [Notice -> PushState]
  BY DEF InboxInv, InboxTypeOK, PushState
<1>2. phones' = map /\ lastPhone' = last /\ given' = tokens /\ leftovers' = left
      /\ UNCHANGED <<preference, switchedOff, asking, notice, present>>
  BY DEF SetPhones, preferenceVars
<1>3. ASSUME NEW n \in Notice PROVE push'[n] \in PushState /\ PushFits(n)'
  <2>1. CASE ~UnderWay(n)
    BY <1>1, <1>2, <2>1 DEF SetPhones, InboxInv, PushFits, UnderWay
  <2>2. CASE UnderWay(n)
    <3>1. push'[n] = [push[n] EXCEPT !.had = push[n].had \union tokens \union left]
      BY <2>2 DEF SetPhones
    <3>2. /\ push'[n] \in PushState /\ push'[n].had = push[n].had \union tokens \union left
          /\ push'[n].to = push[n].to /\ push'[n].read = push[n].read
      BY <1>1, <3>1 DEF PushState
    <3> QED
      BY <1>2, <2>2, <3>2 DEF InboxInv, PushFits, UnderWay
  <2> QED
    BY <2>1, <2>2
<1>4. push' \in [Notice -> PushState]
  BY <1>3 DEF SetPhones
<1>5. InboxTypeOK'
  BY <1>2, <1>4 DEF InboxInv, InboxTypeOK, PushState
<1> QED
  BY <1>2, <1>3, <1>5 DEF InboxInv, OffStaysOff, PhonesWereGiven

\* What a request that goes to a state has seen to.
StateBegins(state, map, last, left) ==
    /\ state.at = "giving" => state.phone \in Phone
    /\ state.at = "clearing" => last = NoPhone
    /\ state.at = "forgetting" => state.phone \notin map \ left

\* Requests fit as long as what comes into the map or the row is given or left over.
LEMMA TokenCallsFit ==
    ASSUME InboxInv, NEW r \in TokenRequest, NEW state \in TokenCall, NEW gives \in SUBSET Phone,
           TokenCallGoes(r, state, gives),
           phones' \ leftovers' \subseteq (phones \ leftovers) \union gives,
           lastPhone' \in {lastPhone, NoPhone} \union gives,
           lastPhone' \in Phone \union {NoPhone}, phones' \subseteq Phone,
           StateBegins(state, phones', lastPhone', leftovers')
    PROVE  tokenCall' \in [TokenRequest -> TokenCall] /\ \A q \in TokenRequest : TokenCallFits(q)'
<1>1. tokenCall \in [TokenRequest -> TokenCall]
  BY DEF InboxInv, InboxTypeOK
<1>2. tokenCall'[r] = state
  BY DEF TokenCallGoes
<1>3. ASSUME NEW q \in TokenRequest \ {r}
      PROVE  /\ tokenCall'[q] \in TokenCall
             /\ tokenCall'[q].at = tokenCall[q].at /\ tokenCall'[q].phone = tokenCall[q].phone
             /\ tokenCall'[q].again = tokenCall[q].again \union (gives \intersect Takes(q))
  <2>1. tokenCall[q] \in TokenCall
    BY <1>1
  <2>2. tokenCall'[q] = [tokenCall[q] EXCEPT
                            !.again = tokenCall[q].again \union (gives \intersect Takes(q))]
    BY DEF TokenCallGoes
  <2> QED
    BY <2>1, <2>2 DEF TokenCall
<1>4. tokenCall' \in [TokenRequest -> TokenCall]
  BY <1>2, <1>3 DEF TokenCallGoes
<1>5. TokenCallFits(r)'
  BY <1>2 DEF TokenCallFits, StateBegins
<1>6. ASSUME NEW q \in TokenRequest \ {r} PROVE TokenCallFits(q)'
  <2>1. TokenCallFits(q)
    BY DEF InboxInv
  <2>0. tokenCall[q].at = "giving" => tokenCall[q].phone \in Phone
    BY <2>1 DEF TokenCallFits
  <2>2. ASSUME tokenCall[q].at = "clearing" PROVE lastPhone' \in tokenCall'[q].again \union {NoPhone}
    <3>1. gives \subseteq Takes(q)
      BY <2>2 DEF Takes
    <3> QED
      BY <1>3, <2>1, <2>2, <3>1 DEF TokenCallFits
  <2>3. ASSUME tokenCall[q].at = "forgetting", tokenCall[q].phone \in phones'
        PROVE  tokenCall[q].phone \in tokenCall'[q].again \union leftovers'
    <3>1. CASE tokenCall[q].phone \in leftovers'
      BY <3>1
    <3>2. CASE tokenCall[q].phone \in gives
      <4>1. tokenCall[q].phone \in Takes(q)
        BY <2>3, <3>2 DEF Takes
      <4> QED
        BY <1>3, <3>2, <4>1
    <3>3. CASE tokenCall[q].phone \in phones \ leftovers
      BY <1>3, <2>1, <2>3, <3>3 DEF TokenCallFits
    <3> QED
      BY <2>3, <3>1, <3>2, <3>3
  <2> QED
    BY <1>3, <2>0, <2>2, <2>3 DEF TokenCallFits
<1> QED
  BY <1>4, <1>5, <1>6

\* What is left of the tokens by a step that gives some.
TokensFit(map, last, tokens, left, gives) ==
    /\ map \subseteq Phone /\ last \in Phone \union {NoPhone} /\ tokens \subseteq Phone
    /\ left \subseteq Phone /\ gives \subseteq Phone
    /\ map \subseteq tokens \union left /\ last \in tokens \union {NoPhone}
    /\ map \ left \subseteq (phones \ leftovers) \union gives
    /\ last \in {lastPhone, NoPhone} \union gives

\* A step of a token request keeps the invariant.
LEMMA TokenStepKeeps ==
    ASSUME InboxInv, NEW r \in TokenRequest, NEW state \in TokenCall, NEW gives,
           NEW map, NEW last, NEW tokens, NEW left,
           TokenCallGoes(r, state, gives), SetPhones(map, last, tokens, left),
           TokensFit(map, last, tokens, left, gives), StateBegins(state, map, last, left)
    PROVE  InboxInv'
<1>1. phones' = map /\ lastPhone' = last /\ leftovers' = left
  BY DEF SetPhones
<1>2. StateBegins(state, phones', lastPhone', leftovers')
  BY <1>1
<1>3. tokenCall' \in [TokenRequest -> TokenCall] /\ \A q \in TokenRequest : TokenCallFits(q)'
  BY <1>1, <1>2, TokenCallsFit DEF TokensFit
<1> QED
  BY <1>3, SetPhonesKeeps DEF TokensFit

LEMMA PhoneFacts ==
    ASSUME InboxInv
    PROVE  /\ phones \subseteq given \union leftovers /\ lastPhone \in given \union {NoPhone}
           /\ phones \subseteq Phone /\ given \subseteq Phone /\ leftovers \subseteq Phone
           /\ lastPhone \in Phone \union {NoPhone} /\ tokenCall \in [TokenRequest -> TokenCall]
           /\ NoCall \in TokenCall /\ NoCall.at = "idle"
  BY DEF InboxInv, InboxTypeOK, PhonesWereGiven, TokenCall, NoCall

\* A request that only goes on.
LEMMA TokensStay ==
    ASSUME InboxInv, NEW r \in TokenRequest, NEW state \in TokenCall, TokenCallGoes(r, state, {}),
           SetPhones(phones, lastPhone, given, leftovers), state.at \notin {"clearing", "forgetting"},
           state.at = "giving" => state.phone \in Phone
    PROVE  InboxInv'
<1>1. StateBegins(state, phones, lastPhone, leftovers)
  BY DEF StateBegins
<1>2. TokensFit(phones, lastPhone, given, leftovers, {})
  BY PhoneFacts DEF TokensFit
<1> QED
  BY <1>1, <1>2, TokenStepKeeps

LEMMA TokenPlaces ==
    ASSUME InboxInv, NEW r \in TokenRequest, tokenCall[r].at = "giving"
    PROVE  tokenCall[r].phone \in Phone
  BY DEF InboxInv, TokenCallFits

LEMMA MapSteps ==
    ASSUME InboxInv, NEW r \in TokenRequest, GiveInMap(r) \/ TakeFromMap(r)
    PROVE  InboxInv'
<1>1. PICK p, known, again : p = tokenCall[r].phone /\ known = tokenCall[r].map
                             /\ again = tokenCall[r].again
  OBVIOUS
<1>2. known \subseteq Phone /\ again \subseteq Phone /\ p \in Phone \union {NoPhone}
  BY <1>1, PhoneFacts DEF TokenCall
<1>3. PICK map : map = Written(r)
  OBVIOUS
<1>4. PICK stale : stale = StaleIn(map)
  OBVIOUS
<1>5. stale = (leftovers \union (map \ phones)) \intersect map
  BY <1>4 DEF StaleIn
<1>6. CASE GiveInMap(r)
  <2>1. PICK named : named = [at |-> "naming", phone |-> p, map |-> {}, again |-> {}]
    OBVIOUS
  <2>2. named \in TokenCall /\ named.at = "naming"
    BY <1>2, <2>1 DEF TokenCall
  <2>3. map = known \union {p}
    BY <1>1, <1>3, <1>6 DEF Written, GiveInMap
  <2>4. \/ /\ TokenCallGoes(r, named, {p})
           /\ SetPhones(map, lastPhone, given \union {p}, stale \ {p})
        \/ TokenCallGoes(r, named, {}) /\ SetPhones(phones, lastPhone, given, leftovers)
    BY <1>1, <1>3, <1>4, <1>6, <2>1 DEF GiveInMap
  <2>5. p \in Phone
    BY <1>1, <1>6, TokenPlaces DEF GiveInMap
  <2>6. CASE /\ TokenCallGoes(r, named, {p})
             /\ SetPhones(map, lastPhone, given \union {p}, stale \ {p})
    <3>1. TokensFit(map, lastPhone, given \union {p}, stale \ {p}, {p})
      BY <1>2, <1>5, <2>3, <2>5, PhoneFacts DEF TokensFit
    <3>2. StateBegins(named, map, lastPhone, stale \ {p})
      BY <2>2 DEF StateBegins
    <3> QED
      BY <2>2, <2>6, <3>1, <3>2, TokenStepKeeps
  <2> QED
    BY <2>2, <2>4, <2>6, TokensStay
<1>7. CASE TakeFromMap(r)
  <2>1. PICK forgetting : forgetting = [at |-> "forgetting", phone |-> p, map |-> {}, again |-> again]
    OBVIOUS
  <2>2. forgetting \in TokenCall /\ forgetting.at = "forgetting" /\ forgetting.phone = p
    BY <1>2, <2>1 DEF TokenCall
  <2>3. map = known \ {p}
    BY <1>1, <1>3, <1>7 DEF Written, TakeFromMap
  <2>4. /\ TokenCallGoes(r, forgetting, {})
        /\ \/ SetPhones(map, lastPhone, given, stale)
           \/ SetPhones(phones, lastPhone, given, leftovers \union ({p} \intersect phones))
    BY <1>1, <1>3, <1>4, <1>7, <2>1 DEF TakeFromMap
  <2>5. CASE SetPhones(map, lastPhone, given, stale)
    <3>1. TokensFit(map, lastPhone, given, stale, {})
      BY <1>2, <1>5, <2>3, PhoneFacts DEF TokensFit
    <3>2. StateBegins(forgetting, map, lastPhone, stale)
      BY <2>2, <2>3 DEF StateBegins
    <3> QED
      BY <2>2, <2>4, <2>5, <3>1, <3>2, TokenStepKeeps
  <2>6. CASE SetPhones(phones, lastPhone, given, leftovers \union ({p} \intersect phones))
    <3>1. PICK left : left = leftovers \union ({p} \intersect phones)
      OBVIOUS
    <3>2. TokensFit(phones, lastPhone, given, left, {})
      BY <3>1, PhoneFacts DEF TokensFit
    <3>3. StateBegins(forgetting, phones, lastPhone, left)
      BY <2>2, <3>1 DEF StateBegins
    <3>4. SetPhones(phones, lastPhone, given, left)
      BY <2>6, <3>1
    <3> QED
      BY <2>2, <2>4, <3>2, <3>3, <3>4, TokenStepKeeps
  <2> QED
    BY <2>4, <2>5, <2>6
<1> QED
  BY <1>6, <1>7

LEMMA RowTokenSteps ==
    ASSUME InboxInv, NEW r \in TokenRequest, NameToken(r) \/ ForgetToken(r) \/ ForgetPhones(r)
    PROVE  InboxInv'
<1>1. CASE NameToken(r)
  <2>1. PICK p \in Phone : /\ TokenCallGoes(r, NoCall, {p})
                           /\ SetPhones(phones, p, given \union {p}, leftovers)
    BY <1>1 DEF NameToken
  <2>2. TokensFit(phones, p, given \union {p}, leftovers, {p})
    BY PhoneFacts DEF TokensFit
  <2>3. StateBegins(NoCall, phones, p, leftovers)
    BY PhoneFacts DEF StateBegins
  <2> QED
    BY <2>1, <2>2, <2>3, PhoneFacts, TokenStepKeeps
<1>2. CASE ForgetToken(r)
  <2>1. PICK gone :
            /\ gone = IF tokenCall[r].at = "forgetting"
                      THEN {tokenCall[r].phone} \ tokenCall[r].again ELSE {}
            /\ TokenCallGoes(r, NoCall, {})
            /\ SetPhones(phones, NoPhone, given \ gone, leftovers)
    BY <1>2 DEF ForgetToken
  <2>2. gone \intersect phones \subseteq leftovers
    BY <2>1 DEF InboxInv, TokenCallFits
  <2>3. TokensFit(phones, NoPhone, given \ gone, leftovers, {})
    BY <2>2, PhoneFacts DEF TokensFit
  <2>4. StateBegins(NoCall, phones, NoPhone, leftovers)
    BY PhoneFacts DEF StateBegins
  <2> QED
    BY <2>1, <2>3, <2>4, PhoneFacts, TokenStepKeeps
<1>3. CASE ForgetPhones(r)
  <2>1. PICK state : state = [at |-> "clearing", phone |-> NoPhone, map |-> {}, again |-> {}]
    OBVIOUS
  <2>2. state = [NoCall EXCEPT !.at = "clearing"] /\ state \in TokenCall /\ state.at = "clearing"
    BY <2>1 DEF NoCall, TokenCall
  <2>3. TokenCallGoes(r, state, {}) /\ SetPhones(phones, NoPhone, given, leftovers)
    BY <1>3, <2>2 DEF ForgetPhones, AfterLogout
  <2>4. TokensFit(phones, NoPhone, given, leftovers, {})
    BY PhoneFacts DEF TokensFit
  <2>5. StateBegins(state, phones, NoPhone, leftovers)
    BY <2>2 DEF StateBegins
  <2> QED
    BY <2>2, <2>3, <2>4, <2>5, TokenStepKeeps
<1> QED
  BY <1>1, <1>2, <1>3

LEMMA ClearPhonesKeeps == ASSUME InboxInv, NEW r \in TokenRequest, ClearPhones(r) PROVE InboxInv'
<1>1. PICK again : again = tokenCall[r].again
  OBVIOUS
<1>2. PICK kept : kept = given \intersect again
  OBVIOUS
<1>3. lastPhone \in kept \union {NoPhone}
  BY <1>1, <1>2, PhoneFacts DEF ClearPhones, InboxInv, TokenCallFits
<1>4. TokenCallGoes(r, NoCall, {})
  BY DEF ClearPhones
<1>5. CASE SetPhones({}, lastPhone, kept, {})
  <2>1. TokensFit({}, lastPhone, kept, {}, {})
    BY <1>2, <1>3, PhoneFacts DEF TokensFit
  <2>2. StateBegins(NoCall, {}, lastPhone, {})
    BY PhoneFacts DEF StateBegins
  <2> QED
    BY <1>4, <1>5, <2>1, <2>2, PhoneFacts, TokenStepKeeps
<1>6. CASE SetPhones(phones, lastPhone, kept, leftovers \union (phones \ again))
  <2>1. PICK left : left = leftovers \union (phones \ again)
    OBVIOUS
  <2>2. TokensFit(phones, lastPhone, kept, left, {})
    BY <1>2, <1>3, <2>1, PhoneFacts DEF TokensFit
  <2>3. StateBegins(NoCall, phones, lastPhone, left)
    BY PhoneFacts DEF StateBegins
  <2>4. SetPhones(phones, lastPhone, kept, left)
    BY <1>6, <2>1
  <2> QED
    BY <1>4, <2>2, <2>3, <2>4, PhoneFacts, TokenStepKeeps
<1> QED
  BY <1>1, <1>2, <1>5, <1>6 DEF ClearPhones

LEMMA PhoneSteps == ASSUME InboxInv, PhoneStep PROVE InboxInv'
<1>1. ASSUME NEW r \in TokenRequest, ReadMap(r) PROVE InboxInv'
  <2>1. PICK place \in {"giving", "taking"}, p \in Phone, map \in MapRead :
            TokenCallGoes(r, [at |-> place, phone |-> p, map |-> map, again |-> {}], {})
    BY <1>1 DEF ReadMap
  <2>2. PICK state : state = [at |-> place, phone |-> p, map |-> map, again |-> {}]
    OBVIOUS
  <2>3. /\ state \in TokenCall /\ state.at \notin {"clearing", "forgetting"}
        /\ state.phone \in Phone
    BY <2>2, PhoneFacts DEF TokenCall, MapRead
  <2> QED
    BY <1>1, <2>1, <2>2, <2>3, TokensStay DEF ReadMap
<1>2. ASSUME NEW r \in TokenRequest, TokenCallStops(r) PROVE InboxInv'
  BY <1>2, PhoneFacts, TokensStay DEF TokenCallStops
<1> QED
  BY <1>1, <1>2, MapSteps, RowTokenSteps, ClearPhonesKeeps DEF PhoneStep

LEMMA PresenceSteps == ASSUME InboxInv, Ping \/ PresenceExpires PROVE InboxInv'
<1>1. present' \in BOOLEAN /\ UNCHANGED <<preference, switchedOff, asking, notice, phones,
                                          lastPhone, given, leftovers, tokenCall, push>>
  BY DEF Ping, PresenceExpires, preferenceVars, phoneVars
<1> QED
  BY <1>1 DEF InboxInv, InboxTypeOK, OffStaysOff, PhonesWereGiven, PushFits, UnderWay, TokenCallFits

LEMMA InboxInvNext == ASSUME InboxInv, [InboxNext]_inboxVars PROVE InboxInv'
<1>1. CASE UNCHANGED inboxVars
  BY <1>1 DEF inboxVars, preferenceVars, phoneVars, InboxInv, InboxTypeOK, OffStaysOff,
              PhonesWereGiven, PushFits, UnderWay, TokenCallFits
<1>2. ASSUME NEW r \in PrefRequest, GetNotificationPreference(r) \/ UpdateNotificationPreference(r)
      PROVE  InboxInv'
  BY <1>2, ReadPreferenceKeeps DEF GetNotificationPreference, UpdateNotificationPreference
<1> QED
  BY <1>1, <1>2, WritingSteps, NoticeSteps, PersistSteps, GetTokensKeeps, MarkAllKeeps, PhoneSteps,
     PresenceSteps DEF InboxNext, PreferenceStep, PushStep, RowStep, NoticeStep

-----------------------------------------------------------------------------
(***************************************************************************)
(* The inductive invariant of the client's conversation: what ListIsThread *)
(* and InItsRoom say, with all that may still be under way.  A message     *)
(* that should be in the list is in it, missed, about to be announced or   *)
(* in an answer; a list or an answer that is older than a change knows of  *)
(* it, or the change is about to be announced, or was missed.              *)
(***************************************************************************)
RoomRowsFit ==
    /\ \A m \in removed \union changed : thread[m] # NoConversation
    /\ \A e \in emits : /\ thread[e.message] # NoConversation
                        /\ e.event = "deleted" => e.message \in removed
    /\ \A p \in Page : /\ page[p].at # "none" => page[p].of \in Conversation
                       /\ page[p].at = "none" => page[p] = NoPage
                       /\ \A m \in page[p].data : thread[m] = page[p].of
    /\ \A m \in list : thread[m] # NoConversation
    /\ \A m \in list \ strays : thread[m] = current
    /\ \A m \in strays : thread[m] # current

Brings(p, m) == page[p].of = current /\ (page[p].at = "asked" \/ Carries(p, m))

NothingIsLost ==
    \A m \in RoomMessage : thread[m] = current /\ current # NoConversation /\ m \notin removed =>
        m \in list \/ New(m) \in missed \union emits \/ \E p \in Page : Brings(p, m)

DeletionsAreTold ==
    \A m \in removed :
        m \in list \ strays \/ New(m) \in emits \/ (\E p \in Page : Carries(p, m)) =>
            Deleted(m) \in missed \union emits

EditsAreTold ==
    \A m \in changed :
        (\/ m \in (list \ strays) \ listedNew \/ New(m) \in emits
         \/ \E p \in Page : Carries(p, m) /\ m \notin page[p].new) =>
            Edited(m) \in missed \union emits

JoinIsComing ==
    /\ connection = "closed" => asked = {} /\ room = {}
    /\ connection = "open" /\ current # NoConversation /\ ~inDoubt =>
           current \in room \/ [event |-> "join", of |-> current] \in asked
    /\ [event |-> "leave", of |-> current] \in asked => inDoubt

RoomsInv ==
    RoomsTypeOK /\ RoomRowsFit /\ NothingIsLost /\ DeletionsAreTold /\ EditsAreTold /\ JoinIsComing

LEMMA EventFacts ==
    /\ \A e \in Event : /\ e.message \in RoomMessage /\ e.event \in {"new", "deleted", "edited"}
                        /\ e.event = "new" => e = New(e.message)
                        /\ e.event = "deleted" => e = Deleted(e.message)
                        /\ e.event = "edited" => e = Edited(e.message)
    /\ \A m \in RoomMessage :
           /\ New(m) \in Event /\ New(m).event = "new" /\ New(m).message = m
           /\ Deleted(m) \in Event /\ Deleted(m).event = "deleted" /\ Deleted(m).message = m
           /\ Edited(m) \in Event /\ Edited(m).event = "edited" /\ Edited(m).message = m
  BY DEF Event, New, Deleted, Edited

PageState ==
    [at : {"none", "asked", "answered"}, of : Conversation \union {NoConversation},
     data : SUBSET RoomMessage, new : SUBSET RoomMessage]

LEMMA RoomsInvSays == RoomsInv => RoomShowsThread
<1> SUFFICES ASSUME RoomsInv PROVE ListIsThread /\ InItsRoom
  BY DEF RoomShowsThread
<1> USE DEF RoomsInv
<1>1. InItsRoom
  BY DEF InItsRoom, JoinIsComing
<1>2. ListIsThread
  <2> SUFFICES ASSUME emits = {}, \A p \in Page : page[p] = NoPage
               PROVE  /\ \A m \in RoomMessage :
                             thread[m] = current /\ current # NoConversation /\ m \notin removed =>
                                 m \in list \/ New(m) \in missed
                      /\ \A m \in list \ strays :
                             /\ thread[m] = current
                             /\ m \in removed => Deleted(m) \in missed
                             /\ m \in changed \ listedNew => Edited(m) \in missed
    BY DEF ListIsThread
  <2>1. \A p \in Page, m \in RoomMessage : ~Carries(p, m) /\ ~Brings(p, m)
    BY DEF Carries, Brings, NoPage
  <2> QED
    BY <2>1 DEF NothingIsLost, DeletionsAreTold, EditsAreTold, RoomRowsFit, RoomsTypeOK
<1> QED
  BY <1>1, <1>2

LEMMA RoomsInvInit == RoomsInit => RoomsInv
<1> SUFFICES ASSUME RoomsInit PROVE RoomsInv
  OBVIOUS
<1> USE RoomsAssumption DEF RoomsInit
<1>1. NoPage \in PageState
  BY DEF NoPage, PageState
<1>2. RoomsTypeOK
  BY <1>1 DEF RoomsTypeOK, PageState
<1>3. RoomRowsFit
  BY DEF RoomRowsFit, NoPage
<1>4. NothingIsLost /\ DeletionsAreTold /\ EditsAreTold /\ JoinIsComing
  BY DEF NothingIsLost, DeletionsAreTold, EditsAreTold, JoinIsComing
<1> QED
  BY <1>2, <1>3, <1>4 DEF RoomsInv

-----------------------------------------------------------------------------
\* A row changes, and the change is about to be announced.
LEMMA CommitSteps ==
    ASSUME RoomsInv, NEW m \in RoomMessage,
           (\E c \in Conversation : CommitNew(m, c)) \/ CommitEdit(m) \/ CommitDeletion(m)
    PROVE  RoomsInv'
<1> USE RoomsAssumption DEF RoomsInv
<1>0. UNCHANGED <<connection, room, asked, current, page, list, listedNew, missed, strays, inDoubt>>
  BY DEF CommitNew, CommitEdit, CommitDeletion, roomSocketVars, viewVars, roomHistory
<1>a. \A p \in Page : \A n : Carries(p, n)' <=> Carries(p, n)
  BY <1>0 DEF Carries
<1>b. \A p \in Page : \A n : Brings(p, n)' <=> Brings(p, n)
  BY <1>0, <1>a DEF Brings
<1>c. JoinIsComing'
  BY <1>0 DEF JoinIsComing
<1>1. ASSUME NEW c \in Conversation, CommitNew(m, c) PROVE RoomsInv'
  <2>1. /\ thread[m] = NoConversation /\ thread' = [thread EXCEPT ![m] = c]
        /\ emits' = emits \union {New(m)} /\ removed' = removed /\ changed' = changed
    BY <1>1 DEF CommitNew
  <2>2. RoomsTypeOK'
    BY <1>0, <2>1, EventFacts DEF RoomsTypeOK
  <2>3. thread'[m] = c /\ \A n \in RoomMessage \ {m} : thread'[n] = thread[n]
    BY <2>1 DEF RoomsTypeOK
  <2>4. m \notin removed /\ m \notin changed /\ m \notin list
        /\ \A p \in Page : m \notin page[p].data
    BY <2>1 DEF RoomRowsFit, RoomsTypeOK, NoPage
  <2>5. RoomRowsFit'
    <3>1. \A e \in emits' : /\ thread'[e.message] # NoConversation
                            /\ e.event = "deleted" => e.message \in removed'
      BY <2>1, <2>3, EventFacts DEF RoomRowsFit, RoomsTypeOK
    <3>2. \A p \in Page : /\ page'[p].at # "none" => page'[p].of \in Conversation
                          /\ page'[p].at = "none" => page'[p] = NoPage
                          /\ \A n \in page'[p].data : thread'[n] = page'[p].of
      BY <1>0, <2>3, <2>4 DEF RoomRowsFit, RoomsTypeOK
    <3> QED
      BY <1>0, <2>1, <2>3, <2>4, <3>1, <3>2 DEF RoomRowsFit, RoomsTypeOK
  <2>6. NothingIsLost'
    BY <1>0, <1>b, <2>1, <2>3 DEF NothingIsLost
  <2>7. DeletionsAreTold' /\ EditsAreTold'
    BY <1>0, <1>a, <2>1, <2>4, EventFacts DEF DeletionsAreTold, EditsAreTold, RoomsTypeOK
  <2> QED
    BY <1>c, <2>2, <2>5, <2>6, <2>7
<1>2. ASSUME CommitEdit(m) PROVE RoomsInv'
  <2>1. /\ thread' = thread /\ emits' = emits \union {Edited(m)} /\ removed' = removed
        /\ changed' = changed \union {m} /\ thread[m] # NoConversation
    BY <1>2 DEF CommitEdit
  <2>2. RoomsTypeOK'
    BY <1>0, <2>1, EventFacts DEF RoomsTypeOK
  <2>3. RoomRowsFit'
    BY <1>0, <2>1, EventFacts DEF RoomRowsFit, RoomsTypeOK
  <2>4. NothingIsLost' /\ DeletionsAreTold' /\ EditsAreTold'
    BY <1>0, <1>a, <1>b, <2>1, EventFacts
       DEF NothingIsLost, DeletionsAreTold, EditsAreTold, RoomsTypeOK
  <2> QED
    BY <1>c, <2>2, <2>3, <2>4
<1>3. ASSUME CommitDeletion(m) PROVE RoomsInv'
  <2>1. /\ thread' = thread /\ emits' = emits \union {Deleted(m)} /\ changed' = changed
        /\ removed' = removed \union {m} /\ thread[m] # NoConversation
    BY <1>3 DEF CommitDeletion
  <2>2. RoomsTypeOK'
    BY <1>0, <2>1, EventFacts DEF RoomsTypeOK
  <2>3. RoomRowsFit'
    BY <1>0, <2>1, EventFacts DEF RoomRowsFit, RoomsTypeOK
  <2>4. NothingIsLost' /\ DeletionsAreTold' /\ EditsAreTold'
    BY <1>0, <1>a, <1>b, <2>1, EventFacts
       DEF NothingIsLost, DeletionsAreTold, EditsAreTold, RoomsTypeOK
  <2> QED
    BY <1>c, <2>2, <2>3, <2>4
<1> QED
  BY <1>1, <1>2, <1>3

LEMMA DeleteOverHttpKeeps ==
    ASSUME RoomsInv, NEW m \in RoomMessage, DeleteOverHttp(m)
    PROVE  RoomsInv'
<1> USE RoomsAssumption DEF RoomsInv
<1>0. /\ UNCHANGED <<thread, changed, emits, connection, room, asked, current, page, list,
                     listedNew, strays, inDoubt>>
      /\ thread[m] # NoConversation /\ removed' = removed \union {m}
      /\ missed' = missed \union {e \in {Deleted(m)} : thread[e.message] = current \/ Overtakes(e)}
  BY DEF DeleteOverHttp, NotHeard, roomSocketVars, viewVars
<1>1. /\ missed \subseteq missed' /\ missed' \subseteq missed \union {Deleted(m)}
      /\ thread[m] = current \/ Overtakes(Deleted(m)) => Deleted(m) \in missed'
  BY <1>0, EventFacts
<1>a. \A p \in Page : \A n : Carries(p, n)' <=> Carries(p, n)
  BY <1>0 DEF Carries
<1>b. \A p \in Page : \A n : Brings(p, n)' <=> Brings(p, n)
  BY <1>0, <1>a DEF Brings
<1>2. RoomsTypeOK'
  BY <1>0, <1>1, EventFacts DEF RoomsTypeOK
<1>3. RoomRowsFit' /\ JoinIsComing'
  BY <1>0 DEF RoomRowsFit, JoinIsComing
<1>4. NothingIsLost' /\ EditsAreTold'
  BY <1>0, <1>1, <1>a, <1>b DEF NothingIsLost, EditsAreTold
<1>5. DeletionsAreTold'
  <2>1. m \in list \ strays \/ New(m) \in emits \/ (\E p \in Page : Carries(p, m)) =>
            Deleted(m) \in missed'
    BY <1>0, <1>1, EventFacts DEF RoomRowsFit, Overtakes, CarriesOld
  <2> QED
    BY <1>0, <1>1, <1>a, <2>1 DEF DeletionsAreTold
<1> QED
  BY <1>2, <1>3, <1>4, <1>5

LEMMA BroadcastKeeps == ASSUME RoomsInv, NEW e \in Event, Broadcast(e) PROVE RoomsInv'
<1> USE RoomsAssumption DEF RoomsInv
<1> DEFINE m == e.message
<1>0. /\ UNCHANGED <<thread, removed, changed, connection, room, asked, current, page, strays,
                     inDoubt>>
      /\ e \in emits /\ emits' = emits \ {e} /\ m \in RoomMessage
      /\ thread[m] # NoConversation /\ (e.event = "deleted" => m \in removed)
  BY EventFacts DEF Broadcast, rowVars, roomSocketVars, RoomRowsFit
<1>a. \A p \in Page : \A n : Carries(p, n)' <=> Carries(p, n)
  BY <1>0 DEF Carries
<1>b. \A p \in Page : \A n : Brings(p, n)' <=> Brings(p, n)
  BY <1>0, <1>a DEF Brings
<1>c. JoinIsComing'
  BY <1>0 DEF JoinIsComing
<1>1. /\ missed \subseteq missed' /\ missed' \subseteq missed \union {e}
      /\ Overtakes(e) => e \in missed'
      /\ e \notin missed' /\ thread[m] = current => thread[m] \in room
  BY <1>0 DEF Broadcast, Heard, NotHeard
\* What becomes of the list.
<1>2. CASE thread[m] = current /\ thread[m] \in room
  <2>1. Receive(e)
    BY <1>2 DEF Broadcast, Concerns
  <2>2. CASE e.event = "new"
    <3>1. list' = list \union {m} /\ listedNew' = listedNew /\ e = New(m)
      BY <2>1, <2>2, EventFacts DEF Receive
    <3>2. RoomsTypeOK' /\ RoomRowsFit'
      BY <1>0, <1>1, <1>2, <3>1 DEF RoomsTypeOK, RoomRowsFit
    <3>3. NothingIsLost' /\ DeletionsAreTold' /\ EditsAreTold'
      BY <1>0, <1>1, <1>a, <1>b, <2>2, <3>1, EventFacts
         DEF NothingIsLost, DeletionsAreTold, EditsAreTold, RoomsTypeOK
    <3> QED
      BY <1>c, <3>2, <3>3
  <2>3. CASE e.event = "deleted"
    <3>1. list' = list \ {m} /\ listedNew' = listedNew \ {m} /\ e = Deleted(m)
      BY <2>1, <2>3, EventFacts DEF Receive
    <3>2. m \notin strays
      BY <1>2 DEF RoomRowsFit
    <3>3. RoomsTypeOK' /\ RoomRowsFit'
      BY <1>0, <1>1, <3>1, <3>2 DEF RoomsTypeOK, RoomRowsFit
    <3>4. NothingIsLost'
      BY <1>0, <1>1, <1>b, <2>3, <3>1, EventFacts DEF NothingIsLost, RoomsTypeOK
    <3>5. DeletionsAreTold'
      <4>1. New(m) \in emits' \/ (\E p \in Page : Carries(p, m)) => Deleted(m) \in missed'
        BY <1>0, <1>1, <2>3, <3>1, EventFacts DEF Overtakes, CarriesOld
      <4> QED
        BY <1>0, <1>1, <1>a, <3>1, <4>1, EventFacts DEF DeletionsAreTold, RoomsTypeOK
    <3>6. EditsAreTold'
      BY <1>0, <1>1, <1>a, <3>1, EventFacts DEF EditsAreTold, RoomsTypeOK
    <3> QED
      BY <1>c, <3>3, <3>4, <3>5, <3>6
  <2>4. CASE e.event = "edited"
    <3>1. list' = list /\ listedNew' = listedNew \union (list \intersect {m}) /\ e = Edited(m)
      BY <2>1, <2>4, EventFacts DEF Receive
    <3>2. RoomsTypeOK' /\ RoomRowsFit'
      BY <1>0, <1>1, <3>1 DEF RoomsTypeOK, RoomRowsFit
    <3>3. NothingIsLost' /\ DeletionsAreTold'
      BY <1>0, <1>1, <1>a, <1>b, <3>1, EventFacts DEF NothingIsLost, DeletionsAreTold, RoomsTypeOK
    <3>4. EditsAreTold'
      <4>1. (\/ New(m) \in emits'
             \/ \E p \in Page : Carries(p, m) /\ m \notin page[p].new) =>
                Edited(m) \in missed'
        BY <1>0, <1>1, <2>4, <3>1, EventFacts DEF Overtakes, CarriesOld
      <4> QED
        BY <1>0, <1>1, <1>a, <3>1, <4>1, EventFacts DEF EditsAreTold, RoomsTypeOK
    <3> QED
      BY <1>c, <3>2, <3>3, <3>4
  <2> QED
    BY <2>2, <2>3, <2>4, EventFacts
<1>3. CASE ~(thread[m] = current /\ thread[m] \in room)
  <2>1. list' = list /\ listedNew' = listedNew
    BY <1>3 DEF Broadcast, Concerns
  <2>2. RoomsTypeOK' /\ RoomRowsFit'
    BY <1>0, <1>1, <2>1 DEF RoomsTypeOK, RoomRowsFit
  <2>3. thread[m] = current => e \in missed'
    BY <1>1, <1>3
  <2>4. NothingIsLost'
    BY <1>0, <1>1, <1>b, <2>1, <2>3, EventFacts DEF NothingIsLost
  <2>5. DeletionsAreTold'
    <3>1. ASSUME NEW n \in removed, Deleted(n) = e,
                 n \in list \ strays \/ New(n) \in emits \/ (\E p \in Page : Carries(p, n))
          PROVE  e \in missed'
      BY <1>1, <2>3, <3>1, EventFacts DEF Overtakes, CarriesOld, RoomRowsFit, RoomsTypeOK
    <3> QED
      BY <1>0, <1>1, <1>a, <2>1, <3>1 DEF DeletionsAreTold
  <2>6. EditsAreTold'
    <3>1. ASSUME NEW n \in changed, Edited(n) = e,
                 \/ n \in (list \ strays) \ listedNew \/ New(n) \in emits
                 \/ \E p \in Page : Carries(p, n) /\ n \notin page[p].new
          PROVE  e \in missed'
      BY <1>1, <2>3, <3>1, EventFacts DEF Overtakes, CarriesOld, RoomRowsFit, RoomsTypeOK
    <3> QED
      BY <1>0, <1>1, <1>a, <2>1, <3>1 DEF EditsAreTold
  <2> QED
    BY <1>c, <2>2, <2>4, <2>5, <2>6
<1> QED
  BY <1>2, <1>3

-----------------------------------------------------------------------------
\* The socket.
LEMMA SocketSteps ==
    ASSUME RoomsInv,
           \/ OpenSocket \/ JoinAllRooms \/ CloseSocket
           \/ \E c \in Conversation : JoinRoom(c) \/ LeaveRoom(c)
    PROVE  RoomsInv'
<1> USE RoomsAssumption DEF RoomsInv
<1>0. UNCHANGED <<thread, removed, changed, emits, current, page, list, listedNew, missed, strays>>
  BY DEF OpenSocket, JoinAllRooms, CloseSocket, JoinRoom, LeaveRoom, rowVars, viewVars, roomHistory
<1>1. RoomRowsFit'
  BY <1>0 DEF RoomRowsFit
<1>2. NothingIsLost' /\ DeletionsAreTold' /\ EditsAreTold'
  BY <1>0 DEF NothingIsLost, DeletionsAreTold, EditsAreTold, Brings, Carries
<1>3. ASSUME OpenSocket \/ JoinAllRooms \/ CloseSocket PROVE RoomsTypeOK' /\ JoinIsComing'
  <2>1. RoomsTypeOK'
    BY <1>0, <1>3 DEF OpenSocket, JoinAllRooms, CloseSocket, RoomsTypeOK, roomHistory
  <2>2. JoinIsComing'
    BY <1>0, <1>3 DEF OpenSocket, JoinAllRooms, CloseSocket, RoomsTypeOK, JoinIsComing, roomHistory
  <2> QED
    BY <2>1, <2>2
<1>4. ASSUME NEW c \in Conversation, JoinRoom(c) \/ LeaveRoom(c) PROVE RoomsTypeOK' /\ JoinIsComing'
  <2>1. RoomsTypeOK'
    BY <1>0, <1>4 DEF JoinRoom, LeaveRoom, IfAllowed, RoomsTypeOK, roomHistory
  <2>2. CASE JoinRoom(c)
    BY <1>0, <2>1, <2>2 DEF JoinRoom, IfAllowed, RoomsTypeOK, JoinIsComing
  <2>3. CASE LeaveRoom(c)
    BY <1>0, <2>1, <2>3 DEF LeaveRoom, IfAllowed, RoomsTypeOK, JoinIsComing, roomHistory
  <2> QED
    BY <1>4, <2>1, <2>2, <2>3
<1> QED
  BY <1>1, <1>2, <1>3, <1>4

LEMMA GatewayStopsKeeps == ASSUME RoomsInv, GatewayStops PROVE RoomsInv'
<1> USE RoomsAssumption DEF RoomsInv
<1>0. /\ connection' = "closed" /\ room' = {} /\ asked' = {} /\ emits' = {}
      /\ UNCHANGED <<thread, removed, changed, current, list, listedNew, strays, inDoubt>>
      /\ page' = [p \in Page |-> NoPage]
  BY DEF GatewayStops, rowVars
<1>1. /\ missed \subseteq missed' /\ missed' \subseteq Event
      /\ \A e \in emits \union {New(m) : m \in Wanted(Page)} :
             thread[e.message] = current => e \in missed'
  BY EventFacts DEF GatewayStops, NotHeard, RoomsTypeOK, Wanted
<1>2. NoPage \in PageState
  BY DEF NoPage, PageState
<1>3. RoomsTypeOK'
  BY <1>0, <1>1, <1>2 DEF RoomsTypeOK, PageState
<1>4. RoomRowsFit' /\ JoinIsComing'
  BY <1>0 DEF RoomRowsFit, JoinIsComing, NoPage
<1>5. \A p \in Page : \A n : ~Carries(p, n)'
  BY <1>0 DEF Carries, NoPage
<1>6. NothingIsLost'
  <2> SUFFICES ASSUME NEW m \in RoomMessage, thread[m] = current, current # NoConversation,
                      m \notin removed
               PROVE  m \in list \/ New(m) \in missed'
    BY <1>0 DEF NothingIsLost
  <2>1. CASE New(m) \in emits
    BY <1>1, <2>1, EventFacts
  <2>2. ASSUME NEW p \in Page, Brings(p, m) PROVE New(m) \in missed'
    <3>1. m \in Wanted(Page)
      BY <2>2 DEF Wanted, Brings, Carries, NoPage
    <3> QED
      BY <1>1, <3>1, EventFacts
  <2> QED
    BY <1>1, <2>1, <2>2 DEF NothingIsLost
<1>7. DeletionsAreTold' /\ EditsAreTold'
  <2>1. \A m \in list \ strays : thread[m] = current /\ m \in RoomMessage
    BY DEF RoomRowsFit, RoomsTypeOK
  <2> QED
    BY <1>0, <1>1, <1>5, <2>1, EventFacts DEF DeletionsAreTold, EditsAreTold
<1> QED
  BY <1>3, <1>4, <1>6, <1>7

-----------------------------------------------------------------------------
\* The client.
LEMMA SelectKeeps ==
    ASSUME RoomsInv, NEW c \in Conversation, NEW p \in Page, SelectConversation(c, p)
    PROVE  RoomsInv'
<1> USE RoomsAssumption DEF RoomsInv
<1>0. /\ UNCHANGED <<thread, removed, changed, emits, connection, room>>
      /\ current' = c /\ list' = {} /\ listedNew' = {} /\ strays' = {}
      /\ missed' = {e \in missed : Overtakes(e)}
      /\ inDoubt' = ([event |-> "leave", of |-> c] \in asked') /\ page[p] = NoPage
      /\ asked' = IF connection = "closed" THEN asked ELSE asked \union Moves(c)
  BY DEF SelectConversation, rowVars
<1>1. PICK q : q = [NoPage EXCEPT !.at = "asked", !.of = c]
  OBVIOUS
<1>2. q \in PageState /\ q.at = "asked" /\ q.of = c /\ q.data = {} /\ q.new = {}
  <2>1. NoPage \in PageState /\ NoPage.data = {} /\ NoPage.new = {}
    BY DEF NoPage, PageState
  <2> QED
    BY <1>1, <2>1 DEF PageState
<1>a. page' = [page EXCEPT ![p] = q]
  BY <1>1 DEF SelectConversation
<1>3. page'[p] = q /\ \A o \in Page \ {p} : page'[o] = page[o]
  BY <1>a DEF RoomsTypeOK
<1>4. RoomsTypeOK'
  <2>1. page' \in [Page -> PageState]
    BY <1>a, <1>2 DEF RoomsTypeOK, PageState
  <2>2. asked' \subseteq [event : {"join", "leave"}, of : Conversation]
    BY <1>0 DEF Moves, RoomsTypeOK
  <2> QED
    BY <1>0, <2>1, <2>2 DEF RoomsTypeOK, PageState
<1>5. RoomRowsFit'
  BY <1>0, <1>2, <1>3 DEF RoomRowsFit
<1>6. \A o \in Page : \A n : Carries(o, n)' => Carries(o, n)
  BY <1>2, <1>3 DEF Carries
<1>7. NothingIsLost'
  BY <1>0, <1>2, <1>3 DEF NothingIsLost, Brings
<1>8. DeletionsAreTold'
  <2> SUFFICES ASSUME NEW m \in removed, New(m) \in emits \/ \E o \in Page : Carries(o, m)
               PROVE  Deleted(m) \in missed' \union emits
    BY <1>0, <1>6 DEF DeletionsAreTold
  <2>1. Overtakes(Deleted(m))
    BY EventFacts DEF Overtakes, CarriesOld, RoomsTypeOK
  <2> QED
    BY <1>0, <2>1 DEF DeletionsAreTold
<1>9. EditsAreTold'
  <2>0. \A o \in Page : \A n :
            Carries(o, n)' /\ n \notin page'[o].new => Carries(o, n) /\ n \notin page[o].new
    BY <1>2, <1>3 DEF Carries
  <2> SUFFICES ASSUME NEW m \in changed,
                      New(m) \in emits \/ \E o \in Page : Carries(o, m) /\ m \notin page[o].new
               PROVE  Edited(m) \in missed' \union emits
    BY <1>0, <2>0 DEF EditsAreTold
  <2>1. Overtakes(Edited(m))
    BY EventFacts DEF Overtakes, CarriesOld, RoomsTypeOK
  <2> QED
    BY <1>0, <2>1 DEF EditsAreTold
<1>10. JoinIsComing'
  BY <1>0 DEF JoinIsComing, Moves
<1> QED
  BY <1>4, <1>5, <1>7, <1>8, <1>9, <1>10

LEMMA AnswerKeeps == ASSUME RoomsInv, NEW p \in Page, AnswerPage(p) PROVE RoomsInv'
<1> USE RoomsAssumption DEF RoomsInv
<1>0. /\ UNCHANGED <<thread, removed, changed, emits, connection, room, asked, current, list,
                     listedNew, missed, strays, inDoubt>>
      /\ page[p].at = "asked"
  BY DEF AnswerPage, rowVars, roomSocketVars, roomHistory
<1>1. PICK q : q = [page[p] EXCEPT !.at = "answered", !.new = changed,
                               !.data = {m \in RoomMessage \ removed : thread[m] = page[p].of}]
  OBVIOUS
<1>2. page \in [Page -> PageState]
  BY DEF RoomsTypeOK, PageState
<1>3. page' = [page EXCEPT ![p] = q]
  BY <1>1, <1>2 DEF AnswerPage
<1>4. /\ q \in PageState /\ q.at = "answered" /\ q.of = page[p].of /\ q.new = changed
      /\ q.data = {m \in RoomMessage \ removed : thread[m] = page[p].of}
  BY <1>1, <1>2 DEF PageState, RoomsTypeOK
<1>5. page'[p] = q /\ \A o \in Page \ {p} : page'[o] = page[o]
  BY <1>2, <1>3
<1>6. RoomsTypeOK'
  <2>1. page' \in [Page -> PageState]
    BY <1>2, <1>3, <1>4
  <2> QED
    BY <1>0, <2>1 DEF RoomsTypeOK, PageState
<1>7. RoomRowsFit' /\ JoinIsComing'
  BY <1>0, <1>4, <1>5 DEF RoomRowsFit, JoinIsComing
<1>8. NothingIsLost'
  <2>1. ASSUME NEW m \in RoomMessage \ removed, NEW o \in Page, thread[m] = current, Brings(o, m)
        PROVE  Brings(o, m)'
    BY <1>0, <1>4, <1>5, <2>1 DEF Brings, Carries
  <2> QED
    BY <1>0, <2>1 DEF NothingIsLost
<1>9. DeletionsAreTold' /\ EditsAreTold'
  <2>1. \A o \in Page, n \in removed : Carries(o, n)' => Carries(o, n)
    BY <1>4, <1>5 DEF Carries
  <2>2. \A o \in Page, n \in changed :
            Carries(o, n)' /\ n \notin page'[o].new => Carries(o, n) /\ n \notin page[o].new
    BY <1>4, <1>5 DEF Carries
  <2> QED
    BY <1>0, <2>1, <2>2 DEF DeletionsAreTold, EditsAreTold
<1> QED
  BY <1>6, <1>7, <1>8, <1>9

LEMMA ShowKeeps == ASSUME RoomsInv, NEW p \in Page, ShowPage(p) PROVE RoomsInv'
<1> USE RoomsAssumption DEF RoomsInv
<1> DEFINE added == page[p].data \ list
<1>0. /\ UNCHANGED <<thread, removed, changed, emits, connection, room, asked, current, missed,
                     inDoubt>>
      /\ page[p].at = "answered" /\ page' = [page EXCEPT ![p] = NoPage]
      /\ list' = list \union added
      /\ listedNew' = listedNew \union (added \intersect page[p].new)
      /\ strays' = IF page[p].of = current THEN strays ELSE strays \union added
  BY DEF ShowPage, rowVars, roomSocketVars
<1>1. page \in [Page -> PageState] /\ NoPage \in PageState
  BY DEF RoomsTypeOK, PageState, NoPage
<1>2. page'[p] = NoPage /\ \A o \in Page \ {p} : page'[o] = page[o]
  BY <1>0, <1>1
<1>3. /\ added \subseteq RoomMessage /\ page[p].of \in Conversation
      /\ \A m \in added : thread[m] = page[p].of /\ Carries(p, m)
  BY <1>0, <1>1 DEF RoomRowsFit, PageState, Carries
<1>4. RoomsTypeOK'
  <2>1. page' \in [Page -> PageState]
    BY <1>0, <1>1
  <2> QED
    BY <1>0, <1>3, <2>1 DEF RoomsTypeOK, PageState
<1>5. RoomRowsFit' /\ JoinIsComing'
  <2>1. \A o \in Page : /\ page'[o].at # "none" => page'[o].of \in Conversation
                        /\ page'[o].at = "none" => page'[o] = NoPage
                        /\ \A m \in page'[o].data : thread[m] = page'[o].of
    <3>1. ASSUME NEW o \in Page \ {p}
          PROVE  /\ page'[o].at # "none" => page'[o].of \in Conversation
                 /\ page'[o].at = "none" => page'[o] = NoPage
                 /\ \A m \in page'[o].data : thread[m] = page'[o].of
      BY <1>2 DEF RoomRowsFit
    <3>2. NoPage.at = "none" /\ NoPage.data = {}
      BY DEF NoPage
    <3> QED
      BY <1>2, <3>1, <3>2
  <2> QED
    BY <1>0, <1>3, <2>1 DEF RoomRowsFit, JoinIsComing
<1>6. \A o \in Page : \A n : Carries(o, n)' => Carries(o, n) /\ page'[o].new = page[o].new
  BY <1>2 DEF Carries, NoPage
<1>7. NothingIsLost'
  <2>1. ASSUME NEW m, NEW o \in Page, Brings(o, m) PROVE m \in list' \/ Brings(o, m)'
    BY <1>0, <1>2, <2>1 DEF Brings, Carries
  <2> QED
    BY <1>0, <2>1 DEF NothingIsLost
<1>8. DeletionsAreTold'
  <2>1. \A m \in list' \ strays' : m \in list \ strays \/ Carries(p, m)
    BY <1>0, <1>3
  <2> QED
    BY <1>0, <1>6, <2>1 DEF DeletionsAreTold
<1>9. EditsAreTold'
  <2>1. \A m \in (list' \ strays') \ listedNew' :
            m \in (list \ strays) \ listedNew \/ (Carries(p, m) /\ m \notin page[p].new)
    BY <1>0, <1>3
  <2> QED
    BY <1>0, <1>6, <2>1 DEF EditsAreTold
<1> QED
  BY <1>4, <1>5, <1>7, <1>8, <1>9

LEMMA PageFailsKeeps == ASSUME RoomsInv, NEW p \in Page, PageFails(p) PROVE RoomsInv'
<1> USE RoomsAssumption DEF RoomsInv
<1>0. /\ UNCHANGED <<thread, removed, changed, emits, connection, room, asked, current, list,
                     listedNew, strays, inDoubt>>
      /\ page[p].at = "asked" /\ page' = [page EXCEPT ![p] = NoPage]
  BY DEF PageFails, rowVars, roomSocketVars
<1>1. /\ missed \subseteq missed' /\ missed' \subseteq Event
      /\ \A m \in Wanted({p}) : thread[m] = current => New(m) \in missed'
  BY EventFacts DEF PageFails, NotHeard, RoomsTypeOK, Wanted
<1>2. page \in [Page -> PageState] /\ NoPage \in PageState
  BY DEF RoomsTypeOK, PageState, NoPage
<1>3. page'[p] = NoPage /\ \A o \in Page \ {p} : page'[o] = page[o]
  BY <1>0, <1>2
<1>4. RoomsTypeOK'
  <2>1. page' \in [Page -> PageState]
    BY <1>0, <1>2
  <2> QED
    BY <1>0, <1>1, <2>1 DEF RoomsTypeOK, PageState
<1>5. RoomRowsFit' /\ JoinIsComing'
  <2>1. \A o \in Page : /\ page'[o].at # "none" => page'[o].of \in Conversation
                        /\ page'[o].at = "none" => page'[o] = NoPage
                        /\ \A m \in page'[o].data : thread[m] = page'[o].of
    <3>1. ASSUME NEW o \in Page \ {p}
          PROVE  /\ page'[o].at # "none" => page'[o].of \in Conversation
                 /\ page'[o].at = "none" => page'[o] = NoPage
                 /\ \A m \in page'[o].data : thread[m] = page'[o].of
      BY <1>3 DEF RoomRowsFit
    <3>2. NoPage.at = "none" /\ NoPage.data = {}
      BY DEF NoPage
    <3> QED
      BY <1>3, <3>1, <3>2
  <2> QED
    BY <1>0, <2>1 DEF RoomRowsFit, JoinIsComing
<1>6. \A o \in Page : \A n : Carries(o, n)' => Carries(o, n) /\ page'[o].new = page[o].new
  BY <1>3 DEF Carries, NoPage
<1>7. NothingIsLost'
  <2>1. ASSUME NEW m \in RoomMessage, NEW o \in Page, Brings(o, m), thread[m] = current
        PROVE  New(m) \in missed' \/ Brings(o, m)'
    <3>1. CASE o = p
      <4>1. m \in Wanted({p})
        BY <1>0, <2>1, <3>1 DEF Wanted, Brings, NoPage
      <4> QED
        BY <1>1, <2>1, <4>1
    <3>2. CASE o # p
      BY <1>0, <1>3, <2>1, <3>2 DEF Brings, Carries
    <3> QED
      BY <3>1, <3>2
  <2> QED
    BY <1>0, <1>1, <2>1 DEF NothingIsLost
<1>8. DeletionsAreTold' /\ EditsAreTold'
  BY <1>0, <1>1, <1>6 DEF DeletionsAreTold, EditsAreTold
<1> QED
  BY <1>4, <1>5, <1>7, <1>8

LEMMA RoomsInvNext == ASSUME RoomsInv, [RoomsNext]_roomVars PROVE RoomsInv'
<1>1. CASE UNCHANGED roomVars
  <2>1. UNCHANGED <<thread, removed, changed, emits, connection, room, asked, current, page, list,
                    listedNew, missed, strays, inDoubt>>
    BY <1>1 DEF roomVars, rowVars, roomSocketVars, viewVars, roomHistory
  <2>2. RoomsTypeOK' /\ RoomRowsFit' /\ JoinIsComing'
    BY <2>1 DEF RoomsInv, RoomsTypeOK, RoomRowsFit, JoinIsComing
  <2>3. NothingIsLost' /\ DeletionsAreTold' /\ EditsAreTold'
    BY <2>1 DEF RoomsInv, NothingIsLost, DeletionsAreTold, EditsAreTold, Brings, Carries
  <2> QED
    BY <2>2, <2>3 DEF RoomsInv
<1> QED
  BY <1>1, CommitSteps, DeleteOverHttpKeeps, BroadcastKeeps, SocketSteps, GatewayStopsKeeps,
     SelectKeeps, AnswerKeeps, ShowKeeps, PageFailsKeeps DEF RoomsNext

-----------------------------------------------------------------------------
(***************************************************************************)
(* The inductive invariant of the mailbox.  A conversation is between the  *)
(* seller and a buyer, about the product and perhaps the buyer's order, or *)
(* between a client and an administration account.  A call between two     *)
(* statements refers to a conversation that is there and fits; the one     *)
(* that is about to open a support conversation has found none, and the    *)
(* one that is about to welcome a client is the only one in that           *)
(* conversation, which has no welcome yet.                                 *)
(***************************************************************************)
Admins == {Dedicated, StaffAdmin}
MailRow ==
    [participants : SUBSET Person, product : BOOLEAN, order : Buyer \union {NoOne},
     isActive : BOOLEAN, archivedBy : SUBSET Person, blockedBy : SUBSET Person,
     texts : SUBSET Person, welcomes : Nat]

MailRowFits(row) ==
    /\ IF row.product
       THEN \E b \in Buyer : row.participants = {Seller, b} /\ row.order \in {NoOne, b}
       ELSE /\ row.order = NoOne
            /\ \E u \in Client, a \in Admins : row.participants = {u, a}
    /\ row.blockedBy \subseteq row.participants /\ row.texts \subseteq row.participants
    /\ row.welcomes <= 1

WillWelcome(q) == q.pc = "welcoming" \/ (q.pc = "send" /\ q.job = "welcome")

StateFits(q) ==
    /\ q.pc = "create" => \E b \in Buyer : q.pair = {Seller, b} /\ q.order \in {NoOne, b}
    /\ q.pc = "link" => /\ q.conversation \in Ids /\ conversations[q.conversation].product
                        /\ With(q.conversation) = {Seller, q.order}
    /\ q.pc \in {"find", "createSupport"} =>
           q.admin \in Admins /\ (q.job = "reject" => q.sender \in Person)
    /\ q.pc = "createSupport" /\ q.user \notin bothSought => SupportOf(q.user, q.admin) = {}
    /\ q.pc \in {"send", "welcoming"} => q.conversation \in Ids
    /\ WillWelcome(q) => conversations[q.conversation].welcomes = 0

StatesApart(p, q) ==
    /\ WillWelcome(p) /\ WillWelcome(q) => p.conversation # q.conversation
    /\ p.pc = "createSupport" /\ q.pc = "createSupport" /\ p.user = q.user => p.user \in bothSought

MailCallFits(r) == StateFits(mailCall[r])
CallsApart(p, r) == StatesApart(mailCall[p], mailCall[r])

OneSupport ==
    \A u \in Client, a \in Admins : u \notin bothSought =>
        \A i, j \in SupportOf(u, a) : i = j

MailboxInv ==
    /\ MailboxTypeOK /\ Len(conversations) <= MaxConversations
    /\ \A i \in Ids : MailRowFits(conversations[i])
    /\ OneSupport
    /\ \A r \in Caller : MailCallFits(r)
    /\ \A p, r \in Caller : p # r => CallsApart(p, r)

LEMMA CallStates ==
    \A q : q \in CallState <=>
        \/ q = Done
        \/ q \in [pc : {"create"}, pair : SUBSET Person, order : Buyer \union {NoOne}]
        \/ q \in [pc : {"order"}, order : Buyer]
        \/ q \in [pc : {"link"}, conversation : 1..MaxConversations, order : Buyer]
        \/ q \in [pc : {"find", "createSupport"}, user : Client, admin : Person,
                  sender : Person \union {NoOne}, job : Job]
        \/ q \in [pc : {"rejecting"}, sender : Person]
        \/ q \in [pc : {"welcoming"}, conversation : 1..MaxConversations]
        \/ q \in [pc : {"send"}, conversation : 1..MaxConversations, sender : Person, job : Job]
  BY DEF CallState

\* What a call in a place carries.
LEMMA CallAt ==
    ASSUME NEW q \in CallState
    PROVE  /\ q.pc = "order" => q.order \in Buyer
           /\ q.pc = "create" => q.pair \in SUBSET Person /\ q.order \in Buyer \union {NoOne}
           /\ q.pc = "link" => q.conversation \in 1..MaxConversations /\ q.order \in Buyer
           /\ q.pc \in {"find", "createSupport"} =>
                  /\ q.user \in Client /\ q.admin \in Person /\ q.sender \in Person \union {NoOne}
                  /\ q.job \in Job
                  /\ q \in [pc : {"find", "createSupport"}, user : Client, admin : Person,
                            sender : Person \union {NoOne}, job : Job]
           /\ q.pc = "rejecting" => q.sender \in Person
           /\ q.pc = "welcoming" => q.conversation \in 1..MaxConversations
           /\ q.pc = "send" => /\ q.conversation \in 1..MaxConversations /\ q.sender \in Person
                               /\ q.job \in Job
  BY CallStates DEF Done

LEMMA MailFacts ==
    ASSUME MailboxInv
    PROVE  /\ conversations \in Seq(MailRow) /\ Ids = 1..Len(conversations)
           /\ Len(conversations) \in 0..MaxConversations
           /\ \A i \in Ids : conversations[i] \in MailRow /\ i \in 1..MaxConversations
           /\ \A r \in Caller : mailCall[r] \in CallState
           /\ mailCall \in [Caller -> CallState]
<1>1. conversations \in Seq(MailRow) /\ Len(conversations) <= MaxConversations
  BY DEF MailboxInv, MailboxTypeOK, MailRow
<1>2. mailCall \in [Caller -> CallState]
  BY DEF MailboxInv, MailboxTypeOK
<1> QED
  BY <1>1, <1>2, MailboxAssumption DEF Ids

LEMMA CallsAreStarted ==
    Done.pc = "done" /\ Done \in CallState /\ StateFits(Done) /\ ~WillWelcome(Done)
  BY CallStates DEF Done, StateFits, WillWelcome

LEMMA CardinalityOfPair == ASSUME NEW x, NEW y, x # y PROVE Cardinality({x, y}) = 2
<1>1. IsFiniteSet({}) /\ Cardinality({}) = 0
  BY FS_EmptySet
<1>2. IsFiniteSet({} \union {x}) /\ Cardinality({} \union {x}) = 1
  BY <1>1, FS_AddElement
<1>3. Cardinality(({} \union {x}) \union {y}) = 2
  BY <1>2, FS_AddElement
<1>4. {x, y} = ({} \union {x}) \union {y}
  OBVIOUS
<1> QED
  BY <1>3, <1>4

LEMMA RowIsPair ==
    ASSUME NEW row \in MailRow, MailRowFits(row)
    PROVE  \E x \in Client, y \in Person : /\ row.participants = {x, y} /\ x # y
                                           /\ Cardinality(row.participants) = 2
<1>1. PICK x \in Client, y \in Person : row.participants = {x, y} /\ x # y
  BY MailboxAssumption DEF MailRowFits, Client, Person, Admins
<1>2. Cardinality({x, y}) = 2
  BY <1>1, CardinalityOfPair
<1> QED
  BY <1>1, <1>2

\* A row with the same people in it, which may have a welcome more.
LEMMA AlterKeeps ==
    ASSUME MailboxInv, NEW i \in Ids, NEW row \in MailRow,
           conversations' = [conversations EXCEPT ![i] = row], MailRowFits(row),
           row.participants = With(i), row.product = conversations[i].product,
           UNCHANGED <<appointed, ordered, bothSought>>,
           userBlocks' \subseteq Person \X Person, mailed' \in 0..MaxMail,
           mailCall' \in [Caller -> CallState],
           \A p \in Caller : mailCall'[p] = mailCall[p] \/ mailCall'[p] = Done,
           \/ row.welcomes = conversations[i].welcomes
           \/ \A p \in Caller : WillWelcome(mailCall'[p]) => mailCall'[p].conversation # i
    PROVE  MailboxInv'
<1> USE DEF MailboxInv
<1>1. /\ conversations' \in Seq(MailRow) /\ Len(conversations') = Len(conversations)
      /\ Ids' = Ids /\ conversations'[i] = row
      /\ \A j \in Ids \ {i} : conversations'[j] = conversations[j]
  BY MailFacts DEF Ids
<1>2. \A j \in Ids : MailRowFits(conversations'[j])
  BY <1>1
<1>3. \A j \in Ids : /\ conversations'[j].participants = conversations[j].participants
                     /\ conversations'[j].product = conversations[j].product
  BY <1>1 DEF With
<1>4. MailboxTypeOK'
  <2>1. \A j \in Ids : Cardinality(With(j)') = 2
    BY <1>1, <1>2, MailFacts, RowIsPair DEF With
  <2> QED
    BY <1>1, <2>1 DEF MailboxTypeOK, MailRow
<1>5. \A j \in Ids : IsSupport(j)' <=> IsSupport(j)
  BY <1>2, <1>3 DEF IsSupport, MailRowFits
<1>6. \A u, a : SupportOf(u, a)' = SupportOf(u, a)
  BY <1>1, <1>3, <1>5 DEF SupportOf, With
<1>7. OneSupport'
  BY <1>6 DEF OneSupport
<1>8. ASSUME NEW p \in Caller PROVE MailCallFits(p)'
  <2>1. CASE mailCall'[p] = Done
    BY <2>1, CallsAreStarted DEF MailCallFits, StateFits, WillWelcome
  <2>2. CASE mailCall'[p] = mailCall[p] /\ mailCall[p] # Done
    <3> PICK q : q = mailCall[p]
      OBVIOUS
    <3>1. StateFits(q) /\ mailCall'[p] = q
      BY <2>2 DEF MailCallFits
    <3>2. WillWelcome(q) => conversations'[q.conversation].welcomes = 0
      BY <1>1, <3>1 DEF StateFits, WillWelcome
    <3>3. q.pc = "link" => /\ q.conversation \in Ids' /\ conversations'[q.conversation].product
                           /\ With(q.conversation)' = {Seller, q.order}
      BY <1>1, <1>3, <3>1 DEF StateFits, With
    <3>4. q.pc = "createSupport" /\ q.user \notin bothSought' => SupportOf(q.user, q.admin)' = {}
      BY <1>6, <3>1 DEF StateFits
    <3> QED
      BY <1>1, <3>1, <3>2, <3>3, <3>4 DEF MailCallFits, StateFits, WillWelcome
  <2> QED
    BY <2>1, <2>2
<1>9. ASSUME NEW p \in Caller, NEW r \in Caller, p # r PROVE CallsApart(p, r)'
  BY <1>9, CallsAreStarted DEF CallsApart, StatesApart, WillWelcome
<1> QED
  BY <1>1, <1>2, <1>4, <1>7, <1>8, <1>9

\* A call that goes on without touching a conversation.
LEMMA CallKeeps ==
    ASSUME MailboxInv, NEW r \in Caller, NEW state \in CallState,
           mailCall' = [mailCall EXCEPT ![r] = state],
           UNCHANGED <<conversations, userBlocks, bothSought>>, appointed' \subseteq Admins,
           ordered' \subseteq Buyer, mailed' \in 0..MaxMail,
           StateFits(state), state.pc # "createSupport",
           WillWelcome(state) =>
               WillWelcome(mailCall[r]) /\ state.conversation = mailCall[r].conversation
    PROVE  MailboxInv'
<1> USE DEF MailboxInv
<1>1. /\ mailCall' \in [Caller -> CallState] /\ mailCall'[r] = state
      /\ \A p \in Caller \ {r} : mailCall'[p] = mailCall[p]
  BY MailFacts
<1>2. Ids' = Ids /\ (\A i : With(i)' = With(i)) /\ (\A u, a : SupportOf(u, a)' = SupportOf(u, a))
  BY DEF Ids, With, SupportOf, IsSupport
<1>3. MailboxTypeOK'
  BY <1>1, <1>2 DEF MailboxTypeOK, Admins
<1>4. ASSUME NEW q, StateFits(q) PROVE StateFits(q)'
  BY <1>2, <1>4 DEF StateFits
<1>5. ASSUME NEW p \in Caller PROVE MailCallFits(p)'
  <2>1. PICK q : q = mailCall'[p]
    OBVIOUS
  <2>2. StateFits(q)
    BY <1>1, <2>1 DEF MailCallFits
  <2>3. StateFits(q)'
    BY <1>4, <2>2
  <2> QED
    BY <2>1, <2>3 DEF MailCallFits, StateFits, WillWelcome
<1>6. ASSUME NEW p \in Caller, NEW q \in Caller, p # q PROVE CallsApart(p, q)'
  BY <1>1, <1>6 DEF CallsApart, StatesApart, WillWelcome
<1> QED
  BY <1>1, <1>2, <1>3, <1>5, <1>6 DEF OneSupport

\* A new conversation.
LEMMA AppendKeeps ==
    ASSUME MailboxInv, NEW r \in Caller, NEW row \in MailRow, NEW state \in CallState,
           AppendRow(row), MailRowFits(row), mailCall' = [mailCall EXCEPT ![r] = state],
           UNCHANGED <<userBlocks, appointed, ordered, mailed, bothSought>>,
           state.pc \in {"done", "welcoming", "send"},
           state.pc # "done" => state.conversation = Len(conversations) + 1 /\ row.welcomes = 0,
           row.product \/ ( /\ mailCall[r].pc = "createSupport"
                            /\ row.participants = {mailCall[r].user, mailCall[r].admin} )
    PROVE  MailboxInv'
<1> USE DEF MailboxInv
<1> DEFINE n == Len(conversations) + 1
<1>1. /\ conversations' = Append(conversations, row) /\ Len(conversations) < MaxConversations
  BY DEF AppendRow
<1>2. /\ conversations' \in Seq(MailRow) /\ Len(conversations') = n /\ Ids' = Ids \union {n}
      /\ n \notin Ids /\ conversations'[n] = row /\ Len(conversations') <= MaxConversations
      /\ \A j \in Ids : conversations'[j] = conversations[j]
  BY <1>1, MailFacts, MailboxAssumption DEF Ids
<1>3. /\ mailCall' \in [Caller -> CallState] /\ mailCall'[r] = state
      /\ \A p \in Caller \ {r} : mailCall'[p] = mailCall[p]
  BY MailFacts
<1>4. \A j \in Ids' : MailRowFits(conversations'[j]) /\ conversations'[j] \in MailRow
  BY <1>2, MailFacts
<1>5. MailboxTypeOK'
  <2>1. \A j \in Ids' : Cardinality(With(j)') = 2
    BY <1>4, RowIsPair DEF With
  <2> QED
    BY <1>2, <1>3, <2>1 DEF MailboxTypeOK, MailRow
<1>6. \A u, a : /\ SupportOf(u, a) \subseteq SupportOf(u, a)'
                /\ SupportOf(u, a)' \subseteq SupportOf(u, a) \union {n}
  BY <1>2 DEF SupportOf, IsSupport, With
<1>7. \A u \in Client, a \in Admins : n \in SupportOf(u, a)' =>
          mailCall[r].pc = "createSupport" /\ u = mailCall[r].user /\ a = mailCall[r].admin
  <2> SUFFICES ASSUME NEW u \in Client, NEW a \in Admins, n \in SupportOf(u, a)'
               PROVE  /\ mailCall[r].pc = "createSupport"
                      /\ u = mailCall[r].user /\ a = mailCall[r].admin
    OBVIOUS
  <2>1. ~row.product /\ {u, a} \subseteq row.participants
    BY <1>2 DEF SupportOf, IsSupport, With
  <2>2. mailCall[r].user \in Client /\ mailCall[r].admin \in Admins
    BY <2>1, CallAt, MailFacts DEF MailCallFits, StateFits
  <2> QED
    BY <2>1, <2>2, MailboxAssumption DEF Client, Admins
<1>8. OneSupport'
  <2> SUFFICES ASSUME NEW u \in Client, NEW a \in Admins, u \notin bothSought
               PROVE  \A i, j \in SupportOf(u, a)' : i = j
    BY DEF OneSupport
  <2>1. CASE n \in SupportOf(u, a)'
    <3>1. SupportOf(u, a) = {}
      BY <1>7, <2>1 DEF MailCallFits, StateFits
    <3> QED
      BY <1>6, <3>1
  <2>2. CASE n \notin SupportOf(u, a)'
    BY <1>6, <2>2 DEF OneSupport
  <2> QED
    BY <2>1, <2>2
<1>9. ASSUME NEW p \in Caller \ {r} PROVE MailCallFits(p)'
  <2>0. PICK q : q = mailCall[p]
    OBVIOUS
  <2>1. StateFits(q) /\ q \in CallState /\ mailCall'[p] = q
    BY <1>3, <2>0, MailFacts DEF MailCallFits
  <2>2. ASSUME q.pc = "createSupport", q.user \notin bothSought
        PROVE  SupportOf(q.user, q.admin)' = {}
    <3>1. SupportOf(q.user, q.admin) = {} /\ q.user \in Client /\ q.admin \in Admins
      BY <2>1, <2>2, CallAt DEF StateFits
    <3>2. ~(mailCall[r].pc = "createSupport" /\ q.user = mailCall[r].user)
      BY <2>0, <2>2 DEF CallsApart, StatesApart
    <3> QED
      BY <1>6, <1>7, <3>1, <3>2
  <2>3. \A i \in Ids : conversations'[i] = conversations[i] /\ With(i)' = With(i) /\ i \in Ids'
    BY <1>2 DEF With
  <2>4. StateFits(q)'
    BY <2>1, <2>2, <2>3 DEF StateFits, WillWelcome
  <2> QED
    BY <2>1, <2>4 DEF MailCallFits, StateFits, WillWelcome
<1>10. MailCallFits(r)'
  <2>1. state.pc # "done" =>
            state.conversation \in Ids' /\ conversations'[state.conversation].welcomes = 0
    BY <1>2
  <2> QED
    BY <1>3, <2>1 DEF MailCallFits, StateFits, WillWelcome
<1>11. ASSUME NEW p \in Caller, NEW q \in Caller, p # q PROVE CallsApart(p, q)'
  <2>1. \A o \in Caller \ {r} : WillWelcome(mailCall[o]) => mailCall[o].conversation \in Ids
    BY DEF MailCallFits, StateFits, WillWelcome
  <2>2. WillWelcome(state) => state.conversation \notin Ids
    BY <1>2 DEF WillWelcome
  <2>3. CASE p # r /\ q # r
    BY <1>3, <1>11, <2>3 DEF CallsApart, StatesApart, WillWelcome
  <2>4. CASE p = r \/ q = r
    BY <1>3, <1>11, <2>1, <2>2, <2>4 DEF CallsApart, StatesApart, WillWelcome
  <2> QED
    BY <2>3, <2>4
<1> QED
  BY <1>2, <1>3, <1>4, <1>5, <1>8, <1>9, <1>10, <1>11

-----------------------------------------------------------------------------
\* Calls.
LEMMA CallsBegin ==
    ASSUME MailboxInv, NEW r \in Caller, NEW state \in CallState,
           StartCall(r, state), StateFits(state), state.pc # "createSupport", ~WillWelcome(state)
    PROVE  MailboxInv'
<1>1. /\ mailCall' = [mailCall EXCEPT ![r] = state] /\ mailed' \in 0..MaxMail
      /\ UNCHANGED <<conversations, userBlocks, appointed, ordered, bothSought>>
  BY MailboxAssumption DEF StartCall, ResumeAt, Count, MailboxInv, MailboxTypeOK
<1>2. appointed \subseteq Admins /\ ordered \subseteq Buyer
  BY DEF MailboxInv, MailboxTypeOK, Admins
<1> QED
  BY <1>1, <1>2, CallKeeps

LEMMA CallsGoOn ==
    ASSUME MailboxInv, NEW r \in Caller, NEW state \in CallState,
           ResumeAt(r, state),
           UNCHANGED <<conversations, userBlocks, appointed, ordered, mailed, bothSought>>,
           StateFits(state), state.pc # "createSupport",
           WillWelcome(state) =>
               WillWelcome(mailCall[r]) /\ state.conversation = mailCall[r].conversation
    PROVE  MailboxInv'
<1>1. appointed \subseteq Admins /\ ordered \subseteq Buyer /\ mailed \in 0..MaxMail
  BY DEF MailboxInv, MailboxTypeOK, Admins
<1> QED
  BY <1>1, CallKeeps DEF ResumeAt

LEMMA CreateState ==
    ASSUME NEW b \in Buyer, NEW pair, pair = {Seller, b}, NEW order \in {NoOne, b}
    PROVE  LET state == [pc |-> "create", pair |-> pair, order |-> order]
           IN  /\ state \in CallState /\ StateFits(state) /\ state.pc # "createSupport"
               /\ ~WillWelcome(state)
<1> DEFINE state == [pc |-> "create", pair |-> pair, order |-> order]
<1>1. state \in [pc : {"create"}, pair : SUBSET Person, order : Buyer \union {NoOne}]
  BY DEF Person, Client
<1>2. state \in CallState
  BY <1>1, CallStates
<1> QED
  BY <1>2 DEF StateFits, WillWelcome

LEMMA Administration == AdministrationUserId \in {NoOne} \union Admins
  BY MailboxAssumption DEF AdministrationUserId, Admins

LEMMA LookingState ==
    ASSUME AdministrationUserId # NoOne, NEW u \in Client, NEW sender \in Person \union {NoOne},
           NEW job \in Job, job = "reject" => sender \in Person
    PROVE  /\ Looking(u, sender, job) \in CallState /\ StateFits(Looking(u, sender, job))
           /\ Looking(u, sender, job).pc = "find" /\ ~WillWelcome(Looking(u, sender, job))
<1> DEFINE state == [pc |-> "find", user |-> u, admin |-> AdministrationUserId,
                     sender |-> sender, job |-> job]
<1>1. AdministrationUserId \in Admins /\ Admins \subseteq Person
  BY Administration DEF Admins, Person
<1>2. state \in [pc : {"find", "createSupport"}, user : Client, admin : Person,
                 sender : Person \union {NoOne}, job : Job]
  BY <1>1
<1>3. state \in CallState
  BY <1>2, CallStates
<1>4. Looking(u, sender, job) = state
  BY DEF Looking
<1> QED
  BY <1>1, <1>3, <1>4 DEF StateFits, WillWelcome

LEMMA ResolveByProductKeeps ==
    ASSUME MailboxInv, NEW r \in Caller, NEW u \in Client, NEW target \in Client,
           ResolveByProduct(r, u, target)
    PROVE  MailboxInv'
<1>1. PICK b \in Buyer : {u, target} = {Seller, b}
  BY DEF ResolveByProduct, Client
<1>2. NoOne \in {NoOne, b}
  OBVIOUS
<1>3. StartCall(r, [pc |-> "create", pair |-> {u, target}, order |-> NoOne])
  BY DEF ResolveByProduct
<1> QED
  BY <1>1, <1>2, <1>3, CreateState, CallsBegin

LEMMA ResolveByOrderKeeps ==
    ASSUME MailboxInv, NEW r \in Caller, NEW b \in Buyer, ResolveByOrder(r, b)
    PROVE  MailboxInv'
<1>1. StartCall(r, [pc |-> "create", pair |-> {b, Seller}, order |-> b])
  BY DEF ResolveByOrder
<1>2. {b, Seller} = {Seller, b} /\ b \in {NoOne, b}
  OBVIOUS
<1> QED
  BY <1>1, <1>2, CreateState, CallsBegin

LEMMA PlaceOrderKeeps ==
    ASSUME MailboxInv, NEW r \in Caller, NEW b \in Buyer, PlaceOrder(r, b)
    PROVE  MailboxInv'
<1>1. PICK state : state = [pc |-> "order", order |-> b]
  OBVIOUS
<1>2. state \in CallState /\ state.pc = "order"
  BY <1>1, CallStates
<1>3. StateFits(state) /\ ~WillWelcome(state)
  BY <1>2 DEF StateFits, WillWelcome
<1>4. /\ mailCall' = [mailCall EXCEPT ![r] = state] /\ mailed' \in 0..MaxMail
      /\ ordered' \subseteq Buyer /\ appointed' \subseteq Admins
      /\ UNCHANGED <<conversations, userBlocks, bothSought>>
  BY <1>1, MailboxAssumption
     DEF PlaceOrder, ResumeAt, Count, MailboxInv, MailboxTypeOK, Admins
<1> QED
  BY <1>2, <1>3, <1>4, CallKeeps

LEMMA ForOrderKeeps == ASSUME MailboxInv, NEW r \in Caller, ForOrder(r) PROVE MailboxInv'
<1>1. PICK b \in Buyer : b = mailCall[r].order
  BY MailFacts, CallAt DEF ForOrder
<1>2. \/ ResumeAt(r, Done)
      \/ \E i \in ExistingForProduct(b) :
             ResumeAt(r, [pc |-> "link", conversation |-> i, order |-> b])
      \/ ResumeAt(r, [pc |-> "create", pair |-> {Seller, b}, order |-> b])
  BY <1>1 DEF ForOrder
<1>3. UNCHANGED <<conversations, userBlocks, appointed, ordered, mailed, bothSought>>
  BY DEF ForOrder, OnlyCall
<1>4. CASE ResumeAt(r, Done)
  BY <1>3, <1>4, CallsAreStarted, CallsGoOn
<1>5. ASSUME NEW i \in ExistingForProduct(b),
             ResumeAt(r, [pc |-> "link", conversation |-> i, order |-> b])
      PROVE  MailboxInv'
  <2>1. PICK state : state = [pc |-> "link", conversation |-> i, order |-> b]
    OBVIOUS
  <2>2. i \in Ids /\ conversations[i].product /\ With(i) = {Seller, b} /\ i \in 1..MaxConversations
    BY MailFacts DEF ExistingForProduct
  <2>3. state \in CallState /\ state.pc = "link" /\ state.conversation = i /\ state.order = b
    BY <2>1, <2>2, CallStates
  <2>4. StateFits(state) /\ ~WillWelcome(state)
    BY <2>2, <2>3 DEF StateFits, WillWelcome
  <2> QED
    BY <1>3, <1>5, <2>1, <2>3, <2>4, CallsGoOn
<1>6. CASE ResumeAt(r, [pc |-> "create", pair |-> {Seller, b}, order |-> b])
  <2>1. b \in {NoOne, b}
    OBVIOUS
  <2> QED
    BY <1>3, <1>6, <2>1, CreateState, CallsGoOn
<1> QED
  BY <1>2, <1>4, <1>5, <1>6

LEMMA CreateForKeeps == ASSUME MailboxInv, NEW r \in Caller, CreateFor(r) PROVE MailboxInv'
<1>1. PICK b \in Buyer : mailCall[r].pair = {Seller, b} /\ mailCall[r].order \in {NoOne, b}
  BY DEF CreateFor, MailboxInv, MailCallFits, StateFits
<1>2. PICK pair \in SUBSET Person, order \in Buyer \union {NoOne} :
          pair = mailCall[r].pair /\ order = mailCall[r].order
  BY <1>1 DEF Person, Client
<1>3. PICK row : row = NewConversation(pair, TRUE, order)
  OBVIOUS
<1>4. /\ row \in MailRow /\ row.participants = pair /\ row.product = TRUE
      /\ row.order = order /\ row.welcomes = 0 /\ row.blockedBy = {} /\ row.texts = {}
  BY <1>3 DEF NewConversation, MailRow
<1>5. MailRowFits(row)
  BY <1>1, <1>2, <1>4 DEF MailRowFits
<1>6. /\ AppendRow(row) /\ mailCall' = [mailCall EXCEPT ![r] = Done]
      /\ UNCHANGED <<userBlocks, appointed, ordered, mailed, bothSought>>
  BY <1>2, <1>3 DEF CreateFor, ResumeAt
<1> QED
  BY <1>4, <1>5, <1>6, CallsAreStarted, AppendKeeps

\* Rows that are changed.
LEMMA RowStays == ASSUME MailboxInv, NEW i \in Ids
                  PROVE  conversations[i] \in MailRow /\ MailRowFits(conversations[i])
  BY MailFacts DEF MailboxInv

LEMMA LinkToOrderKeeps == ASSUME MailboxInv, NEW r \in Caller, LinkToOrder(r) PROVE MailboxInv'
<1>1. PICK i \in Ids : /\ i = mailCall[r].conversation /\ conversations[i].product
                       /\ With(i) = {Seller, mailCall[r].order}
  BY DEF LinkToOrder, MailboxInv, MailCallFits, StateFits
<1>2. PICK b \in Buyer : b = mailCall[r].order
  BY MailFacts, CallAt DEF LinkToOrder
<1>3. PICK row : row = [conversations[i] EXCEPT !.order = b]
  OBVIOUS
<1>4. /\ row \in MailRow /\ row.participants = With(i) /\ row.product = conversations[i].product
      /\ row.order = b /\ row.welcomes = conversations[i].welcomes
      /\ row.blockedBy = conversations[i].blockedBy /\ row.texts = conversations[i].texts
  BY <1>3, RowStays DEF MailRow, With
<1>5. MailRowFits(row)
  BY <1>1, <1>2, <1>4, RowStays DEF MailRowFits, With
<1>6. conversations' = [conversations EXCEPT ![i] = row]
  BY <1>1, <1>2, <1>3 DEF LinkToOrder
<1>7. /\ mailCall' \in [Caller -> CallState]
      /\ \A p \in Caller : mailCall'[p] = mailCall[p] \/ mailCall'[p] = Done
  BY MailFacts, CallsAreStarted DEF LinkToOrder, ResumeAt
<1>8. /\ UNCHANGED <<userBlocks, appointed, ordered, mailed, bothSought>>
      /\ userBlocks \subseteq Person \X Person /\ mailed \in 0..MaxMail
  BY DEF LinkToOrder, MailboxInv, MailboxTypeOK
<1> QED
  BY <1>4, <1>5, <1>6, <1>7, <1>8, AlterKeeps

LEMMA SendAsKeeps == ASSUME MailboxInv, NEW r \in Caller, SendAs(r) PROVE MailboxInv'
<1>1. PICK i \in Ids : i = mailCall[r].conversation
  BY DEF SendAs, MailboxInv, MailCallFits, StateFits
<1>2. PICK sender : sender = mailCall[r].sender
  OBVIOUS
<1>3. sender \in Person
  BY <1>2, MailFacts, CallAt DEF SendAs
<1>4. PICK more \in {0, 1} : more = IF mailCall[r].job = "welcome" THEN 1 ELSE 0
  OBVIOUS
<1>5. /\ mailCall' \in [Caller -> CallState] /\ mailCall'[r] = Done
      /\ \A p \in Caller \ {r} : mailCall'[p] = mailCall[p]
  BY MailFacts, CallsAreStarted DEF SendAs, ResumeAt
<1>6. /\ UNCHANGED <<userBlocks, appointed, ordered, mailed, bothSought>>
      /\ userBlocks \subseteq Person \X Person /\ mailed \in 0..MaxMail
  BY DEF SendAs, MailboxInv, MailboxTypeOK
<1>7. CASE sender \in With(i)
  <2>1. PICK row : row = [conversations[i] EXCEPT !.texts = conversations[i].texts \union {sender},
                                                  !.welcomes = conversations[i].welcomes + more]
    OBVIOUS
  <2>2. /\ row \in MailRow /\ row.participants = With(i) /\ row.product = conversations[i].product
        /\ row.order = conversations[i].order /\ row.welcomes = conversations[i].welcomes + more
        /\ row.blockedBy = conversations[i].blockedBy
        /\ row.texts = conversations[i].texts \union {sender}
    <3>1. PICK c \in MailRow : c = conversations[i]
      BY RowStays
    <3>2. PICK texts \in SUBSET Person : texts = c.texts \union {sender}
      BY <1>3, <3>1 DEF MailRow
    <3>3. c.welcomes + more \in Nat
      BY <3>1 DEF MailRow
    <3>4. row = [c EXCEPT !.texts = texts, !.welcomes = c.welcomes + more]
      BY <2>1, <3>1, <3>2
    <3>5. /\ row \in MailRow /\ row.participants = c.participants /\ row.product = c.product
          /\ row.order = c.order /\ row.welcomes = c.welcomes + more
          /\ row.blockedBy = c.blockedBy /\ row.texts = texts
      BY <3>3, <3>4 DEF MailRow
    <3> QED
      BY <3>1, <3>2, <3>5 DEF With
  <2>3. conversations' = [conversations EXCEPT ![i] = row]
    BY <1>1, <1>2, <1>4, <1>7, <2>1, MailFacts DEF SendAs
  <2>4. more = 1 => WillWelcome(mailCall[r])
    BY <1>4 DEF SendAs, WillWelcome
  <2>5. more = 1 => conversations[i].welcomes = 0
    BY <1>1, <2>4 DEF MailboxInv, MailCallFits, StateFits
  <2>6. conversations[i].welcomes \in Nat
    BY RowStays DEF MailRow
  <2>7. MailRowFits(row)
    <3>1. row.welcomes <= 1
      BY <2>2, <2>5, <2>6, RowStays DEF MailRowFits
    <3> QED
      BY <1>7, <2>2, <3>1, RowStays DEF MailRowFits, With
  <2>8. more = 1 => \A p \in Caller : WillWelcome(mailCall'[p]) => mailCall'[p].conversation # i
    BY <1>1, <1>5, <2>4, CallsAreStarted DEF MailboxInv, CallsApart, StatesApart
  <2>9. more = 0 => row.welcomes = conversations[i].welcomes
    BY <2>2, <2>6
  <2> QED
    BY <1>5, <1>6, <2>2, <2>3, <2>7, <2>8, <2>9, AlterKeeps
<1>8. CASE sender \notin With(i)
  <2>1. UNCHANGED conversations /\ ResumeAt(r, Done)
    BY <1>1, <1>2, <1>8 DEF SendAs
  <2> QED
    BY <1>6, <2>1, CallsAreStarted, CallsGoOn
<1> QED
  BY <1>7, <1>8

\* The support conversation.
LEMMA SendState ==
    ASSUME NEW i \in Ids, i \in 1..MaxConversations, NEW sender \in Person, NEW job \in Job,
           job = "welcome" => conversations[i].welcomes = 0
    PROVE  LET state == [pc |-> "send", conversation |-> i, sender |-> sender, job |-> job]
           IN  /\ state \in CallState /\ StateFits(state) /\ state.pc = "send"
               /\ state.conversation = i /\ (WillWelcome(state) <=> job = "welcome")
<1> DEFINE state == [pc |-> "send", conversation |-> i, sender |-> sender, job |-> job]
<1>1. state \in [pc : {"send"}, conversation : 1..MaxConversations, sender : Person, job : Job]
  OBVIOUS
<1>2. state \in CallState
  BY <1>1, CallStates
<1> QED
  BY <1>2 DEF StateFits, WillWelcome

LEMMA GoOnFound ==
    ASSUME MailboxInv, NEW r \in Caller, NEW i \in Ids, mailCall[r].pc = "find", GoOn(r, i, FALSE),
           UNCHANGED <<conversations, userBlocks, appointed, ordered, mailed, bothSought>>
    PROVE  MailboxInv'
<1>1. CASE mailCall[r].job = "reject"
  <2>1. PICK sender \in Person : sender = mailCall[r].sender
    BY <1>1 DEF MailboxInv, MailCallFits, StateFits
  <2>2. ResumeAt(r, [pc |-> "send", conversation |-> i, sender |-> sender, job |-> "reject"])
    BY <1>1, <2>1 DEF GoOn
  <2>3. i \in 1..MaxConversations /\ "reject" \in Job
    BY MailFacts DEF Job
  <2> QED
    BY <2>2, <2>3, SendState, CallsGoOn
<1>2. CASE mailCall[r].job # "reject"
  BY <1>2, CallsAreStarted, CallsGoOn DEF GoOn
<1> QED
  BY <1>1, <1>2

LEMMA FindSupportKeeps == ASSUME MailboxInv, NEW r \in Caller, FindSupport(r) PROVE MailboxInv'
<1> DEFINE q == mailCall[r]
<1>0. UNCHANGED <<conversations, userBlocks, appointed, ordered, mailed>> /\ q.pc = "find"
  BY DEF FindSupport
<1>1. ASSUME NEW i \in SupportOf(q.user, q.admin), GoOn(r, i, FALSE), UNCHANGED bothSought
      PROVE  MailboxInv'
  BY <1>0, <1>1, GoOnFound DEF SupportOf
<1>2. ASSUME SupportOf(q.user, q.admin) = {}, ResumeAt(r, [q EXCEPT !.pc = "createSupport"]),
             bothSought' = IF \E p \in Caller \ {r} :
                                 mailCall[p].pc = "createSupport" /\ mailCall[p].user = q.user
                           THEN bothSought \union {q.user} ELSE bothSought
      PROVE  MailboxInv'
  <2> USE DEF MailboxInv
  <2>1. PICK state : state = [q EXCEPT !.pc = "createSupport"]
    OBVIOUS
  <2>2. q \in [pc : {"find", "createSupport"}, user : Client, admin : Person,
               sender : Person \union {NoOne}, job : Job]
    BY <1>0, MailFacts, CallAt
  <2>3. /\ state \in [pc : {"find", "createSupport"}, user : Client, admin : Person,
                      sender : Person \union {NoOne}, job : Job]
        /\ state.pc = "createSupport" /\ state.user = q.user /\ state.admin = q.admin
        /\ state.sender = q.sender /\ state.job = q.job
    BY <2>1, <2>2
  <2>4. state \in CallState
    BY <2>3, CallStates
  <2>5. /\ mailCall' \in [Caller -> CallState] /\ mailCall'[r] = state
        /\ \A p \in Caller \ {r} : mailCall'[p] = mailCall[p]
    BY <1>2, <2>1, <2>4, MailFacts DEF ResumeAt
  <2>6. /\ bothSought \subseteq bothSought' /\ bothSought' \subseteq Client
        /\ \A p \in Caller \ {r} :
               mailCall[p].pc = "createSupport" /\ mailCall[p].user = q.user =>
                   q.user \in bothSought'
    BY <1>2, <2>2 DEF MailboxTypeOK
  <2>7. Ids' = Ids /\ (\A i : With(i)' = With(i)) /\ (\A u, a : SupportOf(u, a)' = SupportOf(u, a))
    BY <1>0 DEF Ids, With, SupportOf, IsSupport
  <2>8. MailboxTypeOK'
    BY <1>0, <2>5, <2>6, <2>7 DEF MailboxTypeOK
  <2>9. OneSupport'
    BY <2>6, <2>7 DEF OneSupport
  <2>10. ASSUME NEW o, StateFits(o) PROVE StateFits(o)'
    BY <1>0, <2>6, <2>7, <2>10 DEF StateFits
  <2>11. StateFits(state)'
    <3>1. q.admin \in Admins /\ (q.job = "reject" => q.sender \in Person)
      BY <1>0 DEF MailCallFits, StateFits
    <3> QED
      BY <1>2, <2>3, <2>7, <3>1 DEF StateFits, WillWelcome
  <2>12. ASSUME NEW p \in Caller PROVE MailCallFits(p)'
    <3>1. PICK o : o = mailCall'[p]
      OBVIOUS
    <3>2. StateFits(o)'
      BY <2>5, <2>10, <2>11, <3>1 DEF MailCallFits
    <3> QED
      BY <3>1, <3>2 DEF MailCallFits, StateFits, WillWelcome
  <2>13. ASSUME NEW p \in Caller, NEW o \in Caller, p # o PROVE CallsApart(p, o)'
    BY <2>3, <2>5, <2>6, <2>13 DEF CallsApart, StatesApart, WillWelcome
  <2> QED
    BY <1>0, <2>7, <2>8, <2>9, <2>12, <2>13
<1> QED
  BY <1>1, <1>2 DEF FindSupport

LEMMA CreateSupportKeeps == ASSUME MailboxInv, NEW r \in Caller, CreateSupport(r) PROVE MailboxInv'
<1>1. PICK u \in Client, a \in Admins : u = mailCall[r].user /\ a = mailCall[r].admin
  BY MailFacts, CallAt DEF CreateSupport, MailboxInv, MailCallFits, StateFits
<1>2. PICK row : row = NewConversation({u, a}, FALSE, NoOne)
  OBVIOUS
<1>3. {u, a} \in SUBSET Person
  BY DEF Person, Admins
<1>4. /\ row \in MailRow /\ row.participants = {u, a} /\ row.product = FALSE /\ row.order = NoOne
      /\ row.welcomes = 0 /\ row.blockedBy = {} /\ row.texts = {}
  BY <1>2, <1>3 DEF NewConversation, MailRow
<1>5. MailRowFits(row)
  BY <1>4 DEF MailRowFits
<1>6. AppendRow(row) /\ UNCHANGED <<userBlocks, appointed, ordered, mailed, bothSought>>
  BY <1>1, <1>2 DEF CreateSupport
<1>7. PICK n : n = Len(conversations) + 1
  OBVIOUS
<1>8. Len(conversations') = n /\ n \in 1..MaxConversations
  BY <1>6, <1>7, MailFacts, MailboxAssumption DEF AppendRow
<1>9. \E state \in CallState : /\ ResumeAt(r, state) /\ state.pc \in {"done", "welcoming", "send"}
                               /\ state.pc # "done" => state.conversation = n
  <2>1. GoOn(r, n, TRUE)
    BY <1>8 DEF CreateSupport
  <2>2. CASE mailCall[r].job = "reject"
    <3>1. PICK sender \in Person : sender = mailCall[r].sender
      BY <2>2 DEF CreateSupport, MailboxInv, MailCallFits, StateFits
    <3>2. PICK state :
              state = [pc |-> "send", conversation |-> n, sender |-> sender, job |-> "reject"]
      OBVIOUS
    <3>3. state \in CallState /\ state.pc = "send" /\ state.conversation = n
      BY <1>8, <3>2, CallStates DEF Job
    <3> QED
      BY <2>1, <2>2, <3>1, <3>2, <3>3 DEF GoOn
  <2>3. CASE mailCall[r].job = "welcome"
    <3>1. PICK state : state = [pc |-> "welcoming", conversation |-> n]
      OBVIOUS
    <3>2. state \in CallState /\ state.pc = "welcoming" /\ state.conversation = n
      BY <1>8, <3>1, CallStates
    <3> QED
      BY <2>1, <2>3, <3>1, <3>2 DEF GoOn
  <2>4. CASE mailCall[r].job \notin {"reject", "welcome"}
    BY <2>1, <2>4, CallsAreStarted DEF GoOn
  <2> QED
    BY <2>2, <2>3, <2>4
<1> QED
  BY <1>1, <1>4, <1>5, <1>6, <1>7, <1>9, AppendKeeps DEF CreateSupport, ResumeAt

LEMMA SignWelcomeKeeps == ASSUME MailboxInv, NEW r \in Caller, SignWelcome(r) PROVE MailboxInv'
<1>0. UNCHANGED <<conversations, userBlocks, appointed, ordered, mailed, bothSought>>
  BY DEF SignWelcome, OnlyCall
<1>1. PICK i \in Ids : i = mailCall[r].conversation /\ conversations[i].welcomes = 0
  BY DEF SignWelcome, MailboxInv, MailCallFits, StateFits, WillWelcome
<1>2. CASE AdministrationUserId = NoOne
  BY <1>0, <1>2, CallsAreStarted, CallsGoOn DEF SignWelcome
<1>3. CASE AdministrationUserId # NoOne
  <2>1. PICK sender \in Person : sender = AdministrationUserId
    BY <1>3, Administration DEF Admins, Person
  <2>2. ResumeAt(r, [pc |-> "send", conversation |-> i, sender |-> sender, job |-> "welcome"])
    BY <1>1, <1>3, <2>1 DEF SignWelcome
  <2>3. i \in 1..MaxConversations /\ "welcome" \in Job
    BY MailFacts DEF Job
  <2>4. WillWelcome(mailCall[r])
    BY DEF SignWelcome, WillWelcome
  <2>5. PICK state :
            state = [pc |-> "send", conversation |-> i, sender |-> sender, job |-> "welcome"]
    OBVIOUS
  <2>6. state \in CallState /\ StateFits(state) /\ state.pc = "send" /\ state.conversation = i
    BY <1>1, <2>3, <2>5, SendState
  <2> QED
    BY <1>0, <1>1, <2>2, <2>4, <2>5, <2>6, CallsGoOn
<1> QED
  BY <1>2, <1>3

LEMMA SupportCalls ==
    ASSUME MailboxInv, NEW r \in Caller,
           \/ \E u \in Client : ResolveSupport(r, u) \/ EnsureAndWelcome(r, u)
           \/ ModerationRejected(r) \/ FindForRejection(r) \/ AbortCall(r)
    PROVE  MailboxInv'
<1>1. ASSUME NEW u \in Client, ResolveSupport(r, u) \/ EnsureAndWelcome(r, u) PROVE MailboxInv'
  <2>1. PICK job \in {"open", "welcome"} : /\ AdministrationUserId # NoOne
                                           /\ StartCall(r, Looking(u, NoOne, job))
    BY <1>1 DEF ResolveSupport, EnsureAndWelcome
  <2>2. job \in Job /\ job # "reject" /\ NoOne \in Person \union {NoOne}
    BY DEF Job
  <2>3. PICK state : state = Looking(u, NoOne, job)
    OBVIOUS
  <2>4. state \in CallState /\ StateFits(state) /\ state.pc = "find" /\ ~WillWelcome(state)
    BY <2>1, <2>2, <2>3, LookingState
  <2> QED
    BY <2>1, <2>3, <2>4, CallsBegin
<1>2. ASSUME ModerationRejected(r) PROVE MailboxInv'
  <2>1. PICK sender \in Person : sender = AdministrationUserId
    BY <1>2, Administration DEF ModerationRejected, Admins, Person
  <2>2. PICK state : state = [pc |-> "rejecting", sender |-> sender]
    OBVIOUS
  <2>3. state \in CallState /\ state.pc = "rejecting"
    BY <2>2, CallStates
  <2>4. StateFits(state) /\ ~WillWelcome(state)
    BY <2>3 DEF StateFits, WillWelcome
  <2> QED
    BY <1>2, <2>1, <2>2, <2>3, <2>4, CallsBegin DEF ModerationRejected
<1>3. ASSUME FindForRejection(r) PROVE MailboxInv'
  <2>0. UNCHANGED <<conversations, userBlocks, appointed, ordered, mailed, bothSought>>
    BY <1>3 DEF FindForRejection, OnlyCall
  <2>1. CASE AdministrationUserId = NoOne
    BY <1>3, <2>0, <2>1, CallsAreStarted, CallsGoOn DEF FindForRejection
  <2>2. CASE AdministrationUserId # NoOne
    <3>1. mailCall[r].sender \in Person /\ "reject" \in Job /\ Seller \in Client
      BY <1>3, MailFacts, CallAt DEF FindForRejection, Job, Client
    <3>2. PICK state : state = Looking(Seller, mailCall[r].sender, "reject")
      OBVIOUS
    <3>3. state \in CallState /\ StateFits(state) /\ state.pc = "find" /\ ~WillWelcome(state)
      BY <2>2, <3>1, <3>2, LookingState
    <3>4. ResumeAt(r, state)
      BY <1>3, <2>2, <3>2 DEF FindForRejection
    <3> QED
      BY <2>0, <3>3, <3>4, CallsGoOn
  <2> QED
    BY <2>1, <2>2
<1>4. ASSUME AbortCall(r) PROVE MailboxInv'
  BY <1>4, CallsAreStarted, CallsGoOn DEF AbortCall, OnlyCall
<1> QED
  BY <1>1, <1>2, <1>3, <1>4

-----------------------------------------------------------------------------
\* What the participants do.
LEMMA MarkFacts ==
    ASSUME MailboxInv, Mark
    PROVE  /\ mailed' \in 0..MaxMail /\ UNCHANGED <<appointed, ordered, bothSought, mailCall>>
           /\ userBlocks \subseteq Person \X Person /\ mailCall \in [Caller -> CallState]
  BY MailboxAssumption DEF Mark, Count, MailboxInv, MailboxTypeOK

LEMMA AlterRow ==
    ASSUME MailboxInv, NEW i \in Ids, NEW row \in MailRow, Alter(i, row),
           row.participants = With(i), row.product = conversations[i].product,
           row.order = conversations[i].order, row.welcomes = conversations[i].welcomes,
           row.blockedBy \subseteq With(i), row.texts \subseteq With(i)
    PROVE  MailboxInv'
<1>1. MailRowFits(row)
  BY RowStays DEF MailRowFits, With
<1>2. Mark /\ conversations' = [conversations EXCEPT ![i] = row] /\ UNCHANGED userBlocks
  BY DEF Alter
<1> QED
  BY <1>1, <1>2, MarkFacts, AlterKeeps

LEMMA ParticipantSteps ==
    ASSUME MailboxInv, NEW i \in Ids,
           \/ \E u \in With(i) :
                  Archive(i, u) \/ BlockConversation(i, u) \/ Write(i, u) \/ Erase(i, u)
           \/ Deactivate(i)
    PROVE  MailboxInv'
<1> DEFINE c == conversations[i]
<1>0. /\ c \in MailRow /\ With(i) \subseteq Person /\ With(i) = c.participants
      /\ c.blockedBy \subseteq With(i) /\ c.texts \subseteq With(i)
  BY RowStays DEF MailRow, MailRowFits, With
<1>1. ASSUME NEW set, NEW row, row = [c EXCEPT !.archivedBy = set], set \subseteq Person,
             Alter(i, row)
      PROVE  MailboxInv'
  <2>1. /\ row \in MailRow /\ row.participants = c.participants /\ row.product = c.product
        /\ row.order = c.order /\ row.welcomes = c.welcomes /\ row.blockedBy = c.blockedBy
        /\ row.texts = c.texts
    BY <1>0, <1>1 DEF MailRow
  <2> QED
    BY <1>0, <1>1, <2>1, AlterRow
<1>2. ASSUME NEW set, NEW row, row = [c EXCEPT !.blockedBy = set], set \subseteq With(i),
             Alter(i, row)
      PROVE  MailboxInv'
  <2>1. /\ row \in MailRow /\ row.participants = c.participants /\ row.product = c.product
        /\ row.order = c.order /\ row.welcomes = c.welcomes /\ row.blockedBy = set
        /\ row.texts = c.texts
    BY <1>0, <1>2 DEF MailRow
  <2> QED
    BY <1>0, <1>2, <2>1, AlterRow
<1>3. ASSUME NEW set, NEW row, row = [c EXCEPT !.texts = set], set \subseteq With(i), Alter(i, row)
      PROVE  MailboxInv'
  <2>1. /\ row \in MailRow /\ row.participants = c.participants /\ row.product = c.product
        /\ row.order = c.order /\ row.welcomes = c.welcomes /\ row.blockedBy = c.blockedBy
        /\ row.texts = set
    BY <1>0, <1>3 DEF MailRow
  <2> QED
    BY <1>0, <1>3, <2>1, AlterRow
<1>4. ASSUME NEW row, row = [c EXCEPT !.isActive = FALSE], Alter(i, row) PROVE MailboxInv'
  <2>1. /\ row \in MailRow /\ row.participants = c.participants /\ row.product = c.product
        /\ row.order = c.order /\ row.welcomes = c.welcomes /\ row.blockedBy = c.blockedBy
        /\ row.texts = c.texts
    BY <1>0, <1>4 DEF MailRow
  <2> QED
    BY <1>0, <1>4, <2>1, AlterRow
<1>5. ASSUME NEW u \in With(i), NEW set, set \subseteq With(i) \union Person
      PROVE  /\ Flip(u, set) \subseteq set \union {u}
  BY DEF Flip
<1>6. ASSUME NEW u \in With(i), Archive(i, u) PROVE MailboxInv'
  <2>1. Flip(u, c.archivedBy) \subseteq Person
    BY <1>0, <1>5 DEF MailRow
  <2> QED
    BY <1>1, <1>6, <2>1 DEF Archive
<1>7. ASSUME NEW u \in With(i), BlockConversation(i, u) PROVE MailboxInv'
  <2>1. Flip(u, c.blockedBy) \subseteq With(i)
    BY <1>0, <1>5
  <2> QED
    BY <1>2, <1>7, <2>1 DEF BlockConversation
<1>8. ASSUME NEW u \in With(i), Write(i, u) \/ Erase(i, u) PROVE MailboxInv'
  <2>1. c.texts \union {u} \subseteq With(i) /\ c.texts \ {u} \subseteq With(i)
    BY <1>0
  <2> QED
    BY <1>3, <1>8, <2>1 DEF Write, Erase
<1>9. ASSUME Deactivate(i) PROVE MailboxInv'
  BY <1>4, <1>9 DEF Deactivate
<1> QED
  BY <1>6, <1>7, <1>8, <1>9

\* Blocks and accounts, which no row knows of.
LEMMA OutsideSteps ==
    ASSUME MailboxInv,
           \/ \E a \in appointed : Dismiss(a)
           \/ \E i \in Ids : \E u, v \in With(i) : BlockPerson(u, v)
    PROVE  MailboxInv'
<1> USE DEF MailboxInv
<1>1. UNCHANGED <<conversations, ordered, mailCall, bothSought>>
  BY DEF Dismiss, BlockPerson, Mark
<1>2. appointed' \subseteq {Dedicated, StaffAdmin}
  BY DEF Dismiss, BlockPerson, Mark, MailboxTypeOK
<1>3. mailed' \in 0..MaxMail
  <2>1. UNCHANGED mailed \/ (mailed < MaxMail /\ mailed' = mailed + 1)
    BY DEF Dismiss, BlockPerson, Mark, Count
  <2>2. mailed \in 0..MaxMail
    BY DEF MailboxTypeOK
  <2> QED
    BY <2>1, <2>2, MailboxAssumption
<1>4. userBlocks' \subseteq Person \X Person
  <2>1. CASE UNCHANGED userBlocks
    BY <2>1 DEF MailboxTypeOK
  <2>2. ASSUME NEW i \in Ids, NEW u \in With(i), NEW v \in With(i), BlockPerson(u, v)
        PROVE  userBlocks' \subseteq Person \X Person
    <3>1. u \in Person /\ v \in Person
      BY RowStays DEF MailRow, With
    <3>2. <<u, v>> \in Person \X Person
      BY <3>1
    <3> QED
      BY <2>2, <3>2 DEF BlockPerson, Flip, MailboxTypeOK
  <2> QED
    BY <2>1, <2>2 DEF Dismiss
<1>5. Ids' = Ids /\ (\A i : With(i)' = With(i)) /\ (\A u, a : SupportOf(u, a)' = SupportOf(u, a))
  BY <1>1 DEF Ids, With, SupportOf, IsSupport
<1>6. MailboxTypeOK'
  BY <1>1, <1>2, <1>3, <1>4, <1>5 DEF MailboxTypeOK
<1>7. OneSupport'
  BY <1>1, <1>5 DEF OneSupport
<1>8. \A r \in Caller : MailCallFits(r)'
  BY <1>1, <1>5 DEF MailCallFits, StateFits, WillWelcome
<1>9. \A p, r \in Caller : p # r => CallsApart(p, r)'
  BY <1>1 DEF CallsApart, StatesApart, WillWelcome
<1> QED
  BY <1>1, <1>5, <1>6, <1>7, <1>8, <1>9

LEMMA MailboxInvInit == MailboxInit => MailboxInv
<1> SUFFICES ASSUME MailboxInit PROVE MailboxInv
  OBVIOUS
<1>1. Ids = {} /\ Len(conversations) = 0
  BY DEF MailboxInit, Ids
<1>2. MailboxTypeOK
  BY <1>1, CallsAreStarted, MailboxAssumption DEF MailboxInit, MailboxTypeOK
<1>3. OneSupport
  BY <1>1 DEF OneSupport, SupportOf
<1>4. \A r \in Caller : MailCallFits(r)
  BY CallsAreStarted DEF MailboxInit, MailCallFits
<1>5. \A p, r \in Caller : p # r => CallsApart(p, r)
  BY CallsAreStarted DEF MailboxInit, CallsApart, StatesApart
<1> QED
  BY <1>1, <1>2, <1>3, <1>4, <1>5, MailboxAssumption DEF MailboxInv

LEMMA MailboxInvNext == ASSUME MailboxInv, [MailboxNext]_mailVars PROVE MailboxInv'
<1>1. CASE UNCHANGED mailVars
  <2> USE DEF MailboxInv
  <2>1. UNCHANGED <<conversations, userBlocks, appointed, ordered, mailCall, mailed, bothSought>>
    BY <1>1 DEF mailVars
  <2>2. Ids' = Ids /\ (\A i : With(i)' = With(i)) /\ (\A u, a : SupportOf(u, a)' = SupportOf(u, a))
    BY <2>1 DEF Ids, With, SupportOf, IsSupport
  <2>3. MailboxTypeOK' /\ OneSupport'
    BY <2>1, <2>2 DEF MailboxTypeOK, OneSupport
  <2>4. \A r \in Caller : MailCallFits(r)'
    BY <2>1, <2>2 DEF MailCallFits, StateFits, WillWelcome
  <2>5. \A p, r \in Caller : p # r => CallsApart(p, r)'
    BY <2>1 DEF CallsApart, StatesApart, WillWelcome
  <2> QED
    BY <2>1, <2>2, <2>3, <2>4, <2>5
<1>2. ASSUME NEW r \in Caller, NEW u \in Client, OpenChatForProduct(r, u) PROVE MailboxInv'
  BY <1>2, ResolveByProductKeeps DEF OpenChatForProduct, Client
<1> QED
  BY <1>1, <1>2, ResolveByProductKeeps, ResolveByOrderKeeps, PlaceOrderKeeps, CreateForKeeps,
     ForOrderKeeps, LinkToOrderKeeps, SupportCalls, FindSupportKeeps, CreateSupportKeeps,
     SignWelcomeKeeps, SendAsKeeps, ParticipantSteps, OutsideSteps DEF MailboxNext

\* The other one in a conversation.
LEMMA OtherOne ==
    ASSUME MailboxInv, NEW i \in Ids, NEW u \in With(i)
    PROVE  /\ OtherOf(i, u) # u /\ With(i) = {u, OtherOf(i, u)} /\ With(i) \subseteq Person
           /\ OtherOf(i, OtherOf(i, u)) = u
<1>1. conversations[i] \in MailRow /\ MailRowFits(conversations[i])
  BY MailFacts DEF MailboxInv
<1>2. PICK x \in Client, y \in Person : With(i) = {x, y} /\ x # y
  BY <1>1, RowIsPair DEF With
<1>3. ASSUME NEW w \in With(i) PROVE OtherOf(i, w) \in With(i) /\ OtherOf(i, w) # w
  <2>1. \E v \in With(i) : v # w
    BY <1>2
  <2> QED
    BY <2>1 DEF OtherOf
<1>4. OtherOf(i, u) \in With(i) /\ OtherOf(i, u) # u
  BY <1>3
<1>5. /\ OtherOf(i, OtherOf(i, u)) \in With(i)
      /\ OtherOf(i, OtherOf(i, u)) # OtherOf(i, u)
  BY <1>3, <1>4
<1> QED
  BY <1>2, <1>4, <1>5 DEF Client, Person

\* Who is on a card about the product.
LEMMA BuyerIsOther ==
    ASSUME MailboxInv, NEW i \in Ids, conversations[i].product
    PROVE  \E b \in Buyer : /\ With(i) = {Seller, b} /\ b # Seller /\ BuyerOn(i) = b
                            /\ conversations[i].order \in {NoOne, b} /\ SellerOn(i) = Seller
<1>1. PICK b \in Buyer : With(i) = {Seller, b} /\ conversations[i].order \in {NoOne, b}
  BY DEF MailboxInv, MailRowFits, With
<1>2. b # Seller
  BY MailboxAssumption
<1>3. OtherOf(i, Seller) = b
  BY <1>1, <1>2, OtherOne
<1> QED
  BY <1>1, <1>2, <1>3 DEF BuyerOn, SellerOn

LEMMA CardsFit == ASSUME MailboxInv, NEW i \in Ids PROVE CardFits(i)
<1> SUFFICES ASSUME conversations[i].product PROVE CardFits(i)
  BY DEF CardFits
<1>1. PICK b \in Buyer : /\ With(i) = {Seller, b} /\ b # Seller /\ BuyerOn(i) = b
                         /\ conversations[i].order \in {NoOne, b} /\ SellerOn(i) = Seller
  BY BuyerIsOther
<1>2. PICK card : card = GetConversationById(i, Seller)
  OBVIOUS
<1>3. /\ card.seller = Seller /\ card.buyer = b /\ card.pinnedOrder = conversations[i].order
      /\ card.role = [p \in With(i) |-> RoleOf(i, p)]
  BY <1>1, <1>2 DEF GetConversationById, Card
<1>4. Seller # NoOne
  BY MailboxAssumption DEF Person, Client
<1>5. conversations[i].order # NoOne =>
          card.role[Seller] = "seller" /\ card.role[b] = "consumer"
  BY <1>1, <1>3, <1>4 DEF RoleOf
<1> QED
  BY <1>1, <1>2, <1>3, <1>5 DEF CardFits

LEMMA CardsTell ==
    ASSUME MailboxInv, NEW i \in Ids, NEW u \in With(i) PROVE CardsTellWhoMayWrite(i, u)
<1>1. PICK v : v = OtherOf(i, u)
  OBVIOUS
<1>2. v # u /\ With(i) = {u, v} /\ OtherOf(i, v) = u
  BY <1>1, OtherOne
<1>3. PICK mine, theirs : mine = GetConversationById(i, u) /\ theirs = GetConversationById(i, v)
  OBVIOUS
<1>4. /\ mine.isActive = conversations[i].isActive
      /\ mine.isBlocked = (u \in conversations[i].blockedBy)
      /\ theirs.isBlocked = (v \in conversations[i].blockedBy)
      /\ theirs.blocked = IsUserBlockingOtherUser(v, u)
  BY <1>2, <1>3 DEF GetConversationById, Card
<1>5. conversations[i].blockedBy \subseteq {u, v}
  BY <1>2 DEF MailboxInv, MailRowFits, With
<1>6. conversations[i].blockedBy = {} <=> ~mine.isBlocked /\ ~theirs.isBlocked
  BY <1>4, <1>5
<1>7. BlockedFrom(u, v) <=> theirs.blocked /\ v # Dedicated
  BY <1>2, <1>4 DEF BlockedFrom, IsUserBlockingOtherUser
<1> QED
  BY <1>1, <1>3, <1>4, <1>6, <1>7 DEF CardsTellWhoMayWrite, MayWrite

\* A list shows of a conversation what its own screen shows.
LEMMA ListShowsCards ==
    ASSUME NEW u, NEW archived
    PROVE  GetConversations(u, archived) = {GetConversationById(i, u) : i \in Visible(u, archived)}
<1> DEFINE blocked == GetBlockedUserIds(u, {OtherOf(i, u) : i \in Visible(u, archived)})
<1>1. ASSUME NEW i \in Visible(u, archived)
      PROVE  (OtherOf(i, u) \in blocked) = IsUserBlockingOtherUser(u, OtherOf(i, u))
  BY DEF GetBlockedUserIds, IsUserBlockingOtherUser
<1>2. ASSUME NEW i \in Visible(u, archived)
      PROVE  Card(i, u, OtherOf(i, u) \in blocked) = GetConversationById(i, u)
  BY <1>1 DEF GetConversationById
<1> HIDE DEF blocked
<1>3. GetConversations(u, archived) =
          {Card(i, u, OtherOf(i, u) \in blocked) : i \in Visible(u, archived)}
  BY DEF GetConversations, blocked
<1> QED
  BY <1>2, <1>3

LEMMA ListsAgree == ASSUME MailboxInv, NEW u \in Person PROVE ListAgrees(u)
<1>1. Visible(u, BOOLEAN) = {i \in Ids : u \in With(i)}
  BY DEF Visible
<1>2. Visible(u, BOOLEAN) = Visible(u, {TRUE}) \union Visible(u, {FALSE})
  BY DEF Visible
<1>3. SearchMessages(u) = {i \in Ids : u \in With(i) /\ conversations[i].texts # {}}
  BY <1>1 DEF SearchMessages
<1>4. ASSUME NEW card \in GetConversations(u, BOOLEAN), card.blocked
      PROVE  OtherOf(card.id, u) \in GetBlockedUsers(u) \union ({Dedicated, StaffAdmin} \ appointed)
  <2>1. PICK i \in Visible(u, BOOLEAN) : card = GetConversationById(i, u)
    BY <1>4, ListShowsCards
  <2>2. card.id = i /\ card.blocked = IsUserBlockingOtherUser(u, OtherOf(i, u))
    BY <2>1 DEF GetConversationById, Card
  <2>3. OtherOf(i, u) \in Person
    BY <1>1, <2>1, OtherOne
  <2> QED
    BY <1>4, <2>2, <2>3 DEF IsUserBlockingOtherUser, GetBlockedUsers, Person
<1>5. GetConversations(u, BOOLEAN) = GetConversations(u, {TRUE}) \union GetConversations(u, {FALSE})
  BY <1>2, ListShowsCards
<1> QED
  BY <1>3, <1>4, <1>5, ListShowsCards DEF ListAgrees

LEMMA InterestOnCards == ASSUME MailboxInv PROVE InterestIsOnCards
<1> SUFFICES ASSUME NEW b \in GetInterestedBuyers
             PROVE  \E card \in GetConversations(Seller, BOOLEAN) :
                        card.id = b.conversation /\ card.buyer = b.user /\ card.isActive
  BY DEF InterestIsOnCards
<1>1. PICK i \in Ids, v \in Person \ {Seller} : i = b.conversation /\ v = b.user
  BY DEF GetInterestedBuyers
<1>2. /\ conversations[i].product /\ conversations[i].isActive
      /\ Seller \in With(i) /\ v \in conversations[i].texts
  BY <1>1 DEF GetInterestedBuyers, With
<1>3. v \in With(i)
  BY <1>2 DEF MailboxInv, MailRowFits, With
<1>4. BuyerOn(i) = v
  BY <1>1, <1>2, <1>3, BuyerIsOther
<1>5. PICK card : card = GetConversationById(i, Seller)
  OBVIOUS
<1>6. card.id = i /\ card.buyer = v /\ card.isActive
  BY <1>2, <1>4, <1>5 DEF GetConversationById, Card
<1>7. i \in Visible(Seller, BOOLEAN)
  BY <1>2 DEF Visible
<1> QED
  BY <1>1, <1>5, <1>6, <1>7, ListShowsCards

LEMMA MailboxInvSays == MailboxInv => MailboxTypeOK /\ MailboxAgrees
<1> SUFFICES ASSUME MailboxInv PROVE MailboxTypeOK /\ MailboxAgrees
  OBVIOUS
<1>1. ASSUME NEW u \in Client PROVE OneSupportChat(u)
  <2>1. ASSUME NEW a \in Admins, u \notin bothSought PROVE Cardinality(SupportOf(u, a)) <= 1
    <3>1. CASE SupportOf(u, a) = {}
      BY <3>1, FS_EmptySet
    <3>2. CASE SupportOf(u, a) # {}
      <4>1. PICK i : SupportOf(u, a) = {i}
        BY <2>1, <3>2 DEF MailboxInv, OneSupport
      <4>2. Cardinality({i}) = 1
        BY FS_Singleton
      <4> QED
        BY <4>1, <4>2
    <3> QED
      BY <3>1, <3>2
  <2>2. \A i \in Ids : conversations[i].welcomes <= 1
    BY DEF MailboxInv, MailRowFits
  <2> QED
    BY <2>1, <2>2 DEF OneSupportChat, Admins
<1> QED
  BY <1>1, CardsFit, CardsTell, ListsAgree, InterestOnCards DEF MailboxAgrees, MailboxInv

-----------------------------------------------------------------------------
(***************************************************************************)
(* The theorems.                                                           *)
(***************************************************************************)
AccountsInv ==
    /\ SessionsInv /\ SocketsInv /\ NamesInv /\ ChannelsInv
    /\ InboxInv /\ RoomsInv /\ MailboxInv /\ part \in Part

LEMMA AccountsInvInit == Init => AccountsInv
  BY SessionsInvInit, SocketsInvInit, NamesInvInit, ChannelsInvInit, InboxInvInit, RoomsInvInit,
     MailboxInvInit DEF Init, AccountsInv

LEMMA AccountsInvNext == AccountsInv /\ [Next]_<<partVars, part>> => AccountsInv'
<1> SUFFICES ASSUME AccountsInv, [Next]_<<partVars, part>> PROVE AccountsInv'
  OBVIOUS
<1>1. (SessionsInv /\ SocketsInv /\ NamesInv /\ ChannelsInv)'
  BY PartsAlone, SessionsInvNext, SocketsInvNext, NamesInvNext, ChannelsInvNext DEF AccountsInv
<1>2. (InboxInv /\ RoomsInv /\ MailboxInv)'
  BY PartsAlone, InboxInvNext, RoomsInvNext, MailboxInvNext DEF AccountsInv
<1>3. (part \in Part)'
  BY PartsAlone DEF AccountsInv, Part
<1> QED
  BY <1>1, <1>2, <1>3 DEF AccountsInv

\* The invariants of the parts hold throughout.
THEOREM Invariance == Spec => []AccountsInv
  BY AccountsInvInit, AccountsInvNext, PTL DEF Spec

\* Every part's variables stay in their types.
THEOREM TypeCorrect == Spec => []TypeOK
<1>1. AccountsInv => TypeOK
  <2> SUFFICES ASSUME AccountsInv PROVE TypeOK
    OBVIOUS
  <2>1. /\ SessionsTypeOK /\ SocketsTypeOK /\ RoomsTypeOK /\ NamesTypeOK
        /\ ChannelsTypeOK /\ InboxTypeOK /\ MailboxTypeOK
    BY MailboxInvSays
       DEF AccountsInv, SessionsInv, SocketsInv, RoomsInv, NamesInv, RowsInv, NamesTypeOK,
           ChannelsInv, InboxInv
  <2>2. part \in Part
    BY DEF AccountsInv
  <2> QED
    BY <2>1, <2>2 DEF Part, TypeOK
<1> QED
  BY <1>1, Invariance, PTL

\* Of the devices that logged in with a code at most one holds the session, for
\* any number of devices, logins, refreshes and aborted requests.
THEOREM OneSessionCorrect == Spec => []OneSession
<1>1. AccountsInv => OneSession
  BY OneHolderSays DEF AccountsInv, SessionsInv, SessionsCore
<1> QED
  BY <1>1, Invariance, PTL

\* Push tokens go with the session they were registered under, except those that
\* could not be cleared or that an overtaken registration wrote.
THEOREM TokensEndWithSessionCorrect == Spec => []TokensEndWithSession
<1>1. AccountsInv => TokensEndWithSession
  BY DEF AccountsInv, SessionsInv
<1> QED
  BY <1>1, Invariance, PTL

\* A user is online while a socket is registered, the others are told, and the
\* rooms of auctions are left, for any number of sockets.
THEOREM PresenceCorrect == Spec => []Presence
<1>1. AccountsInv => Presence
  BY DEF AccountsInv, SocketsInv
<1> QED
  BY <1>1, Invariance, PTL

\* A name is refused by the database only for a race or a deleted label, and
\* deleted users give up theirs, for any number of rows, names and handlers.
THEOREM NamesComeFreeCorrect == Spec => []NamesComeFree
<1>1. AccountsInv => NamesComeFree
  BY NamesInvSays DEF AccountsInv
<1> QED
  BY <1>1, Invariance, PTL

\* Files are kept as their clients were told, but for rows whose insert answered
\* with an error, for any number of requests, any threshold and any attempts.
THEOREM FilesKeptCorrect == Spec => []FilesKept
<1>1. AccountsInv => FilesKept
  BY DEF AccountsInv, ChannelsInv, FilesInv, CallFits, FilesKept
<1> QED
  BY <1>1, Invariance, PTL

\* Notifications that the user switched off stay off, for any number of requests.
THEOREM OffStaysOffCorrect == Spec => []OffStaysOff
<1>1. AccountsInv => OffStaysOff
  BY DEF AccountsInv, InboxInv
<1> QED
  BY <1>1, Invariance, PTL

\* A push goes to no device that had been given up when the notification began,
\* but for tokens that a stale write put back or Redis kept, for any number of
\* notifications, devices and requests about tokens.
THEOREM PushFindsOwnerCorrect == Spec => []PushFindsOwner
<1>1. AccountsInv => PushFindsOwner
  BY DEF AccountsInv, InboxInv, PushFits, PushFindsOwner
<1> QED
  BY <1>1, Invariance, PTL

\* A client that heard every event and asked for every page shows the thread of
\* the conversation it is in, and is in that conversation's room, for any number of
\* conversations, messages and pages asked for.
THEOREM RoomShowsThreadCorrect == Spec => []RoomShowsThread
<1>1. AccountsInv => RoomShowsThread
  BY RoomsInvSays DEF AccountsInv
<1> QED
  BY <1>1, Invariance, PTL

\* Lists, single conversations, search and the cards on them agree with each other
\* and with what sending will do, and the administration has one conversation with
\* a client unless two requests crossed, for any number of buyers and requests.
THEOREM MailboxAgreesCorrect == Spec => []MailboxAgrees
<1>1. AccountsInv => MailboxAgrees
  BY MailboxInvSays DEF AccountsInv
<1> QED
  BY <1>1, Invariance, PTL
=============================================================================
