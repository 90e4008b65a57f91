------------------------------ MODULE MCAccounts -------------------------------
(***************************************************************************)
(* What the platform keeps for its users, in parts that have no state in   *)
(* common: an account's sessions, the two gateways its sockets connect to, *)
(* what a client sees of its conversations, names that must be unique, the *)
(* calls to the storage and SMS providers, a user's notifications (the     *)
(* rows and the preference in one part, pushes and tokens in another), and *)
(* the conversations a user is shown.  A behaviour explores one of them,   *)
(* so that their states add up instead of multiplying.                     *)
(***************************************************************************)
EXTENDS TLC, Sessions, Sockets, Rooms, Names, Channels, Inbox, Mailbox

VARIABLE part

Part == {"sessions", "chat gateway", "auction gateway", "client", "names", "channels",
         "inbox", "push", "mailbox"}

partVars == <<sessionVars, socketVars, roomVars, nameVars, channelVars, inboxVars, mailVars>>

Init ==
    /\ SessionsInit /\ SocketsInit /\ RoomsInit /\ NamesInit /\ ChannelsInit
    /\ InboxInit /\ MailboxInit
    /\ part \in Part
    /\ part = "channels" \/ service = "sms"
    /\ part = "names" \/ table = "phone"

\* The parts that p is not stay as they are.
Keep(p, names, variables) == IF p \in names THEN TRUE ELSE UNCHANGED variables

Only(p) ==
    /\ part = p /\ UNCHANGED part
    /\ Keep(p, {"sessions"}, sessionVars)
    /\ Keep(p, {"chat gateway", "auction gateway"}, socketVars)
    /\ Keep(p, {"client"}, roomVars)
    /\ Keep(p, {"names"}, nameVars)
    /\ Keep(p, {"channels"}, channelVars)
    /\ Keep(p, {"inbox", "push"}, inboxVars)
    /\ Keep(p, {"mailbox"}, mailVars)

\* Tokens change from when the preference is there that lets a notification go.
PreferenceIsOn == preference = "on" /\ \A r \in PrefRequest : asking[r].at = "idle"

Next ==
    \/ Only("sessions") /\ SessionsNext
    \/ Only("chat gateway") /\ ChatGateway
    \/ Only("auction gateway") /\ AuctionGateway
    \/ Only("client") /\ RoomsNext
    \/ Only("names") /\ NamesNext
    \/ Only("channels") /\ ChannelsNext
    \/ Only("inbox") /\ (PreferenceStep \/ PushStep \/ RowStep)
    \/ Only("push") /\ (PushStep \/ (PreferenceIsOn /\ PhoneStep))
    \/ Only("mailbox") /\ MailboxNext

Spec == Init /\ [][Next]_<<partVars, part>>

TypeOK ==
    CASE part = "sessions" -> SessionsTypeOK
      [] part \in {"chat gateway", "auction gateway"} -> SocketsTypeOK
      [] part = "client" -> RoomsTypeOK
      [] part = "names" -> NamesTypeOK
      [] part = "channels" -> ChannelsTypeOK
      [] part \in {"inbox", "push"} -> InboxTypeOK
      [] part = "mailbox" -> MailboxTypeOK

\* A state is told by its part and that part's variables: the others never change.
View ==
    <<part,
      CASE part = "sessions" -> sessionVars
        [] part \in {"chat gateway", "auction gateway"} -> socketVars
        [] part = "client" -> roomVars
        [] part = "names" -> nameVars
        [] part = "channels" -> channelVars
        [] part \in {"inbox", "push"} -> inboxVars
        [] part = "mailbox" -> mailVars>>

\* Request, Call, PrefRequest, TokenRequest, Page, Writer and Caller get the same model
\* values, and so do Device, Conversation, Row, Phone and Buyer.
Symmetry == Permutations(Request) \union Permutations(Device)
=============================================================================
