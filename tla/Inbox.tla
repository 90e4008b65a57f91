-------------------------------- MODULE Inbox ---------------------------------
(***************************************************************************)
(* The notifications of one user: NotificationService as the events of     *)
(* auctions, orders, products and chats call it, the user's preference row *)
(* (which does not exist until it is first asked for), the rows in the     *)
(* inbox and the push that follows each of them, to the devices whose      *)
(* tokens the account has.  Every awaited query is a step; any number of   *)
(* calls may be under way at once.                                         *)
(***************************************************************************)
EXTENDS Naturals

CONSTANTS
    Notice,         \* calls of a notify function, each with the row it makes
    PrefRequest,    \* requests that read or change the preference
    TokenRequest,   \* requests that change the account's push tokens
    Phone,          \* push tokens, each of a device of its own
    NoPhone

ASSUME InboxAssumption == NoPhone \notin Phone

VARIABLES
    preference,     \* the row: "none", or "on" or "off" for pushEnabled
    switchedOff,    \* (history) the last switch written was "off"
    asking,         \* where each preference request stands
    notice,         \* where each notification stands, and its row
    present,        \* presenceService.isOnline
    phones,         \* the map of the account's tokens by device, in Redis
    lastPhone,      \* fcmToken of the account's row
    tokenCall,      \* where each token request stands, the map it has read and
                    \* (history) the tokens given again since it began
    given,          \* (history) the tokens given and not given up
    leftovers,      \* (history) those in the map that a stale write put back or that
                    \* Redis would not take out
    push            \* of each notification: fcmToken as read, the tokens it is sent
                    \* to, and (history) those given or left over since it began

preferenceVars == <<preference, switchedOff, asking>>
phoneVars == <<phones, lastPhone, tokenCall, given, leftovers>>
inboxVars == <<preferenceVars, notice, present, phoneVars, push>>

NoticeType == {"OUTBID", "NEW_BID", "BID_REJECTED", "AUCTION_ENDED",
               "AUCTION_ENDING_SOON", "ORDER_SHIPPED", "ORDER_DELIVERED", "SYSTEM"}

TokenCall == [at : {"idle", "giving", "naming", "taking", "forgetting", "clearing"},
              phone : Phone \union {NoPhone}, map : SUBSET Phone, again : SUBSET Phone]
NoCall == [at |-> "idle", phone |-> NoPhone, map |-> {}, again |-> {}]
NoPush == [read |-> NoPhone, to |-> {}, had |-> {}]

InboxTypeOK ==
    /\ preference \in {"none", "on", "off"}
    /\ switchedOff \in BOOLEAN /\ present \in BOOLEAN
    /\ asking \in [PrefRequest ->
                      [at : {"idle", "creating", "writing"}, value : {"show", "on", "off"}]]
    /\ notice \in [Notice -> [at : {"none", "allowed", "stored", "addressed", "chosen", "sent"},
                              row : {"none", "unread", "read", "deleted"},
                              type : NoticeType, mode : {"data-only", "notification"}]]
    /\ phones \subseteq Phone /\ lastPhone \in Phone \union {NoPhone}
    /\ given \subseteq Phone /\ leftovers \subseteq Phone
    /\ tokenCall \in [TokenRequest -> TokenCall]
    /\ push \in [Notice -> [read : Phone \union {NoPhone}, to : SUBSET Phone,
                            had : SUBSET Phone]]

InboxInit ==
    /\ preference = "none" /\ switchedOff = FALSE /\ present = FALSE
    /\ asking = [r \in PrefRequest |-> [at |-> "idle", value |-> "show"]]
    /\ notice = [n \in Notice |-> [at |-> "none", row |-> "none", type |-> "SYSTEM",
                                   mode |-> "notification"]]
    /\ phones = {} /\ lastPhone = NoPhone /\ given = {} /\ leftovers = {}
    /\ tokenCall = [r \in TokenRequest |-> NoCall]
    /\ push = [n \in Notice |-> NoPush]

-----------------------------------------------------------------------------
\* The preference.  Of its columns only pushEnabled is ever written.

StandAt(r, place, value) == asking' = [asking EXCEPT ![r] = [at |-> place, value |-> value]]

\* What is left of a request once the row exists.
Then(r, value) ==
    IF value = "show" THEN StandAt(r, "idle", value) ELSE StandAt(r, "writing", value)

ReadPreference(r, value) ==
    /\ asking[r].at = "idle"
    /\ IF preference = "none" THEN StandAt(r, "creating", value) ELSE Then(r, value)
    /\ UNCHANGED <<preference, switchedOff, notice, present, phoneVars, push>>

GetNotificationPreference(r) == ReadPreference(r, "show")

UpdateNotificationPreference(r) == \E value \in {"on", "off"} : ReadPreference(r, value)

FaultCreated == "on"

\* The default has everything on; the unique userId refuses a second row.
Created == IF preference = "none" THEN "on" ELSE preference

\* updateNotificationPreference asks again before it creates.
CreatePreference(r) ==
    /\ asking[r].at = "creating"
    /\ preference' = Created
    /\ IF preference = "none" THEN Then(r, asking[r].value) ELSE StandAt(r, "idle", "show")
    /\ UNCHANGED <<switchedOff, notice, present, phoneVars, push>>

FindAgain(r) ==
    /\ asking[r].at = "creating" /\ asking[r].value # "show" /\ preference # "none"
    /\ StandAt(r, "writing", asking[r].value)
    /\ UNCHANGED <<preference, switchedOff, notice, present, phoneVars, push>>

WritePreference(r) ==
    /\ asking[r].at = "writing"
    /\ preference' = asking[r].value
    /\ switchedOff' = (asking[r].value = "off")
    /\ StandAt(r, "idle", "show")
    /\ UNCHANGED <<notice, present, phoneVars, push>>

-----------------------------------------------------------------------------
\* Without a row nothing is enabled, whatever the defaults of its columns.
IsNotificationEnabled == preference = "on"

UnderWay(n) == notice[n].at \notin {"none", "sent"}

\* The user's row is read with its fcmToken and preference.
NotifyIfEnabled(n, type) ==
    /\ notice[n].at = "none" /\ notice[n].row = "none"
    /\ IsNotificationEnabled
    /\ notice' = [notice EXCEPT ![n].at = "allowed", ![n].type = type]
    /\ push' = [push EXCEPT ![n] = [read |-> lastPhone, to |-> {}, had |-> given \union leftovers]]
    /\ UNCHANGED <<preferenceVars, present, phoneVars>>

NotifyOutbid(n)                        == NotifyIfEnabled(n, "OUTBID")
NotifyNewBidForSeller(n)               == NotifyIfEnabled(n, "NEW_BID")
NotifyBidRejected(n)                   == NotifyIfEnabled(n, "BID_REJECTED")
NotifyAuctionEndedForParticipant(n)    == NotifyIfEnabled(n, "AUCTION_ENDED")
NotifyAuctionExtendedForParticipant(n) == NotifyIfEnabled(n, "AUCTION_ENDING_SOON")
NotifyOrderShipped(n)                  == NotifyIfEnabled(n, "ORDER_SHIPPED")
NotifyOrderDelivered(n)                == NotifyIfEnabled(n, "ORDER_DELIVERED")
NotifyOrderCancelled(n)                == NotifyIfEnabled(n, "SYSTEM")
NotifyProductApproved(n)               == NotifyIfEnabled(n, "SYSTEM")
NotifyProductRejected(n)               == NotifyIfEnabled(n, "SYSTEM")
NotifyNewMessage(n)                    == NotifyIfEnabled(n, "SYSTEM")

DeliveryModeForType(type) ==
    IF type \in NoticeType \ {"ORDER_SHIPPED", "ORDER_DELIVERED", "SYSTEM"} /\ present
    THEN "data-only" ELSE "notification"

\* persistAndPush: the row, then the tokens, the mode and the push; a failed push is
\* logged.  `row` and `at` part ways: the user may have dealt with the row.
Persist(n) ==
    /\ notice[n].at = "allowed"
    /\ \/ notice' = [notice EXCEPT ![n].at = "stored", ![n].row = "unread"] /\ UNCHANGED push
       \/ /\ notice' = [notice EXCEPT ![n].at = "none"]      \* the insert fails
          /\ push' = [push EXCEPT ![n] = NoPush]
    /\ UNCHANGED <<preferenceVars, present, phoneVars>>

\* What Redis answers when it is asked for the map: an error counts for no map.
MapRead == {phones, {}}

\* The row's token is for accounts without devices in the map.
Tokens(n, map) == IF map # {} THEN map ELSE {push[n].read} \ {NoPhone}

GetTokens(n) ==
    /\ notice[n].at = "stored"
    /\ \E to \in {Tokens(n, map) : map \in MapRead} :
          IF to = {}
          THEN notice' = [notice EXCEPT ![n].at = "sent"] /\ push' = [push EXCEPT ![n] = NoPush]
          ELSE notice' = [notice EXCEPT ![n].at = "addressed"] /\ push' = [push EXCEPT ![n].to = to]
    /\ UNCHANGED <<preferenceVars, present, phoneVars>>

ChooseMode(n) ==
    /\ notice[n].at = "addressed"
    /\ notice' = [notice EXCEPT ![n].at = "chosen", ![n].type = "SYSTEM",
                                ![n].mode = DeliveryModeForType(notice[n].type)]
    /\ UNCHANGED <<preferenceVars, present, phoneVars, push>>

\* sendNotificationToMultiple: Firebase answers for each token, and a token it does
\* not know is logged and stays.
SendPush(n) ==
    /\ notice[n].at = "chosen"
    /\ notice' = [notice EXCEPT ![n].at = "sent"]
    /\ push' = [push EXCEPT ![n] = NoPush]
    /\ UNCHANGED <<preferenceVars, present, phoneVars>>

-----------------------------------------------------------------------------
\* The tokens (Sessions has whose session they belong to).  updateFcmToken reads the
\* map, writes it back and writes the row, each step after an await; without a
\* deviceId it writes the row only.  Redis may fail any of its steps, which is logged.

SetPhones(map, last, tokens, left) ==
    /\ phones' = map /\ lastPhone' = last /\ given' = tokens /\ leftovers' = left
    /\ push' = [n \in Notice |-> IF UnderWay(n)
                                THEN [push[n] EXCEPT !.had = @ \union tokens \union left]
                                ELSE push[n]]
    /\ UNCHANGED <<preferenceVars, notice, present>>

\* The tokens that a request under way is going to have taken away.
Takes(r) ==
    {p \in Phone : \/ tokenCall[r].at = "clearing"
                  \/ (tokenCall[r].at \in {"taking", "forgetting"} /\ tokenCall[r].phone = p)}

\* Request r goes on to a state, and has just given some tokens.
TokenCallGoes(r, state, gives) ==
    tokenCall' = [q \in TokenRequest |->
                      IF q = r THEN state
                      ELSE [tokenCall[q] EXCEPT !.again = @ \union (gives \intersect Takes(q))]]

\* DeviceTokensService.setToken: what it has read is what it will change.
ReadMap(r) ==
    /\ tokenCall[r].at = "idle"
    /\ \E place \in {"giving", "taking"}, p \in Phone, map \in MapRead :
          TokenCallGoes(r, [at |-> place, phone |-> p, map |-> map, again |-> {}], {})
    /\ SetPhones(phones, lastPhone, given, leftovers)

\* The tokens a map about to be written has and the map in Redis has lost.
StaleIn(map) == (leftovers \union (map \ phones)) \intersect map

\* The map a request is about to write.
Written(r) ==
    LET c == tokenCall[r]
    IN  IF c.at = "giving" THEN c.map \union {c.phone} ELSE c.map \ {c.phone}

GiveInMap(r) ==
    LET p == tokenCall[r].phone
        naming == [at |-> "naming", phone |-> p, map |-> {}, again |-> {}]
    IN  /\ tokenCall[r].at = "giving"
        /\ \/ /\ TokenCallGoes(r, naming, {p})
              /\ SetPhones(Written(r), lastPhone, given \union {p}, StaleIn(Written(r)) \ {p})
           \/ TokenCallGoes(r, naming, {}) /\ SetPhones(phones, lastPhone, given, leftovers)

TakeFromMap(r) ==
    LET p == tokenCall[r].phone IN
    /\ tokenCall[r].at = "taking"
    /\ TokenCallGoes(r, [at |-> "forgetting", phone |-> p, map |-> {},
                         again |-> tokenCall[r].again], {})
    /\ \/ SetPhones(Written(r), lastPhone, given, StaleIn(Written(r)))
       \/ SetPhones(phones, lastPhone, given, leftovers \union ({p} \intersect phones))

\* The row with the token; for a request without a deviceId the only step.
NameToken(r) ==
    \E p \in Phone :
        /\ tokenCall[r].at = "idle" \/ (tokenCall[r].at = "naming" /\ tokenCall[r].phone = p)
        /\ TokenCallGoes(r, NoCall, {p})
        /\ SetPhones(phones, p, given \union {p}, leftovers)

\* The row without one.  With the map before it, the token is given up.
ForgetToken(r) ==
    LET c == tokenCall[r]
        gone == IF c.at = "forgetting" THEN {c.phone} \ c.again ELSE {}
    IN  /\ c.at \in {"idle", "forgetting"}
        /\ TokenCallGoes(r, NoCall, {})
        /\ SetPhones(phones, NoPhone, given \ gone, leftovers)

FaultAfterLogout == lastPhone
AfterLogout == NoPhone

\* logout, and a login: the row loses its token, then clearAllTokens.
ForgetPhones(r) ==
    /\ tokenCall[r].at = "idle"
    /\ TokenCallGoes(r, [NoCall EXCEPT !.at = "clearing"], {})
    /\ SetPhones(phones, AfterLogout, given, leftovers)

ClearPhones(r) ==
    LET kept == given \intersect tokenCall[r].again IN
    /\ tokenCall[r].at = "clearing"
    /\ TokenCallGoes(r, NoCall, {})
    /\ \/ SetPhones({}, lastPhone, kept, {})
       \/ SetPhones(phones, lastPhone, kept, leftovers \union (phones \ tokenCall[r].again))

\* A statement fails, the client goes away or the process stops.
TokenCallStops(r) ==
    /\ tokenCall[r].at # "idle"
    /\ TokenCallGoes(r, NoCall, {})
    /\ SetPhones(phones, lastPhone, given, leftovers)

\* What the user does with the rows; each write is one statement, which
\* fails when the row has been deleted since it was looked up.

SetRow(n, value) ==
    /\ notice' = [notice EXCEPT ![n].row = value]
    /\ UNCHANGED <<preferenceVars, present, phoneVars, push>>

UpdateNotification(n) ==
    notice[n].row \in {"read", "unread"} /\ \E value \in {"read", "unread"} : SetRow(n, value)

MarkAsRead(n) == notice[n].row \in {"read", "unread"} /\ SetRow(n, "read")

DeleteNotification(n) == notice[n].row \in {"read", "unread"} /\ SetRow(n, "deleted")

MarkAllAsRead ==
    /\ notice' = [n \in Notice |->
                     IF notice[n].row = "unread" THEN [notice[n] EXCEPT !.row = "read"]
                                                 ELSE notice[n]]
    /\ UNCHANGED <<preferenceVars, present, phoneVars, push>>

\* PUT /users/presence, and the key's ninety seconds running out.
Ping == present' = TRUE /\ UNCHANGED <<preferenceVars, notice, phoneVars, push>>
PresenceExpires == present' = FALSE /\ UNCHANGED <<preferenceVars, notice, phoneVars, push>>

PreferenceStep ==
    \E r \in PrefRequest :
        \/ GetNotificationPreference(r) \/ UpdateNotificationPreference(r)
        \/ CreatePreference(r) \/ FindAgain(r) \/ WritePreference(r)

PhoneStep ==
    \E r \in TokenRequest :
        \/ ReadMap(r) \/ GiveInMap(r) \/ TakeFromMap(r) \/ NameToken(r) \/ ForgetToken(r)
        \/ ForgetPhones(r) \/ ClearPhones(r) \/ TokenCallStops(r)

\* A notification's way to the devices, and who may switch it on.
PushStep ==
    \/ \E n \in Notice :
          NotifyNewMessage(n) \/ Persist(n) \/ GetTokens(n) \/ ChooseMode(n) \/ SendPush(n)
    \/ \E r \in PrefRequest : GetNotificationPreference(r) \/ CreatePreference(r)

RowStep ==
    \/ \E n \in Notice :
          \/ NotifyOutbid(n) \/ NotifyNewBidForSeller(n) \/ NotifyBidRejected(n)
          \/ NotifyAuctionEndedForParticipant(n) \/ NotifyAuctionExtendedForParticipant(n)
          \/ NotifyOrderShipped(n) \/ NotifyOrderDelivered(n) \/ NotifyOrderCancelled(n)
          \/ NotifyProductApproved(n) \/ NotifyProductRejected(n)
          \/ UpdateNotification(n) \/ MarkAsRead(n) \/ DeleteNotification(n)
    \/ MarkAllAsRead \/ Ping \/ PresenceExpires

InboxNext == PreferenceStep \/ PhoneStep \/ PushStep \/ RowStep

-----------------------------------------------------------------------------
(***************************************************************************)
(* Nothing but the user turns notifications back on: the default row that  *)
(* a request creates because it saw none never covers a switch-off that    *)
(* another request wrote in the meantime.                                  *)
(***************************************************************************)
OffStaysOff == switchedOff => preference = "off"

(***************************************************************************)
(* A push goes to no device whose token had been given up when the         *)
(* notification began, by giving it up or by a logout or login that had    *)
(* ended, however the requests about tokens fall between each other's      *)
(* reads and writes of the map and the row.  Excepted by name are the      *)
(* tokens left over in the map: those that a request wrote back because    *)
(* it had read the map before they were taken out, and those that Redis    *)
(* failed to take out.  (It may go to one that is given up while the       *)
(* notification is stored: the row's token has been read before.)          *)
(***************************************************************************)
PushFindsOwner == \A n \in Notice : push[n].to \subseteq push[n].had
=============================================================================
