------------------------------- MODULE Sessions --------------------------------
(***************************************************************************)
(* One phone number's account: the codes that open a session, the token    *)
(* version that ends one, and the push tokens of its devices               *)
(* (auth.service.ts, otp.service.ts, device-tokens.service.ts and the      *)
(* account handlers of user.service.ts).                                   *)
(*                                                                         *)
(* A session is the version its tokens carry: it is accepted as long as    *)
(* that is the account's refreshTokenVersion.  Every login with a code and *)
(* every logout raises the version, so that there is one session at a      *)
(* time.  The account's row is in the database, the device tokens are in   *)
(* Redis, and nothing makes the two change together.  A handler runs one   *)
(* statement at a time, and those of other requests run in between.        *)
(***************************************************************************)
EXTENDS Integers, FiniteSets

CONSTANTS
    Device,      \* each has one push token, registered under its deviceId
    Request,     \* handlers that can be between two statements at once
    Code,        \* the codes that can be valid at once
    MaxVersion,  \* bound on refreshTokenVersion
    None

ASSUME SessionsAssumption ==
    /\ MaxVersion \in Nat
    /\ None \notin Device

VARIABLES
    \* the account's row: "none" before the first login
    account, version, fcmToken,
    \* verification codes that are neither used nor expired
    validCodes,
    \* the newest version a device's tokens carry (-1: it has none)
    token,
    \* the Redis map of device tokens
    deviceTokens,
    \* requests between two statements
    req,
    \* history: devices whose session was opened from Telegram; push tokens left in
    \* place when
    \* clearing failed, or written by a handler that an ended session started
    byTelegram, leftBehind

accountVars == <<account, version, fcmToken>>
tokenVars == <<token, byTelegram>>
deviceVars == <<deviceTokens, leftBehind>>
sessionVars == <<accountVars, validCodes, tokenVars, deviceVars, req>>

Current(d) == token[d] = version
\* What JwtStrategy asks of a token.
Accepted(d) == Current(d) /\ account = "active"

-----------------------------------------------------------------------------
Idle == [pc |-> "idle"]
RequestState ==
    UNION {{Idle}, [pc : {"useCode"}, device : Device, code : Code],
           [pc : {"logIn"}, device : Device],
           [pc : {"clear"}, device : Device \union {None}, version : 0..MaxVersion],
           [pc : {"issue", "reissue"}, device : Device, version : 0..MaxVersion],
           [pc : {"setMap"}, device : Device, on : BOOLEAN, map : SUBSET Device],
           [pc : {"setFcm"}, device : Device, on : BOOLEAN]}

At(r, pc) == req[r].pc = pc
Goto(r, state) == req' = [req EXCEPT ![r] = state]
ClearPending == \E r \in Request : At(r, "clear")
\* leftBehind', the set of those of devices that a user's row or map still holds.
LeftBehind(devices) ==
    leftBehind' = (leftBehind \union devices) \intersect (deviceTokens' \union {fcmToken'})
Ended(devices) == {d \in devices : ~Current(d)}

SessionsInit ==
    /\ account = "none" /\ version = 0 /\ fcmToken = None
    /\ validCodes = {}
    /\ token = [d \in Device |-> -1] /\ byTelegram = {}
    /\ deviceTokens = {} /\ leftBehind = {}
    /\ req = [r \in Request |-> Idle]

(***************************************************************************)
(* Codes                                                                   *)
(***************************************************************************)
\* sendOtp.  Its limit on how often is a matter of time and is left out.
SendOtp ==
    \E c \in Code \ validCodes :
        /\ account # "deleted"
        /\ validCodes' = validCodes \union {c}
        /\ UNCHANGED <<accountVars, tokenVars, deviceVars, req>>

\* A code expires; the hourly job then deletes it, which nothing can tell.
CodeExpires ==
    \E c \in validCodes :
        /\ validCodes' = validCodes \ {c}
        /\ UNCHANGED <<accountVars, tokenVars, deviceVars, req>>

\* verifyOtp of the otp service: finds the code, and marks it by id as used.
\* The job may delete it in between, which fails the request.
FindValid(r, d, c) ==
    /\ req[r] = Idle
    /\ c \in validCodes
    /\ Goto(r, [pc |-> "useCode", device |-> d, code |-> c])
    /\ UNCHANGED <<accountVars, validCodes, tokenVars, deviceVars>>

MarkAsUsed(r) ==
    /\ At(r, "useCode")
    /\ validCodes' = validCodes \ {req[r].code}
    /\ Goto(r, [pc |-> "logIn", device |-> req[r].device])
    /\ UNCHANGED <<accountVars, tokenVars, deviceVars>>

(***************************************************************************)
(* Logging in and out                                                      *)
(***************************************************************************)
FcmTokenAfter == None

\* The statement that ends whatever session there was.
EndSession(status) ==
    /\ version < MaxVersion
    /\ account' = status
    /\ version' = version + 1
    /\ fcmToken' = FcmTokenAfter
    /\ byTelegram' = {}

\* verifyOtp creates the account or brings it back.  A deleted account gave up
\* its number: the login goes on with another account.
FaultAfterLogIn(d) == [pc |-> "issue", device |-> d, version |-> version']
AfterLogIn(d) == [pc |-> "clear", device |-> d, version |-> version']

LogIn(r) ==
    LET d == req[r].device IN
    /\ At(r, "logIn")
    /\ account # "deleted"
    /\ IF account = "none"
       THEN /\ account' = "active"
            /\ UNCHANGED <<version, fcmToken, byTelegram>>
            /\ Goto(r, [pc |-> "issue", device |-> d, version |-> version])
       ELSE EndSession("active") /\ Goto(r, AfterLogIn(d))
    /\ UNCHANGED <<validCodes, token, deviceVars>>

LogOut(r, d) ==
    /\ req[r] = Idle
    /\ Accepted(d)
    /\ EndSession(account)
    /\ Goto(r, [pc |-> "clear", device |-> None, version |-> version'])
    /\ UNCHANGED <<validCodes, token, deviceVars>>

\* clearAllTokens; Redis may be unavailable, which is only logged.
ClearAllTokens(r) ==
    /\ At(r, "clear")
    /\ deviceTokens' \in {{}, deviceTokens}
    /\ Goto(r, IF req[r].device = None THEN Idle
               ELSE [pc |-> "issue", device |-> req[r].device, version |-> req[r].version])
    /\ UNCHANGED <<accountVars, validCodes, tokenVars>>
    /\ LeftBehind(Ended(deviceTokens))

\* refreshToken looks the account up, and signs tokens for what it has read.
RefreshToken(r, d) ==
    /\ req[r] = Idle
    /\ Accepted(d)
    /\ Goto(r, [pc |-> "reissue", device |-> d, version |-> version])
    /\ UNCHANGED <<accountVars, validCodes, tokenVars, deviceVars>>

\* generateTokens signs the version the account had when the login wrote it, or
\* the refresh read it.
FaultSigned(v) == version
FaultSignedAhead(v) == v + 1
Signed(v) == v

GenerateTokens(r) ==
    LET d == req[r].device
        v == Signed(req[r].version) IN
    /\ At(r, "issue") \/ At(r, "reissue")
    /\ IF v < token[d] THEN UNCHANGED tokenVars
       ELSE /\ token' = [token EXCEPT ![d] = v]
            /\ byTelegram' = IF At(r, "issue") THEN byTelegram \ {d} ELSE byTelegram
    /\ Goto(r, Idle)
    /\ UNCHANGED <<accountVars, validCodes, deviceVars>>

\* linkTelegramContact signs a token for the session there is and ends none.
LinkTelegramContact(d) ==
    /\ account' = IF account = "none" THEN "active" ELSE account
    /\ token' = [token EXCEPT ![d] = version]
    /\ byTelegram' = IF Current(d) THEN byTelegram ELSE byTelegram \union {d}
    /\ UNCHANGED <<version, fcmToken, validCodes, deviceVars, req>>

\* An administrator's updateUser.
UpdateUser ==
    /\ account \in {"active", "inactive"}
    /\ account' \in {"active", "inactive"} \ {account}
    /\ UNCHANGED <<version, fcmToken, validCodes, tokenVars, deviceVars, req>>

\* deleteUser gives up the number, so that its codes are another account's; the
\* tokens in Redis stay.
DeleteUser ==
    /\ account \in {"active", "inactive"}
    /\ account' = "deleted" /\ fcmToken' = None /\ validCodes' = {}
    /\ UNCHANGED <<version, tokenVars, deviceTokens, req>>
    /\ LeftBehind({})

(***************************************************************************)
(* Push tokens                                                             *)
(***************************************************************************)
\* updateFcmToken: setToken reads the map, or nothing when Redis fails, and
\* writes it back whole; then the user's single token is written.
UpdateFcmToken(r, d, on, withDevice) ==
    /\ req[r] = Idle
    /\ Accepted(d)
    /\ IF withDevice
       THEN \E map \in {deviceTokens, {}} :
                Goto(r, [pc |-> "setMap", device |-> d, on |-> on, map |-> map])
       ELSE Goto(r, [pc |-> "setFcm", device |-> d, on |-> on])
    /\ UNCHANGED <<accountVars, validCodes, tokenVars, deviceVars>>

SetMap(r) ==
    LET q == req[r] IN
    /\ At(r, "setMap")
    /\ deviceTokens' \in {IF q.on THEN q.map \union {q.device} ELSE q.map \ {q.device},
                          deviceTokens}
    /\ Goto(r, [pc |-> "setFcm", device |-> q.device, on |-> q.on])
    /\ UNCHANGED <<accountVars, validCodes, tokenVars>>
    /\ LeftBehind(IF ClearPending THEN {} ELSE Ended(deviceTokens'))

SetFcmToken(r) ==
    LET q == req[r] IN
    /\ At(r, "setFcm")
    /\ fcmToken' = IF q.on THEN q.device ELSE None
    /\ Goto(r, Idle)
    /\ UNCHANGED <<account, version, validCodes, tokenVars, deviceTokens>>
    /\ LeftBehind(Ended({q.device}))

-----------------------------------------------------------------------------
\* A request fails or its process crashes between two statements.
Abort(r) ==
    /\ req[r] # Idle
    /\ leftBehind' = IF At(r, "clear") THEN leftBehind \union Ended(deviceTokens)
                                       ELSE leftBehind
    /\ Goto(r, Idle)
    /\ UNCHANGED <<accountVars, validCodes, tokenVars, deviceTokens>>

SessionHandler(r) ==
    \/ \E d \in Device, c \in Code : FindValid(r, d, c)
    \/ MarkAsUsed(r) \/ LogIn(r) \/ ClearAllTokens(r) \/ GenerateTokens(r)
    \/ \E d \in Device : LogOut(r, d) \/ RefreshToken(r, d)
    \/ \E d \in Device, on, withDevice \in BOOLEAN : UpdateFcmToken(r, d, on, withDevice)
    \/ SetMap(r) \/ SetFcmToken(r)
    \/ Abort(r)

SessionsNext ==
    \/ \E r \in Request : SessionHandler(r)
    \/ SendOtp \/ CodeExpires
    \/ \E d \in Device : LinkTelegramContact(d)
    \/ UpdateUser \/ DeleteUser

-----------------------------------------------------------------------------
SessionsTypeOK ==
    /\ account \in {"none", "active", "inactive", "deleted"}
    /\ version \in 0..MaxVersion
    /\ fcmToken \in Device \union {None}
    /\ validCodes \subseteq Code
    \* no token is ahead of the account
    /\ token \in [Device -> -1..version]
    /\ byTelegram \subseteq Device
    /\ deviceTokens \subseteq Device /\ leftBehind \subseteq Device
    /\ req \in [Request -> RequestState]

\* Of the devices that logged in with a code, at most one holds the session: each
\* login ends the one before, even when two are under way at once and whichever
\* of them is answered last, and no refresh that began before it brings it back.
OneSession == Cardinality({d \in Device \ byTelegram : Current(d)}) <= 1

\* Push tokens go with the session they were registered under: the single one at
\* once, those in Redis as soon as the login or logout that ended it has cleared
\* them.  Left behind are those it could not clear, and those that a registration
\* begun under the old session wrote after that.
TokensEndWithSession ==
    /\ fcmToken # None => Current(fcmToken) \/ fcmToken \in leftBehind
    /\ ~ClearPending => Ended(deviceTokens) \subseteq leftBehind
=============================================================================
