------------------------------- MODULE Channels -------------------------------
(***************************************************************************)
(* The calls the server makes to services outside it, behind the retry     *)
(* loop and the circuit breaker of common/utils/retry.util.ts: uploads of  *)
(* files to the object storage with the row the upload leaves in the       *)
(* database, and codes sent through the SMS provider with its cached       *)
(* token.  Each service has a breaker of its own and they share nothing,   *)
(* so a behaviour is about one service, with several requests at once.     *)
(*                                                                         *)
(* Time is the age of the last failure, in ticks up to the timeout.        *)
(***************************************************************************)
EXTENDS Naturals

CONSTANTS
    Call,           \* requests that use the service
    Threshold,      \* failed calls that open the breaker (5 in the code)
    Timeout,        \* ticks an open breaker waits (60 s in the code)
    MaxAttempts,    \* tries of one call (3 in the code)
    NoToken

ASSUME ChannelsAssumption ==
    Threshold \in Nat \ {0} /\ Timeout \in Nat /\ MaxAttempts \in Nat \ {0}

VARIABLES
    service,        \* the service this behaviour is about
    breaker,        \* its circuit breaker
    call,           \* where each request stands
    objects,        \* requests whose object is in the storage
    rows,           \* requests whose file row is in the database
    lost,           \* (history) those whose insert took place though its answer was an
                    \* error or never came
    smsToken        \* the cached token of the SMS provider

fileVars == <<objects, rows, lost>>
channelVars == <<service, breaker, call, fileVars, smsToken>>

Token == {"valid", "rejected"}

Refused == {"not stored", "not saved", "not sent"}
Answered == {"idle", "saved", "sent", "interrupted"} \union Refused
Working == {"uploading", "saving", "cleaning", "starting", "logging in", "sending"}

ChannelsTypeOK ==
    /\ service \in {"storage", "sms"}
    /\ breaker \in [state : {"closed", "open", "half-open"},
                    failures : 0..Threshold, age : 0..(Timeout + 1)]
    /\ call \in [Call -> [at : Answered \union Working, attempt : 1..MaxAttempts,
                          held : Token \union {NoToken}]]
    /\ objects \subseteq Call /\ rows \subseteq Call /\ lost \subseteq Call
    /\ smsToken \in Token \union {NoToken}

FreshBreaker == [state |-> "closed", failures |-> 0, age |-> Timeout + 1]

ChannelsInit ==
    /\ service \in {"storage", "sms"}
    /\ breaker = FreshBreaker
    /\ call = [c \in Call |-> [at |-> "idle", attempt |-> 1, held |-> NoToken]]
    /\ objects = {} /\ rows = {} /\ lost = {}
    /\ smsToken = NoToken

-----------------------------------------------------------------------------
\* CircuitBreaker.execute, onSuccess and onFailure.

Admits == breaker.state # "open" \/ breaker.age > Timeout

Entered == IF breaker.state = "open" THEN [breaker EXCEPT !.state = "half-open"] ELSE breaker

Capped(n) == IF n < Threshold THEN n ELSE Threshold

\* A call that ends well while the breaker is open leaves it open.
Succeeded ==
    [breaker EXCEPT !.failures = 0, !.state = IF @ = "half-open" THEN "closed" ELSE @]

\* The counter is compared with the threshold only, and is capped there.
Failed ==
    LET failures == Capped(breaker.failures + 1)
    IN  [state |-> IF failures >= Threshold THEN "open" ELSE breaker.state,
         failures |-> failures, age |-> 0]

Tick ==
    /\ breaker.age <= Timeout
    /\ breaker' = [breaker EXCEPT !.age = @ + 1]
    /\ UNCHANGED <<service, call, fileVars, smsToken>>

-----------------------------------------------------------------------------
CallGoes(c, place) == call' = [call EXCEPT ![c] = [at |-> place, attempt |-> 1, held |-> NoToken]]

LastAttempt(c) == call[c].attempt = MaxAttempts

\* retry: another attempt after the delay, at `again`, or the error is thrown
\* through the breaker and the request goes on at `after`.
AttemptFails(c, again, after) ==
    IF LastAttempt(c)
    THEN breaker' = Failed /\ CallGoes(c, after)
    ELSE /\ call' = [call EXCEPT ![c] = [at |-> again, attempt |-> @.attempt + 1,
                                         held |-> NoToken]]
         /\ UNCHANGED breaker

AttemptSucceeds(c, after) == breaker' = Succeeded /\ CallGoes(c, after)

-----------------------------------------------------------------------------
\* FileService.uploadFile over StorageService.  A request is used again for
\* another upload, with another key.

StartUpload(c) ==
    /\ service = "storage" /\ call[c].at \in Answered /\ Admits
    /\ breaker' = Entered
    /\ CallGoes(c, "uploading")
    /\ objects' = objects \ {c} /\ rows' = rows \ {c} /\ lost' = lost \ {c}
    /\ UNCHANGED <<service, smsToken>>

FaultAfterUploadError == "saving"

\* Where uploadFile goes when the storage gave an error: it answers 400.
AfterUploadError == "not stored"

\* An attempt that failed may have stored the object: only the answer is lost.
UploadFile(c) ==
    /\ call[c].at = "uploading"
    /\ \/ objects' = objects \union {c} /\ AttemptSucceeds(c, "saving")
       \/ /\ objects' \in {objects, objects \union {c}}
          /\ AttemptFails(c, "uploading", AfterUploadError)
    /\ UNCHANGED <<service, rows, lost, smsToken>>

\* The row of the file.  An error is taken for "no row", also when only the answer of
\* an insert that took place is lost, and the object is deleted again, unless the
\* breaker refuses the call.
SaveRow(c) ==
    /\ call[c].at = "saving"
    /\ \/ rows' = rows \union {c} /\ CallGoes(c, "saved") /\ UNCHANGED <<lost, breaker>>
       \/ /\ \/ UNCHANGED <<rows, lost>>
             \/ rows' = rows \union {c} /\ lost' = lost \union {c}
          /\ \/ Admits /\ breaker' = Entered /\ CallGoes(c, "cleaning")
             \/ ~Admits /\ UNCHANGED breaker /\ CallGoes(c, "not saved")
    /\ UNCHANGED <<service, objects, smsToken>>

DeleteFile(c) ==
    /\ call[c].at = "cleaning"
    /\ \/ objects' = objects \ {c} /\ AttemptSucceeds(c, "not saved")
       \/ /\ objects' \in {objects, objects \ {c}}
          /\ AttemptFails(c, "cleaning", "not saved")
    /\ UNCHANGED <<service, rows, lost, smsToken>>

-----------------------------------------------------------------------------
\* SmsService.sendMessage.  A call answered `false` ended well for retry and
\* for the breaker.

StartSend(c) ==
    /\ service = "sms" /\ call[c].at \in Answered /\ Admits
    /\ breaker' = Entered
    /\ CallGoes(c, "starting")
    /\ UNCHANGED <<service, fileVars, smsToken>>

Holding(c, t) == call' = [call EXCEPT ![c].at = "sending", ![c].held = t]

\* getValidToken at the head of an attempt: the cached token, or a login.
GetValidToken(c) ==
    /\ call[c].at = "starting"
    /\ IF smsToken # NoToken THEN Holding(c, smsToken)
                          ELSE call' = [call EXCEPT ![c].at = "logging in"]
    /\ UNCHANGED <<service, breaker, fileVars, smsToken>>

LogInToProvider(c) ==
    /\ call[c].at = "logging in"
    /\ \/ smsToken' = "valid" /\ Holding(c, "valid") /\ UNCHANGED breaker
       \/ AttemptSucceeds(c, "not sent") /\ UNCHANGED smsToken
    /\ UNCHANGED <<service, fileVars>>

\* Only the error of the last attempt is looked at: a 401 empties the cache,
\* whatever token is in it by then.
SendMessage(c) ==
    /\ call[c].at = "sending"
    /\ \/ /\ call[c].held = "valid"
          /\ AttemptSucceeds(c, "sent") \/ AttemptSucceeds(c, "not sent")
          /\ UNCHANGED smsToken
       \/ AttemptFails(c, "starting", "not sent") /\ UNCHANGED smsToken
       \/ /\ call[c].held = "rejected"
          /\ AttemptFails(c, "starting", "not sent")
          /\ smsToken' = IF LastAttempt(c) THEN NoToken ELSE smsToken
    /\ UNCHANGED <<service, fileVars>>

\* The provider stops taking the tokens it gave out.
TokensRejected ==
    /\ service = "sms" /\ \E c \in Call : call[c].held = "valid" \/ smsToken = "valid"
    /\ smsToken' = IF smsToken = "valid" THEN "rejected" ELSE smsToken
    /\ call' = [c \in Call |->
                    [call[c] EXCEPT !.held = IF @ = "valid" THEN "rejected" ELSE @]]
    /\ UNCHANGED <<service, breaker, fileVars>>

\* The cached token reaches the end of its thirty days.
TokenExpires ==
    /\ smsToken # NoToken /\ smsToken' = NoToken
    /\ UNCHANGED <<service, breaker, call, fileVars>>

\* The process stops and starts again: requests, breaker and cache are gone.  What it
\* had just asked of the storage and the database may still take place.
Asked(place) == SUBSET {c \in Call : call[c].at = place}

ServerRestarts ==
    /\ call' = [c \in Call |->
                    IF call[c].at \in Working
                    THEN [at |-> "interrupted", attempt |-> 1, held |-> NoToken] ELSE call[c]]
    /\ breaker' = FreshBreaker /\ smsToken' = NoToken
    /\ \E stored \in Asked("uploading"), deleted \in Asked("cleaning") :
          objects' = (objects \union stored) \ deleted
    /\ \E inserted \in Asked("saving") :
          rows' = rows \union inserted /\ lost' = lost \union inserted
    /\ UNCHANGED service

ChannelsNext ==
    \/ Tick \/ TokensRejected \/ TokenExpires \/ ServerRestarts
    \/ \E c \in Call :
          \/ StartUpload(c) \/ UploadFile(c) \/ SaveRow(c) \/ DeleteFile(c)
          \/ StartSend(c) \/ GetValidToken(c) \/ LogInToProvider(c) \/ SendMessage(c)

-----------------------------------------------------------------------------
(***************************************************************************)
(* What a client was told about its file is so: a file row has its object, *)
(* an upload that was answered with a file has both, and one that was      *)
(* refused has no row, through lost answers of the storage, refused and    *)
(* failing clean-ups and restarts of the server.  Excepted by name are the *)
(* rows whose insert took place though its answer was an error: the code   *)
(* takes the object away and leaves the row.                               *)
(***************************************************************************)
FilesKept ==
    /\ rows \ objects \subseteq lost
    /\ \A c \in Call :
          /\ call[c].at = "saved" => c \in rows \intersect objects
          /\ call[c].at \in Refused => c \notin rows \ lost
=============================================================================
