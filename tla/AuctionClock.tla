---------------------------- MODULE AuctionClock ----------------------------
(***************************************************************************)
(* How one auction comes to its end: its end time, the delayed Bull job    *)
(* "finish-auction:<id>" that is to end it, and the sweep of expired       *)
(* auctions that runs every 30 seconds.                                    *)
(*                                                                         *)
(* Handlers write the auction row first and call the queue afterwards, so  *)
(* the job can lag behind the row or be lost: the queue calls are caught   *)
(* and logged, and a crash drops them.  Bids are one bit here (hasBids);   *)
(* BidBook has their table, and what ending an auction does to it.         *)
(*                                                                         *)
(* The queue is Bull on Redis, modelled by how the code uses it: a job id  *)
(* names at most one job, adding an id that exists does nothing, a job     *)
(* that a worker runs cannot be removed (remove() throws).                 *)
(***************************************************************************)
EXTENDS Integers

CONSTANTS
    MaxTime,    \* bound on the clock
    Duration,   \* durationHours: from the first bid to the end
    Extend,     \* extendMinutes: a bid this close to the end moves it
    MaxDelay,   \* the longest delay a job can have (2^31-1 ms)
    Attempts,   \* how often Bull tries a job
    AutoExtend, \* auction.autoExtend
    SetStatus,  \* the statuses sellers set with updateAuction in this instance
    Request,    \* handlers that can be in flight at once
    None

ASSUME AuctionClockAssumption ==
    /\ MaxTime \in Nat
    /\ Duration \in Nat \ {0} /\ Extend \in Nat \ {0}
    /\ MaxDelay \in Nat \ {0} /\ Attempts \in Nat \ {0}
    /\ AutoExtend \in BOOLEAN
    /\ SetStatus \subseteq {"PENDING", "ACTIVE", "ENDED", "CANCELLED"}
    /\ None \notin Nat \union {"PENDING", "ACTIVE", "ENDED", "CANCELLED"}

VARIABLES
    now,                                             \* the clock all hosts share
    status, deleted, endTime, hasBids,               \* the auction row
    job,                                             \* finish-auction:<id>
    sweep,                                           \* the job end-expired
    req                                              \* the requests in flight

auctionVars == <<status, deleted, endTime, hasBids>>
vars == <<now, auctionVars, job, sweep, req>>

AuctionStatus == {"PENDING", "ACTIVE", "ENDED", "CANCELLED"}
Open == {"PENDING", "ACTIVE"}
Time == 0..MaxTime

NoJob == [st |-> "none"]
Delayed(at, tries) == [st |-> "delayed", at |-> at, tries |-> tries]
\* A worker has the job: it is yet to read the auction, or about to end it.
Active(pc, tries) == [st |-> "active", pc |-> pc, tries |-> tries]

JobState ==
    {NoJob} \union [st : {"delayed"}, at : Time, tries : 0..Attempts - 1]
            \union [st : {"active"}, pc : {"read", "end"}, tries : 0..Attempts - 1]

Idle == [pc |-> "idle"]

RequestState ==
    UNION {[pc : {"idle", "bid", "end"}],
           [pc : {"bidTx"}, at : Time],
           [pc : {"update"}, status : AuctionStatus \union {None}, endTime : Time \union {None}],
           [pc : {"schedule", "reschedule"}, at : Time],
           [pc : {"cancel"}, next : {"idle", "end"}]}

At(r, pc) == req[r].pc = pc
Goto(r, state) == req' = [req EXCEPT ![r] = state]

\* createBid holds the auction row from SELECT ... FOR UPDATE to its commit.
AuctionLocked == \E r \in Request : At(r, "bidTx")

-----------------------------------------------------------------------------
Init ==
    /\ now = 0
    /\ status = "PENDING" /\ deleted = FALSE /\ endTime = 0
    /\ hasBids = FALSE
    /\ job = NoJob /\ sweep = "idle"
    /\ req = [r \in Request |-> Idle]

Tick ==
    /\ now < MaxTime
    /\ now' = now + 1
    /\ UNCHANGED <<auctionVars, job, sweep, req>>

(***************************************************************************)
(* The queue calls: AuctionSchedulingService                               *)
(***************************************************************************)

\* What is left in the queue after job.remove().
Removed == IF job.st = "delayed" THEN NoJob ELSE job

\* scheduleAuctionEnd: the delay is never negative and has a cap.
Schedule(r) ==
    LET desired == IF req[r].at > now THEN req[r].at ELSE now
        at == IF desired > now + MaxDelay THEN now + MaxDelay ELSE desired
    IN
    /\ At(r, "schedule")
    /\ job' = IF job = NoJob THEN Delayed(at, 0) ELSE job
    /\ Goto(r, Idle)
    /\ UNCHANGED <<now, auctionVars, sweep>>

\* rescheduleAuctionEnd: cancel, then schedule.
Reschedule(r) ==
    /\ At(r, "reschedule")
    /\ job' = Removed
    /\ Goto(r, [pc |-> "schedule", at |-> req[r].at])
    /\ UNCHANGED <<now, auctionVars, sweep>>

Cancel(r) ==
    /\ At(r, "cancel")
    /\ job' = Removed
    /\ Goto(r, [pc |-> req[r].next])
    /\ UNCHANGED <<now, auctionVars, sweep>>

\* A queue call that fails is logged and the handler goes on.
QueueCallFails(r) ==
    /\ \/ At(r, "schedule") /\ Goto(r, Idle)
       \/ At(r, "reschedule") /\ Goto(r, [pc |-> "schedule", at |-> req[r].at])
       \/ At(r, "cancel") /\ Goto(r, [pc |-> req[r].next])
    /\ UNCHANGED <<now, auctionVars, job, sweep>>

\* The process crashes, the database refuses, a check fails.
Abort(r) ==
    /\ req[r] # Idle
    /\ Goto(r, Idle)
    /\ UNCHANGED <<now, auctionVars, job, sweep>>

(***************************************************************************)
(* createBid                                                               *)
(***************************************************************************)
BidRead(r) ==
    /\ req[r] = Idle
    /\ ~deleted
    /\ Goto(r, [pc |-> "bid"])
    /\ UNCHANGED <<now, auctionVars, job, sweep>>

\* Bids come early enough for the bounded clock to reach their end.
BidLock(r) ==
    /\ At(r, "bid") /\ ~AuctionLocked
    /\ now + Duration <= MaxTime /\ now + Extend <= MaxTime
    /\ \/ status = "PENDING"
       \/ status = "ACTIVE" /\ endTime > now
    /\ Goto(r, [pc |-> "bidTx", at |-> now])
    /\ UNCHANGED <<now, auctionVars, job, sweep>>

\* The end of an active auction after a bid of time "at".
FaultExtendedEnd(at) ==
    IF AutoExtend /\ endTime - at >= Extend THEN at + Extend ELSE endTime
ExtendedEnd(at) ==
    IF AutoExtend /\ endTime - at <= Extend THEN at + Extend ELSE endTime

\* The first bid starts the auction.
FirstBidCommit(r) ==
    /\ At(r, "bidTx") /\ status = "PENDING"
    /\ status' = "ACTIVE"
    /\ endTime' = req[r].at + Duration
    /\ hasBids' = TRUE
    /\ Goto(r, [pc |-> "schedule", at |-> endTime'])
    /\ UNCHANGED <<now, deleted, job, sweep>>

LaterBidCommit(r) ==
    /\ At(r, "bidTx") /\ status = "ACTIVE"
    /\ endTime' = ExtendedEnd(req[r].at)
    /\ hasBids' = TRUE
    /\ Goto(r, IF endTime' = endTime THEN Idle ELSE [pc |-> "reschedule", at |-> endTime'])
    /\ UNCHANGED <<now, status, deleted, job, sweep>>

(***************************************************************************)
(* updateAuction and deleteAuction, closeAuction and chooseWinner          *)
(***************************************************************************)
UpdateRead(r, newStatus, newEnd) ==
    /\ req[r] = Idle
    /\ ~deleted
    /\ status \in Open \/ newStatus = "CANCELLED"
    /\ newEnd # None => newEnd > now
    /\ newStatus = "CANCELLED" => ~hasBids
    /\ Goto(r, [pc |-> "update", status |-> newStatus, endTime |-> newEnd])
    /\ UNCHANGED <<now, auctionVars, job, sweep>>

DeleteRead(r) ==
    /\ req[r] = Idle
    /\ ~deleted /\ ~hasBids
    /\ Goto(r, [pc |-> "update", status |-> "CANCELLED", endTime |-> None])
    /\ UNCHANGED <<now, auctionVars, job, sweep>>

UpdateWrite(r) ==
    LET new == req[r] IN
    /\ At(r, "update") /\ ~AuctionLocked
    /\ status' = IF new.status = None THEN status ELSE new.status
    /\ deleted' = (deleted \/ new.status = "CANCELLED")
    /\ endTime' = IF new.endTime = None THEN endTime ELSE new.endTime
    /\ Goto(r, IF new.status = "CANCELLED" THEN [pc |-> "cancel", next |-> "idle"]
               ELSE IF new.endTime # None THEN [pc |-> "reschedule", at |-> new.endTime]
               ELSE Idle)
    /\ UNCHANGED <<now, hasBids, job, sweep>>

\* Both cancel the job before they end the auction.
CloseRead(r) ==
    /\ req[r] = Idle
    /\ ~deleted /\ status \in Open
    /\ Goto(r, [pc |-> "cancel", next |-> "end"])
    /\ UNCHANGED <<now, auctionVars, job, sweep>>

ChooseWinnerRead(r) ==
    /\ req[r] = Idle
    /\ ~deleted /\ status \in {"ACTIVE", "ENDED"} /\ hasBids
    /\ Goto(r, IF status = "ACTIVE" THEN [pc |-> "cancel", next |-> "end"] ELSE [pc |-> "end"])
    /\ UNCHANGED <<now, auctionVars, job, sweep>>

EndWrite(r) ==
    /\ At(r, "end") /\ ~AuctionLocked
    /\ status' = "ENDED"
    /\ Goto(r, Idle)
    /\ UNCHANGED <<now, deleted, endTime, hasBids, job, sweep>>

-----------------------------------------------------------------------------
(***************************************************************************)
(* The worker of the job: processAuctionCompletionJob                      *)
(***************************************************************************)
Expired == status = "ACTIVE" /\ ~deleted /\ endTime <= now

FinishStart ==
    /\ job.st = "delayed" /\ job.at <= now
    /\ job' = Active("read", job.tries)
    /\ UNCHANGED <<now, auctionVars, sweep, req>>

\* Gone, not active, or not due yet: the job completes, which removes it.  The
\* rescheduling it asks for when it is not due does nothing: the job itself
\* still holds the id, and cannot be removed while it runs.
FinishIgnores ==
    /\ job.st = "active" /\ job.pc = "read" /\ ~Expired
    /\ job' = NoJob
    /\ UNCHANGED <<now, auctionVars, sweep, req>>

FinishRead ==
    /\ job.st = "active" /\ job.pc = "read" /\ Expired
    /\ job' = Active("end", job.tries)
    /\ UNCHANGED <<now, auctionVars, sweep, req>>

FinishEnd ==
    /\ job.st = "active" /\ job.pc = "end" /\ ~AuctionLocked
    /\ status' = "ENDED"
    /\ job' = NoJob
    /\ UNCHANGED <<now, deleted, endTime, hasBids, sweep, req>>

\* Bull tries a failed or stalled job again, and removes it in the end.
FaultAfterFailure(tries) == Delayed(now, tries)
FaultAttempts(tries) == IF tries < Attempts THEN Delayed(now, tries + 1) ELSE NoJob
AfterFailure(tries) == IF tries + 1 < Attempts THEN Delayed(now, tries + 1) ELSE NoJob

FinishFails ==
    /\ job.st = "active"
    /\ job' = AfterFailure(job.tries)
    /\ UNCHANGED <<now, auctionVars, sweep, req>>

(***************************************************************************)
(* The sweep: endExpiredAuctions                                           *)
(***************************************************************************)
FaultSwept == Expired /\ hasBids
Swept == Expired

SweepRead ==
    /\ sweep = "idle" /\ Swept
    /\ sweep' = "end"
    /\ UNCHANGED <<now, auctionVars, job, req>>

SweepEnd ==
    /\ sweep = "end" /\ ~AuctionLocked
    /\ status' = "ENDED"
    /\ sweep' = "cancel"
    /\ UNCHANGED <<now, deleted, endTime, hasBids, job, req>>

SweepCancel ==
    /\ sweep = "cancel"
    /\ job' = Removed
    /\ sweep' = "idle"
    /\ UNCHANGED <<now, auctionVars, req>>

SweepFails ==
    /\ sweep # "idle"
    /\ sweep' = "idle"
    /\ UNCHANGED <<now, auctionVars, job, req>>

-----------------------------------------------------------------------------
BidSteps(r) == BidRead(r) \/ BidLock(r) \/ FirstBidCommit(r) \/ LaterBidCommit(r)

SellerSteps(r) ==
    \/ \E s \in SetStatus \union {None}, e \in Time \union {None} : UpdateRead(r, s, e)
    \/ DeleteRead(r) \/ UpdateWrite(r)
    \/ CloseRead(r) \/ ChooseWinnerRead(r) \/ EndWrite(r)

QueueSteps(r) == Schedule(r) \/ Reschedule(r) \/ Cancel(r) \/ QueueCallFails(r)

Finish == FinishStart \/ FinishIgnores \/ FinishRead \/ FinishEnd \/ FinishFails
Sweep == SweepRead \/ SweepEnd \/ SweepCancel \/ SweepFails

Next ==
    \/ Tick
    \/ \E r \in Request : BidSteps(r) \/ SellerSteps(r) \/ QueueSteps(r) \/ Abort(r)
    \/ Finish
    \/ Sweep

Spec == Init /\ [][Next]_vars

(***************************************************************************)
(* Fairness.  Time passes.  A transaction commits or is aborted.  Bull     *)
(* keeps taking due jobs and the repeatable sweep.  An UPDATE that waits   *)
(* for the row gets it in the end (PostgreSQL queues waiters), and does    *)
(* not fail every time.  Clients owe nothing.                              *)
(***************************************************************************)
Fairness ==
    /\ WF_vars(Tick)
    /\ \A r \in Request : WF_vars(At(r, "bidTx") /\ Abort(r))
    /\ WF_vars(FinishStart) /\ WF_vars(FinishIgnores \/ FinishRead) /\ SF_vars(FinishEnd)
    /\ WF_vars(SweepRead) /\ SF_vars(SweepEnd) /\ WF_vars(SweepCancel)

FairSpec == Spec /\ Fairness

-----------------------------------------------------------------------------
TypeOK ==
    /\ now \in Time
    /\ status \in AuctionStatus /\ deleted \in BOOLEAN /\ endTime \in Time
    /\ hasBids \in BOOLEAN
    /\ job \in JobState /\ sweep \in {"idle", "end", "cancel"}
    /\ req \in [Request -> RequestState]

\* A bid on an active auction never brings its end closer, and with autoExtend
\* everyone has extendMinutes left to answer it, counted from the time createBid
\* read under the row lock.
LateBidExtends ==
    [][\A r \in Request : LaterBidCommit(r) =>
          /\ endTime' >= endTime
          /\ AutoExtend => endTime' - req[r].at >= Extend]_vars

\* An expired auction is ended, or its seller moves its end, whatever happened
\* to the job: lost in a crash, refused because its id was taken, capped, or
\* fired early.  The sweep sees to it.
ExpiredEnds == [](Expired => <>~Expired)

\* A closed auction's job does not stay in the queue for good, though cancelling
\* it may fail and it may have been added after the auction closed.
ClosedAuctionLosesJob == [](status \notin Open => <>(job = NoJob \/ status \in Open))

\* The job and the sweep end an auction only once its time is up.  The job
\* says of an auction that is not due: "Auction ... completion job fired early.
\* Rescheduling to ...".
TimerEndsOnlyExpired ==
    [][FinishEnd \/ SweepEnd => (status = "ACTIVE" => endTime <= now)]_vars
=============================================================================
