------------------------- MODULE AuctionClockProofs -------------------------
(***************************************************************************)
(* Proofs about AuctionClock, for any number of requests in flight, any    *)
(* durations and any bound on the clock.                                   *)
(*                                                                         *)
(* That a late bid extends the auction is not inductive: the bid computes  *)
(* the new end from the end it finds when it commits, so that end must     *)
(* still lie ahead of the time the bid took for its own.  It does, because *)
(* nobody else writes the row while a bid holds it.                        *)
(***************************************************************************)
EXTENDS AuctionClock, TLAPS

\* At most one transaction holds the auction row.
OneLockHolder ==
    \A r, s \in Request : At(r, "bidTx") /\ At(s, "bidTx") => r = s

\* While it does, the auction is open and not over at the time of the bid.
HolderInTime ==
    \A r \in Request : At(r, "bidTx") =>
        /\ status \in Open
        /\ status = "ACTIVE" => endTime > req[r].at
        /\ req[r].at + Duration <= MaxTime /\ req[r].at + Extend <= MaxTime

IInv == TypeOK /\ OneLockHolder /\ HolderInTime

-----------------------------------------------------------------------------
LEMMA StateAt ==
    ASSUME NEW s \in RequestState
    PROVE  /\ s.pc = "bidTx" => s.at \in Time
           /\ s.pc \in {"schedule", "reschedule"} => s.at \in Time
           /\ s.pc = "cancel" => s.next \in {"idle", "end"}
           /\ s.pc = "update" => /\ s.status \in AuctionStatus \union {None}
                                 /\ s.endTime \in Time \union {None}
  BY DEF RequestState

LEMMA IdleStates ==
    /\ Idle \in RequestState /\ Idle.pc # "bidTx"
    /\ \A pc \in {"idle", "bid", "end"} : [pc |-> pc] \in RequestState
  BY DEF Idle, RequestState

LEMMA JobStates ==
    ASSUME TypeOK
    PROVE  /\ NoJob \in JobState /\ Removed \in JobState
           /\ \A at \in Time, tries \in 0..Attempts - 1 : Delayed(at, tries) \in JobState
           /\ \A pc \in {"read", "end"}, tries \in 0..Attempts - 1 :
                 Active(pc, tries) \in JobState
           /\ job.st \in {"delayed", "active"} => job.tries \in 0..Attempts - 1
  BY DEF TypeOK, JobState, NoJob, Removed, Delayed, Active

\* A step of a request that does not come to hold the row, and writes the row
\* only if nobody else holds it.
LEMMA RequestPreserves ==
    ASSUME IInv, NEW r \in Request, NEW state \in RequestState, state.pc # "bidTx",
           Goto(r, state), now' = now,
           UNCHANGED <<status, endTime>> \/ ~AuctionLocked \/ At(r, "bidTx"),
           status' \in AuctionStatus, deleted' \in BOOLEAN, endTime' \in Time,
           hasBids' \in BOOLEAN, job' \in JobState, sweep' \in {"idle", "end", "cancel"}
    PROVE  IInv'
<1>1. req \in [Request -> RequestState]
  BY DEF IInv, TypeOK
<1>2. req' \in [Request -> RequestState]
  BY <1>1 DEF Goto
<1>3. \A s \in Request : req'[s].pc = "bidTx" => s # r /\ req'[s] = req[s]
  BY <1>1 DEF Goto
<1>4. TypeOK'
  BY <1>2 DEF IInv, TypeOK
<1>5. OneLockHolder'
  BY <1>3 DEF IInv, OneLockHolder, At
<1>6. HolderInTime'
  <2> SUFFICES ASSUME NEW s \in Request, req'[s].pc = "bidTx"
               PROVE  /\ status' \in Open
                      /\ status' = "ACTIVE" => endTime' > req'[s].at
                      /\ req'[s].at + Duration <= MaxTime /\ req'[s].at + Extend <= MaxTime
    BY DEF HolderInTime, At
  <2>1. s # r /\ req'[s] = req[s] /\ At(s, "bidTx")
    BY <1>3 DEF At
  <2>2. UNCHANGED <<status, endTime>>
    BY <2>1 DEF IInv, OneLockHolder, AuctionLocked
  <2> QED
    BY <2>1, <2>2 DEF IInv, HolderInTime
<1> QED
  BY <1>4, <1>5, <1>6 DEF IInv

\* A step of the clock, the job or the sweep.
LEMMA WorkerPreserves ==
    ASSUME IInv, req' = req, now' \in Time,
           UNCHANGED <<status, endTime>> \/ ~AuctionLocked,
           status' \in AuctionStatus, deleted' \in BOOLEAN, endTime' \in Time,
           hasBids' \in BOOLEAN, job' \in JobState, sweep' \in {"idle", "end", "cancel"}
    PROVE  IInv'
  BY DEF IInv, TypeOK, OneLockHolder, HolderInTime, AuctionLocked, At

-----------------------------------------------------------------------------
LEMMA BidStepsPreserve ==
    ASSUME IInv, NEW r \in Request, BidSteps(r)
    PROVE  IInv'
<1> USE DEF auctionVars
<1>1. CASE BidRead(r)
  <2>1. [pc |-> "bid"] \in RequestState
    BY IdleStates
  <2> QED
    BY <1>1, <2>1, RequestPreserves DEF BidRead, IInv, TypeOK
<1>2. CASE BidLock(r)
  <2> DEFINE state == [pc |-> "bidTx", at |-> now]
  <2>1. req \in [Request -> RequestState] /\ now \in Time
    BY DEF IInv, TypeOK
  <2>2. state \in RequestState
    BY <2>1 DEF RequestState
  <2>3. req' \in [Request -> RequestState] /\ req'[r] = state
    BY <1>2, <2>1, <2>2 DEF BidLock, Goto
  <2>4. \A s \in Request \ {r} : req'[s] = req[s] /\ req[s].pc # "bidTx"
    BY <1>2, <2>1 DEF BidLock, Goto, AuctionLocked, At
  <2>5. TypeOK'
    BY <1>2, <2>3 DEF BidLock, IInv, TypeOK
  <2>6. OneLockHolder'
    BY <2>4 DEF OneLockHolder, At
  <2>7. HolderInTime'
    BY <1>2, <2>3, <2>4 DEF BidLock, HolderInTime, At, Open
  <2> QED
    BY <2>5, <2>6, <2>7 DEF IInv
<1>3. CASE FirstBidCommit(r)
  <2>1. req[r].at \in Time /\ req[r].at + Duration <= MaxTime
    BY <1>3, StateAt DEF FirstBidCommit, At, IInv, TypeOK, HolderInTime
  <2>2. endTime' \in Time
    BY <1>3, <2>1, AuctionClockAssumption DEF FirstBidCommit, Time
  <2>3. [pc |-> "schedule", at |-> endTime'] \in RequestState
    BY <2>2 DEF RequestState
  <2> QED
    BY <1>3, <2>2, <2>3, RequestPreserves DEF FirstBidCommit, AuctionStatus, IInv, TypeOK
<1>4. CASE LaterBidCommit(r)
  <2> DEFINE state == IF endTime' = endTime THEN Idle ELSE [pc |-> "reschedule", at |-> endTime']
  <2>1. req[r].at \in Time /\ req[r].at + Extend <= MaxTime
    BY <1>4, StateAt DEF LaterBidCommit, At, IInv, TypeOK, HolderInTime
  <2>2. endTime' \in Time
    BY <1>4, <2>1, AuctionClockAssumption DEF LaterBidCommit, ExtendedEnd, Time, IInv, TypeOK
  <2>3. state \in RequestState /\ state.pc # "bidTx"
    BY <2>2, IdleStates DEF RequestState
  <2> HIDE DEF state
  <2>4. Goto(r, state)
    BY <1>4 DEF LaterBidCommit, state
  <2> QED
    BY <1>4, <2>2, <2>3, <2>4, RequestPreserves DEF LaterBidCommit, IInv, TypeOK
<1> QED
  BY <1>1, <1>2, <1>3, <1>4 DEF BidSteps

LEMMA SellerStepsPreserve ==
    ASSUME IInv, NEW r \in Request, SellerSteps(r)
    PROVE  IInv'
<1> USE DEF auctionVars
<1>1. ASSUME NEW s \in SetStatus \union {None}, NEW e \in Time \union {None}, UpdateRead(r, s, e)
      PROVE  IInv'
  <2>1. [pc |-> "update", status |-> s, endTime |-> e] \in RequestState
    BY AuctionClockAssumption DEF RequestState, AuctionStatus
  <2> QED
    BY <1>1, <2>1, RequestPreserves DEF UpdateRead, IInv, TypeOK
<1>2. CASE DeleteRead(r)
  <2>1. [pc |-> "update", status |-> "CANCELLED", endTime |-> None] \in RequestState
    BY DEF RequestState, AuctionStatus
  <2> QED
    BY <1>2, <2>1, RequestPreserves DEF DeleteRead, IInv, TypeOK
<1>3. CASE UpdateWrite(r)
  <2>1. /\ req[r].status \in AuctionStatus \union {None}
        /\ req[r].endTime \in Time \union {None}
    BY <1>3, StateAt DEF UpdateWrite, At, IInv, TypeOK
  <2>2. status' \in AuctionStatus /\ endTime' \in Time /\ deleted' \in BOOLEAN
    BY <1>3, <2>1 DEF UpdateWrite, IInv, TypeOK
  <2>3. PICK state \in RequestState : state.pc # "bidTx" /\ Goto(r, state)
    <3>1. [pc |-> "cancel", next |-> "idle"] \in RequestState
      BY DEF RequestState
    <3>2. req[r].endTime # None => [pc |-> "reschedule", at |-> req[r].endTime] \in RequestState
      BY <2>1 DEF RequestState
    <3> QED
      BY <1>3, <3>1, <3>2, IdleStates DEF UpdateWrite
  <2> QED
    BY <1>3, <2>2, <2>3, RequestPreserves DEF UpdateWrite, IInv, TypeOK
<1>4. CASE CloseRead(r)
  <2>1. [pc |-> "cancel", next |-> "end"] \in RequestState
    BY DEF RequestState
  <2> QED
    BY <1>4, <2>1, RequestPreserves DEF CloseRead, IInv, TypeOK
<1>5. CASE ChooseWinnerRead(r)
  <2>1. [pc |-> "cancel", next |-> "end"] \in RequestState /\ [pc |-> "end"] \in RequestState
    BY IdleStates DEF RequestState
  <2>2. PICK state \in RequestState : state.pc # "bidTx" /\ Goto(r, state)
    BY <1>5, <2>1 DEF ChooseWinnerRead
  <2> QED
    BY <1>5, <2>2, RequestPreserves DEF ChooseWinnerRead, IInv, TypeOK
<1>6. CASE EndWrite(r)
  BY <1>6, IdleStates, RequestPreserves DEF EndWrite, AuctionStatus, IInv, TypeOK
<1> QED
  BY <1>1, <1>2, <1>3, <1>4, <1>5, <1>6 DEF SellerSteps

LEMMA QueueStepsPreserve ==
    ASSUME IInv, NEW r \in Request, QueueSteps(r) \/ Abort(r)
    PROVE  IInv'
<1> USE DEF auctionVars
<1>1. CASE Schedule(r)
  <2> DEFINE desired == IF req[r].at > now THEN req[r].at ELSE now
             at == IF desired > now + MaxDelay THEN now + MaxDelay ELSE desired
  <2>1. req[r].at \in Time /\ now \in Time
    BY <1>1, StateAt DEF Schedule, At, IInv, TypeOK
  <2>2. at \in Time /\ 0 \in 0..Attempts - 1
    BY <2>1, AuctionClockAssumption DEF Time
  <2> HIDE DEF at
  <2>3. job' \in JobState
    BY <1>1, <2>2, JobStates DEF Schedule, at, IInv, TypeOK
  <2> QED
    BY <1>1, <2>3, IdleStates, RequestPreserves DEF Schedule, IInv, TypeOK
<1>2. CASE Reschedule(r)
  <2>1. [pc |-> "schedule", at |-> req[r].at] \in RequestState
    BY <1>2, StateAt DEF Reschedule, At, IInv, TypeOK, RequestState
  <2> QED
    BY <1>2, <2>1, JobStates, RequestPreserves DEF Reschedule, IInv, TypeOK
<1>3. CASE Cancel(r)
  <2>1. req[r].next \in {"idle", "end"}
    BY <1>3, StateAt DEF Cancel, At, IInv, TypeOK
  <2>2. [pc |-> req[r].next] \in RequestState
    BY <2>1, IdleStates
  <2> QED
    BY <1>3, <2>1, <2>2, JobStates, RequestPreserves DEF Cancel, IInv, TypeOK
<1>4. CASE QueueCallFails(r)
  <2>1. PICK state \in RequestState : state.pc # "bidTx" /\ Goto(r, state)
    <3>1. CASE At(r, "schedule") /\ Goto(r, Idle)
      BY <3>1, IdleStates
    <3>2. CASE At(r, "reschedule") /\ Goto(r, [pc |-> "schedule", at |-> req[r].at])
      <4>1. [pc |-> "schedule", at |-> req[r].at] \in RequestState
        BY <3>2, StateAt DEF At, IInv, TypeOK, RequestState
      <4> QED
        BY <3>2, <4>1
    <3>3. CASE At(r, "cancel") /\ Goto(r, [pc |-> req[r].next])
      <4>1. req[r].next \in {"idle", "end"}
        BY <3>3, StateAt DEF At, IInv, TypeOK
      <4>2. [pc |-> req[r].next] \in RequestState
        BY <4>1, IdleStates
      <4> QED
        BY <3>3, <4>1, <4>2
    <3> QED
      BY <1>4, <3>1, <3>2, <3>3 DEF QueueCallFails
  <2> QED
    BY <1>4, <2>1, RequestPreserves DEF QueueCallFails, IInv, TypeOK
<1>5. CASE Abort(r)
  BY <1>5, IdleStates, RequestPreserves DEF Abort, IInv, TypeOK
<1> QED
  BY <1>1, <1>2, <1>3, <1>4, <1>5 DEF QueueSteps

LEMMA WorkersPreserve ==
    ASSUME IInv, Tick \/ Finish \/ Sweep
    PROVE  IInv'
<1> USE DEF auctionVars
<1>1. CASE Tick
  <2>1. now' \in Time
    BY <1>1, AuctionClockAssumption DEF Tick, Time, IInv, TypeOK
  <2> QED
    BY <1>1, <2>1, WorkerPreserves DEF Tick, IInv, TypeOK
<1>2. CASE Finish
  <2>1. job' \in JobState
    <3>1. CASE FinishFails
      <4>1. job.tries + 1 < Attempts => job.tries + 1 \in 0..Attempts - 1
        BY <3>1, JobStates, AuctionClockAssumption DEF FinishFails, IInv
      <4> QED
        BY <3>1, <4>1, JobStates DEF FinishFails, AfterFailure, IInv, TypeOK
    <3> QED
      BY <1>2, <3>1, JobStates
      DEF Finish, FinishStart, FinishIgnores, FinishRead, FinishEnd, IInv
  <2> QED
    BY <1>2, <2>1, WorkerPreserves
    DEF Finish, FinishStart, FinishIgnores, FinishRead, FinishEnd, FinishFails,
        AuctionStatus, IInv, TypeOK
<1>3. CASE Sweep
  <2>1. UNCHANGED <<status, endTime>> \/ ~AuctionLocked
    BY <1>3 DEF Sweep, SweepRead, SweepEnd, SweepCancel, SweepFails
  <2>2. /\ req' = req /\ now' = now
        /\ status' \in AuctionStatus /\ UNCHANGED <<deleted, endTime, hasBids>>
        /\ sweep' \in {"idle", "end", "cancel"}
    BY <1>3 DEF Sweep, SweepRead, SweepEnd, SweepCancel, SweepFails, AuctionStatus, IInv, TypeOK
  <2>3. job' \in JobState
    BY <1>3, JobStates DEF Sweep, SweepRead, SweepEnd, SweepCancel, SweepFails, IInv, TypeOK
  <2> QED
    BY <2>1, <2>2, <2>3, WorkerPreserves DEF IInv, TypeOK
<1> QED
  BY <1>1, <1>2, <1>3

-----------------------------------------------------------------------------
\* The inductive invariant: types, one holder of the auction row, and a holder
\* whose time lies before the end it found.
THEOREM Invariance == Spec => []IInv
<1>1. Init => IInv
  <2> SUFFICES ASSUME Init PROVE IInv
    OBVIOUS
  <2>1. req \in [Request -> RequestState] /\ \A r \in Request : ~At(r, "bidTx")
    BY IdleStates DEF Init, At
  <2>2. job \in JobState /\ 0 \in Time
    BY AuctionClockAssumption DEF Init, JobState, Time
  <2>3. TypeOK
    BY <2>1, <2>2 DEF Init, TypeOK, AuctionStatus
  <2> QED
    BY <2>1, <2>3 DEF IInv, OneLockHolder, HolderInTime
<1>2. IInv /\ [Next]_vars => IInv'
  <2> SUFFICES ASSUME IInv, [Next]_vars PROVE IInv'
    OBVIOUS
  <2>1. CASE UNCHANGED vars
    BY <2>1 DEF vars, auctionVars, IInv, TypeOK, OneLockHolder, HolderInTime, At
  <2>2. CASE Next
    BY <2>2, BidStepsPreserve, SellerStepsPreserve, QueueStepsPreserve, WorkersPreserve
    DEF Next
  <2> QED
    BY <2>1, <2>2
<1> QED
  BY <1>1, <1>2, PTL DEF Spec

\* Types of the auction row, the job and the requests in flight.
THEOREM TypeCorrect == Spec => []TypeOK
  BY Invariance, PTL DEF IInv

\* However requests, the job and the sweep interleave, createBid never brings
\* the end of an active auction closer, and leaves extendMinutes to answer.
THEOREM LateBidsExtend == Spec => LateBidExtends
<1>1. ASSUME IInv, NEW r \in Request, LaterBidCommit(r)
      PROVE  /\ endTime' >= endTime
             /\ AutoExtend => endTime' - req[r].at >= Extend
  <2>1. endTime > req[r].at /\ endTime \in Nat /\ req[r].at \in Nat
    BY <1>1, StateAt DEF LaterBidCommit, HolderInTime, At, Time, IInv, TypeOK
  <2> QED
    BY <1>1, <2>1, AuctionClockAssumption DEF LaterBidCommit, ExtendedEnd
<1>2. IInv => [\A r \in Request : LaterBidCommit(r) =>
                  /\ endTime' >= endTime
                  /\ AutoExtend => endTime' - req[r].at >= Extend]_vars
  BY <1>1
<1> QED
  BY <1>2, Invariance, PTL DEF LateBidExtends
=============================================================================
