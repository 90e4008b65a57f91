SPECIFICATION FairSpec
CONSTANTS
  MaxTime = 3
  Duration = 1
  Extend = 2
  MaxDelay = 2
  Attempts = 2
  AutoExtend = TRUE
  SetStatus = {"ACTIVE"}
  Request = {r1, r2}
  None = None
CHECK_DEADLOCK FALSE
INVARIANT TypeOK
PROPERTY LateBidExtends
PROPERTY ExpiredEnds
PROPERTY ClosedAuctionLosesJob
