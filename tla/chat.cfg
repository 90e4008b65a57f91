SPECIFICATION FairSpec
CONSTANTS
    User = {u1, u2}
    Administrator = u2
    Earlier = 1
    MaxMessages = 3
    MaxChanges = 2
    PageSize = 2
    Request = {r1, r2}
CHECK_DEADLOCK FALSE
INVARIANT TypeOK
INVARIANT UnreadCovered
INVARIANT DeletedTextIsGone
PROPERTY ShutMeansShut
PROPERTY HistoryIsPaged
