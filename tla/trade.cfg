SPECIFICATION FairSpec
CONSTANTS
  Buyer = {b1, b2}
  Seller = s
  MaxOrders = 2
  MaxConversations = 2
  MaxRows = 4
  BatchSize = 1
  Request = {r1}
  None = None
CHECK_DEADLOCK FALSE
INVARIANT TypeOK
INVARIANT OneLiveOrder
INVARIANT ChatIsWithBuyer
PROPERTY OrderMovesForward
PROPERTY DeliveredChatCloses
