SPECIFICATION Spec
CONSTANTS
  Bidder = {u1, u2}
  Bid = {b1, b2, b3}
  Amount <- MCTwoAmounts
  StartPrice <- MCOneStartPrice
  MinBidAmount = 1
  BidIncrement = 1
  Request = {r1, r2}
  Operation <- RacingOperation
  MaxRefunds = 1
  None = None
SYMMETRY Symmetry
CHECK_DEADLOCK FALSE
INVARIANT TypeOK
INVARIANT TotalBidsIsRowCount
PROPERTY NoBidOnClosedAuction
PROPERTY BidReplacesOwn
