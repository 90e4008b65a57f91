SPECIFICATION Spec
CONSTANTS
  Bidder = {u1, u2}
  Bid = {b1, b2, b3}
  Amount <- MCAmountLow
  StartPrice <- MCOneStartPrice
  MinBidAmount = 1
  BidIncrement = 1
  Request = {r1, r2}
  Operation <- BiddingOperation
  MaxRefunds = 2
  None = None
SYMMETRY Symmetry
CHECK_DEADLOCK FALSE
PROPERTY BidRaisesPrice
