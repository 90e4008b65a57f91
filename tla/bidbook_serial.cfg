SPECIFICATION Spec
CONSTANTS
  Bidder = {u1, u2, u3}
  Bid = {b1, b2, b3}
  Amount <- MCAmount
  StartPrice <- MCStartPrice
  MinBidAmount = 1
  BidIncrement = 1
  Request = {r1}
  Operation <- AllOperation
  MaxRefunds = 2
  None = None
SYMMETRY Symmetry
CHECK_DEADLOCK FALSE
INVARIANT BookInOrder
INVARIANT BoardsAgree
