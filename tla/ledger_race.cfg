SPECIFICATION Spec
CONSTANTS
  User = {u1}
  MaxPayments = 2
  Amount <- MCAmount
  Quantity = {1}
  PricePerPost = 1
  BatchSize = 1
  MaxDeliveries = 2
  MaxGrants = 1
  Request = {r1, r2}
  None = None
CHECK_DEADLOCK FALSE
INVARIANT CreditedOnce
