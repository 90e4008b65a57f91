SPECIFICATION FairSpec
CONSTANTS
  User = {u1}
  MaxPayments = 2
  Amount = {100}
  Quantity = {1}
  PricePerPost = 1
  BatchSize = 1
  MaxDeliveries = 1
  MaxGrants = 1
  Request = {r1, r2}
  None = None
CHECK_DEADLOCK FALSE
INVARIANT TypeOK
PROPERTY PaymentsSettle
PROPERTY ImplementsAccount
