SPECIFICATION Spec
CONSTANTS
  Editor = {r1, r2}
  MaxEdits = 1
  MaxAuctions = 2
  Category = {k1, k2}
  Admin = {r1, r2}
  MaxDepth = 4
  NoParent = NoParent
  Press = {r1, r2}
  MaxWrites = 3
  Player = {d1, d2}
  Teller = {r1, r2}
  MaxOffers = 3
  NoPlayer = NoPlayer
  Owner = Owner
  Shopper = {u1}
  Duration = {1, 2}
  MaxRows = 3
  MaxClock = 2
  Nobody = Nobody
SYMMETRY Symmetry
CHECK_DEADLOCK FALSE
INVARIANT TypeOK
INVARIANT ShownWasReviewed
INVARIANT AuctionsOfProduct
INVARIANT DeletedCategoryIsEmpty
INVARIANT StorefrontAgrees
INVARIANT CardTellsDecision
INVARIANT NewsArrives
