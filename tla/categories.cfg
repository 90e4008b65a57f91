SPECIFICATION CategorySpec
CONSTANTS
  Category = {k1, k2, k3}
  Admin = {a1}
  MaxDepth = 4
  NoParent = NoParent
CHECK_DEADLOCK FALSE
INVARIANT TreeHasNoCycle
