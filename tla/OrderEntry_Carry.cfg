\* One process seeded just below a carry into the middle digit.
CONSTANTS
  Digits = 3
  OrdersSize = 100
  IndexBits = 9
  QtyBits = 3
  EnterQty = 2
  Seeds <- MCCarrySeeds
  SeedFromFile = TRUE
  GracefulExit = TRUE
  MaxRuns = 1

SPECIFICATION Spec

PROPERTY SequentialTokens

CHECK_DEADLOCK FALSE
