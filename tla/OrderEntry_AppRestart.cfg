\* trading_client as written: seeded with the literal 1, and ended only by a signal.
CONSTANTS
  Digits = 3
  OrdersSize = 100
  IndexBits = 9
  QtyBits = 3
  EnterQty = 2
  Seeds <- MCSeeds
  SeedFromFile = FALSE
  GracefulExit = FALSE
  MaxRuns = 2

SPECIFICATION Spec

INVARIANT TokensNeverReused

CHECK_DEADLOCK FALSE
