\* The session as the spec describes it: seeded from app_parameters.json,
\* and every process ends through the destructors.
CONSTANTS
  Digits = 3
  OrdersSize = 100
  IndexBits = 9
  QtyBits = 3
  EnterQty = 2
  Seeds <- MCSeeds
  SeedFromFile = TRUE
  GracefulExit = TRUE
  MaxRuns = 2

SPECIFICATION Spec

INVARIANTS
  OETypeOK
  TokensNeverReused
  QuiescentSlotsMatch

PROPERTY
  OrdersWoundDown

\* Behaviours end once MaxRuns processes have run.
CHECK_DEADLOCK FALSE
