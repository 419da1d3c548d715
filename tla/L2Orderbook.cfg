\* Three prices let a new level land at the front, between two levels, and
\* at the back of either side; a level of two lets a removal leave or erase
\* it.  QtyBits = 3 keeps every reachable quantity below 2^QtyBits.
CONSTANTS
  Sides <- MCSides
  Prices <- MCPrices
  MaxQty = 2
  MaxLevelQty = 2
  QtyBits = 3

SPECIFICATION L2Spec

VIEW L2View

INVARIANTS
  L2TypeOK
  LevelsWellFormed

PROPERTY
  L2Refinement
