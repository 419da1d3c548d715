\* Events applied in feed order, each once.  Two orders can share a level
\* or rest on different sides; five events let both be added, one executed
\* in part and then deleted.
CONSTANTS
  o1 = o1
  o2 = o2
  OrderIds <- MCOrderIds
  Sides <- MCSides
  Prices <- MCPrices
  MaxQty = 2
  MaxLevelQty = 4
  QtyBits = 3
  MaxEvents = 5
  Reordering = FALSE
  Replaying = FALSE
  MaxReplays = 0
  Parsers <- MCParsers

SPECIFICATION Spec

SYMMETRY Symmetry

INVARIANTS
  BuilderTypeOK
  BookMatchesOrders
  CaughtUpBookIsExchangeBook
  NoFatalPath

\* The book the feed drives is a behaviour of the abstract L2 book: the
\* builder never removes from a level more than it holds.
PROPERTY
  L2Refinement

\* The exchange publishes at most MaxEvents events; then the builder
\* drains the feed and nothing is left to do.
CHECK_DEADLOCK FALSE
