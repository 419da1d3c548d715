--------------------------- MODULE MCL2Orderbook ---------------------------
(* The L2 book on its own: two sides, three prices, levels of at most two. *)
EXTENDS L2Orderbook

MCSides == {"B", "S"}
MCPrices == 1..3

\* lastOp is a history variable: no action reads it and the abstract step
\* is a function of depth and lastOp' alone, so states that differ only in
\* lastOp have the same successors and the same refinement verdicts.
L2View == <<levels, exited, undefinedRead>>

=============================================================================
