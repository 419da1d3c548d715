------------------------- MODULE MCOrderbookBuilder -------------------------
(* Two orders on two sides and two prices. *)
EXTENDS OrderbookBuilder

CONSTANTS o1, o2

MCOrderIds == {o1, o2}
MCSides == {"B", "S"}
MCPrices == 1..2
MCParsers == {"generic", "legacy"}

\* Order ids are interchangeable: nothing compares or orders them.
Symmetry == Permutations(MCOrderIds)

=============================================================================
