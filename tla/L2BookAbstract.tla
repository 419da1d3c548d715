--------------------------- MODULE L2BookAbstract ---------------------------
(***************************************************************************)
(* What a price-level (L2) order book promises, independent of how its     *)
(* levels are stored: for each side and price, the aggregate quantity      *)
(* resting there, and what each operation does to it.  lastOp records the  *)
(* operation and arguments of the latest step, so that a step is judged    *)
(* against the call that caused it.                                        *)
(*                                                                         *)
(*   add      q arrives at price p;                                        *)
(*   delete   q leaves p, which holds at least q;                          *)
(*   execute  q trades at p, which holds at least q;                       *)
(*   replace  oq leaves op and nq arrives at np, in one step.              *)
(***************************************************************************)
EXTENDS Naturals, FiniteSetsExt

CONSTANTS
  Sides,     \* {"B", "S"}
  Prices,    \* the prices orders may rest at
  MaxQty     \* most quantity one call names

VARIABLES
  depth,     \* depth[s][p]: aggregate quantity resting at price p on side s
  lastOp     \* the latest call

Op(kind, s, p, q, np, nq) ==
  [kind |-> kind, side |-> s, price |-> p, qty |-> q, newPrice |-> np, newQty |-> nq]

NoOp == Op("none", "B", 0, 0, 0, 0)

Init ==
  /\ depth = [s \in Sides |-> [p \in Prices |-> 0]]
  /\ lastOp = NoOp

Add(s, p, q) ==
  /\ depth' = [depth EXCEPT ![s][p] = @ + q]
  /\ lastOp' = Op("add", s, p, q, p, 0)

Delete(s, p, q) ==
  /\ 0 < q /\ q <= depth[s][p]
  /\ depth' = [depth EXCEPT ![s][p] = @ - q]
  /\ lastOp' = Op("delete", s, p, q, p, 0)

Execute(s, p, q) ==
  /\ 0 < q /\ q <= depth[s][p]
  /\ depth' = [depth EXCEPT ![s][p] = @ - q]
  /\ lastOp' = Op("execute", s, p, q, p, 0)

Replace(s, op, oq, np, nq) ==
  /\ 0 < oq /\ oq <= depth[s][op]
  /\ depth' = [depth EXCEPT ![s][op] = @ - oq, ![s][np] = @ + nq]
  /\ lastOp' = Op("replace", s, op, oq, np, nq)

Next ==
  \E s \in Sides, p \in Prices, q \in 1..MaxQty :
    \/ Add(s, p, q)
    \/ Delete(s, p, q)
    \/ Execute(s, p, q)
    \/ \E np \in Prices, nq \in 1..MaxQty : Replace(s, p, q, np, nq)

Spec == Init /\ [][Next]_<<depth, lastOp>>

Levels(s) == {p \in Prices : depth[s][p] > 0}

BestBid == Max(Levels("B"))
BestAsk == Min(Levels(CHOOSE s \in Sides : s # "B"))

=============================================================================
