---------------------------- MODULE L2Orderbook ----------------------------
(***************************************************************************)
(* L2Orderbook (src/lib/core/l2_orderbook.hpp): per side, a vector of      *)
(* (price, quantity) levels sorted so that the best price is the last      *)
(* element -- ascending for bids (std::less), descending for asks          *)
(* (std::greater).  Levels are found by a linear search from the back.     *)
(*                                                                         *)
(* Quantities are uint64_t, kept modulo 2^QtyBits.  A DeleteOrder for a    *)
(* price with no level calls std::exit(42) (exited).  ExecuteOrder and     *)
(* ReplaceOrder only log a missing level (EXPECT) and then dereference     *)
(* rend(): undefined behaviour, recorded in undefinedRead with the levels  *)
(* left as they were (one of the outcomes the build can produce).          *)
(***************************************************************************)
EXTENDS Naturals, Sequences, SequencesExt

CONSTANTS
  Sides,        \* {"B", "S"}: 'B' is a bid, any other side an ask
  Prices,       \* the prices orders may rest at
  MaxQty,       \* most quantity one order carries
  MaxLevelQty,  \* bound on the quantity of a level in the standalone spec
  QtyBits       \* width of the level quantity (64 in the code)

ASSUME "B" \in Sides /\ Prices \subseteq Int
ASSUME MaxQty \in Nat \ {0} /\ MaxLevelQty \in Nat /\ QtyBits \in Nat \ {0}

QtyModulus == 2^QtyBits

VARIABLES
  levels,         \* levels["B"] = m_bids, levels[other] = m_asks
  exited,         \* the process ended in std::exit(42)
  undefinedRead,  \* a missing level's iterator (rend()) was dereferenced
  lastOp          \* history: the latest public call, for the refinement

l2Vars == <<levels, exited, undefinedRead, lastOp>>

\* comp(level price, new price): std::less<> for bids, std::greater<> for asks.
Comp(side, a, b) == IF side = "B" THEN a < b ELSE a > b

\* GetLevel: reverse linear search; 0 stands for rend().
GetLevel(l, price) == SelectLastInSeq(l, LAMBDA lv : lv[1] = price)

LevelQty(side, price) ==
  LET i == GetLevel(levels[side], price) IN IF i = 0 THEN 0 ELSE levels[side][i][2]

\* The depth the vectors represent.
Depth == [s \in Sides |-> [p \in Prices |-> LevelQty(s, p)]]

Abstract == INSTANCE L2BookAbstract WITH depth <- Depth, MaxQty <- MaxLevelQty

L2Init ==
  /\ levels = [s \in Sides |-> <<>>]
  /\ exited = FALSE
  /\ undefinedRead = FALSE
  /\ lastOp = Abstract!NoOp

\* Mutant: insert at level_iter rather than level_iter.base().
AddLevelBeforeBase(l, side, price, qty) ==
  IF l = <<>> THEN <<<<price, qty>>>>
  ELSE IF GetLevel(l, price) # 0
  THEN [l EXCEPT ![GetLevel(l, price)][2] = (@ + qty) % QtyModulus]
  ELSE InsertAt(l, Max({1, SelectLastInSeq(l, LAMBDA lv : Comp(side, lv[1], price))}),
                <<price, qty>>)

\* The private AddOrder template: an empty side gets the level; an existing
\* level gains qty; otherwise the level goes just after the nearest level
\* (searched from the best end) that comp ranks below it, or to the front.
AddLevel(l, side, price, qty) ==
  IF l = <<>> THEN <<<<price, qty>>>>
  ELSE IF GetLevel(l, price) # 0
  THEN [l EXCEPT ![GetLevel(l, price)][2] = (@ + qty) % QtyModulus]
  ELSE InsertAt(l, SelectLastInSeq(l, LAMBDA lv : Comp(side, lv[1], price)) + 1,
                <<price, qty>>)

\* The private DeleteOrder, level i found: unsigned subtraction; the level
\* is erased when the result is "<= 0", i.e. exactly 0.
DeleteLevel(l, i, qty) ==
  IF (l[i][2] - qty) % QtyModulus = 0 THEN RemoveAt(l, i)
  ELSE [l EXCEPT ![i][2] = (@ - qty) % QtyModulus]

\* Mutant: the consumed test is >= rather than >.
ExecuteLevelGe(l, i, qty) ==
  IF l[i][2] >= qty THEN [l EXCEPT ![i][2] = @ - qty] ELSE RemoveAt(l, i)

\* ExecuteOrderImpl, level i found: decrement, or erase if consumed.
ExecuteLevel(l, i, qty) ==
  IF l[i][2] > qty THEN [l EXCEPT ![i][2] = @ - qty] ELSE RemoveAt(l, i)

\* Mutant: the same-price case forgets to add the new quantity.
ReplaceLevelNoAdd(l, i, side, oldQty, newPrice, newQty) ==
  IF l[i][1] = newPrice THEN [l EXCEPT ![i][2] = (@ - oldQty) % QtyModulus]
  ELSE AddLevel(IF l[i][2] > oldQty THEN [l EXCEPT ![i][2] = @ - oldQty]
                                     ELSE RemoveAt(l, i),
                side, newPrice, newQty)

\* The private ReplaceOrder, old level i found: same price adjusts in place;
\* otherwise reduce or erase the old level, then AddOrder the new one.
ReplaceLevel(l, i, side, oldQty, newPrice, newQty) ==
  IF l[i][1] = newPrice THEN [l EXCEPT ![i][2] = (@ - oldQty + newQty) % QtyModulus]
  ELSE AddLevel(IF l[i][2] > oldQty THEN [l EXCEPT ![i][2] = @ - oldQty]
                                     ELSE RemoveAt(l, i),
                side, newPrice, newQty)

-----------------------------------------------------------------------------
(* The public operations, each dispatching on the side.                    *)

AddOrder(side, price, qty) ==
  /\ levels' = [levels EXCEPT ![side] = AddLevel(@, side, price, qty)]
  /\ UNCHANGED <<exited, undefinedRead>>
  /\ lastOp' = Abstract!Op("add", side, price, qty, price, 0)

DeleteOrder(side, price, qty) ==
  LET i == GetLevel(levels[side], price) IN
  /\ lastOp' = Abstract!Op("delete", side, price, qty, price, 0)
  /\ IF i = 0
     THEN /\ exited' = TRUE
          /\ UNCHANGED <<levels, undefinedRead>>
     ELSE /\ levels' = [levels EXCEPT ![side] = DeleteLevel(@, i, qty)]
          /\ UNCHANGED <<exited, undefinedRead>>

ExecuteOrder(side, price, qty) ==
  LET i == GetLevel(levels[side], price) IN
  /\ lastOp' = Abstract!Op("execute", side, price, qty, price, 0)
  /\ IF i = 0
     THEN /\ undefinedRead' = TRUE
          /\ UNCHANGED <<levels, exited>>
     ELSE /\ levels' = [levels EXCEPT ![side] = ExecuteLevel(@, i, qty)]
          /\ UNCHANGED <<exited, undefinedRead>>

ReplaceOrder(side, oldPrice, oldQty, newPrice, newQty) ==
  LET i == GetLevel(levels[side], oldPrice) IN
  /\ lastOp' = Abstract!Op("replace", side, oldPrice, oldQty, newPrice, newQty)
  /\ IF i = 0
     THEN /\ undefinedRead' = TRUE
          /\ UNCHANGED <<levels, exited>>
     ELSE /\ levels' = [levels EXCEPT ![side] =
                       ReplaceLevel(@, i, side, oldQty, newPrice, newQty)]
          /\ UNCHANGED <<exited, undefinedRead>>

\* GetBestPrices: the last level of each side (undefined on an empty side).
GetBestPrices == <<Last(levels["B"])[1], Last(levels[CHOOSE s \in Sides : s # "B"])[1]>>

-----------------------------------------------------------------------------
(* The book on its own, driven by any caller that keeps the documented     *)
(* preconditions: a removal names a resting level and at most its          *)
(* quantity.  The book process stops at exit(42).                          *)

FitsLevel(side, price, qty) == LevelQty(side, price) + qty <= MaxLevelQty

L2Next ==
  /\ ~exited
  /\ \E s \in Sides, p \in Prices :
       \/ \E q \in 1..MaxQty : FitsLevel(s, p, q) /\ AddOrder(s, p, q)
       \/ \E q \in 1..LevelQty(s, p) : DeleteOrder(s, p, q)
       \/ \E q \in 1..LevelQty(s, p) : ExecuteOrder(s, p, q)
       \/ \E oq \in 1..LevelQty(s, p), np \in Prices, nq \in 1..MaxQty :
            /\ FitsLevel(s, np, nq)
            /\ ReplaceOrder(s, p, oq, np, nq)

L2Spec == L2Init /\ [][L2Next]_l2Vars

-----------------------------------------------------------------------------
(* Properties                                                              *)

L2TypeOK ==
  /\ levels \in [Sides -> Seq(Prices \X (1..(QtyModulus - 1)))]
  /\ exited \in BOOLEAN
  /\ undefinedRead \in BOOLEAN
  /\ lastOp.kind \in {"none", "add", "delete", "execute", "replace"}

\* What Dump() checks on each side: prices strictly improve toward the back
\* of the vector (so the back is the best price GetBestPrices returns), and
\* no level with quantity 0 survives.
LevelsWellFormed ==
  \A s \in Sides :
    /\ IsSorted([i \in 1..Len(levels[s]) |-> levels[s][i][1]],
                LAMBDA a, b : Comp(s, a, b))
    /\ \A i \in 1..Len(levels[s]) : levels[s][i][2] # 0

\* Every AddOrder, DeleteOrder, ExecuteOrder and ReplaceOrder changes the
\* depth the vectors represent as the abstract book allows.
L2Refinement == Abstract!Spec

=============================================================================
