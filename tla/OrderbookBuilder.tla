-------------------------- MODULE OrderbookBuilder --------------------------
(***************************************************************************)
(* ConcreteOrderbookBuilder (src/lib/core/orderbook_builder.hpp) fed by    *)
(* the generic ITCH parser with AddOrder, OrderExecuted and OrderDelete    *)
(* events, driving one L2Orderbook (one orderbook id; books of different   *)
(* ids share nothing).                                                     *)
(*                                                                         *)
(* The exchange publishes a feed of events about orders it really holds.   *)
(* The builder applies them in feed order, or -- as the market-data client *)
(* does while rewinding -- in arrival order (Reordering), and may apply an *)
(* event it already applied once more (Replaying; at most MaxReplays       *)
(* times).  m_orderMap is keyed by (order_id, side); left_qty is uint64_t. *)
(*                                                                         *)
(* The repository holds a second, older implementation of the same job:   *)
(* the ItchParser of src/lib/protocol/itch/itch_parser.cpp, with its own  *)
(* m_orderMap and m_orderbookMap.  Which one consumes the feed is chosen  *)
(* once, from Parsers; every property is checked of both.                *)
(***************************************************************************)
EXTENDS L2Orderbook, FiniteSets, TLC

CONSTANTS
  OrderIds,     \* order ids the exchange may use (each for one order)
  MaxEvents,    \* most events the exchange publishes
  Reordering,   \* events may be applied out of feed order
  Replaying,    \* an applied event may be applied again
  MaxReplays,   \* most re-applications in one behaviour
  Parsers       \* implementations that may consume the feed

ASSUME MaxEvents \in Nat /\ MaxReplays \in Nat
ASSUME Reordering \in BOOLEAN /\ Replaying \in BOOLEAN
ASSUME Parsers \subseteq {"generic", "legacy"}

AddOrderMsg == [type : {"A"}, id : OrderIds, side : Sides, price : Prices, qty : 1..MaxQty]

OrderExecutedMsg == [type : {"E"}, id : OrderIds, side : Sides, qty : 1..MaxQty]

OrderDeleteMsg == [type : {"D"}, id : OrderIds, side : Sides]

Event == AddOrderMsg \cup OrderExecutedMsg \cup OrderDeleteMsg

VARIABLES
  orderMap,   \* m_orderMap: (order_id, side) -> [price, left_qty]
  exch,       \* the exchange's own orders: id -> [status, side, price, left]
  feed,       \* the events the exchange has published, in sequence order
  done,       \* indices of feed events the builder has applied
  replays,    \* re-applications so far
  parser      \* the implementation consuming the feed

builderVars == <<orderMap, exch, feed, done, replays, parser>>
vars == <<l2Vars, builderVars>>

Init ==
  /\ L2Init
  /\ orderMap = <<>>
  /\ exch = [o \in OrderIds |-> [status |-> "new", side |-> "B", price |-> 0, left |-> 0]]
  /\ feed = <<>>
  /\ done = {}
  /\ replays = 0
  /\ parser \in Parsers

-----------------------------------------------------------------------------
(* The builder: one action per builder operation.                          *)

Erase(m, k) == [x \in DOMAIN m \ {k} |-> m[x]]

\* addOrder: the map entry is (over)written and the book gains qty.
BuilderAddOrder(e) ==
  /\ orderMap' = (<<e.id, e.side>> :> [price |-> e.price, left |-> e.qty]) @@ orderMap
  /\ AddOrder(e.side, e.price, e.qty)

\* Mutants: the entry is never erased at 0; the order's left_qty is
\* passed where the executed quantity belongs.
BuilderExecuteOrderNoErase(e) ==
  LET k == <<e.id, e.side>> IN
  IF k \notin DOMAIN orderMap
  THEN UNCHANGED <<orderMap, l2Vars>>
  ELSE /\ ExecuteOrder(e.side, orderMap[k].price, e.qty)
       /\ orderMap' = [orderMap EXCEPT ![k].left = (@ - e.qty) % QtyModulus]

BuilderExecuteOrderLeftQty(e) ==
  LET k == <<e.id, e.side>> IN
  IF k \notin DOMAIN orderMap
  THEN UNCHANGED <<orderMap, l2Vars>>
  ELSE LET left == (orderMap[k].left - e.qty) % QtyModulus IN
       /\ ExecuteOrder(e.side, orderMap[k].price, orderMap[k].left)
       /\ orderMap' = IF left = 0 THEN Erase(orderMap, k)
                      ELSE [orderMap EXCEPT ![k].left = left]

\* Mutant: the map's left_qty is never brought down.
BuilderExecuteOrderNoDecrement(e) ==
  LET k == <<e.id, e.side>> IN
  IF k \notin DOMAIN orderMap
  THEN UNCHANGED <<orderMap, l2Vars>>
  ELSE /\ ExecuteOrder(e.side, orderMap[k].price, e.qty)
       /\ UNCHANGED orderMap

\* executeOrder: a missing order is ignored; otherwise the book executes
\* at the remembered price, left_qty drops (unsigned), and the entry is
\* erased when it reaches 0.
BuilderExecuteOrder(e) ==
  LET k == <<e.id, e.side>> IN
  IF k \notin DOMAIN orderMap
  THEN UNCHANGED <<orderMap, l2Vars>>
  ELSE LET left == (orderMap[k].left - e.qty) % QtyModulus IN
       /\ ExecuteOrder(e.side, orderMap[k].price, e.qty)
       /\ orderMap' = IF left = 0 THEN Erase(orderMap, k)
                      ELSE [orderMap EXCEPT ![k].left = left]

\* deleteOrder: a missing order is ignored; otherwise the book loses the
\* remembered left_qty at the remembered price and the entry is erased.
BuilderDeleteOrder(e) ==
  LET k == <<e.id, e.side>> IN
  IF k \notin DOMAIN orderMap
  THEN UNCHANGED <<orderMap, l2Vars>>
  ELSE /\ DeleteOrder(e.side, orderMap[k].price, orderMap[k].left)
       /\ orderMap' = Erase(orderMap, k)

\* Mutant: the dispatch has no OrderDelete case.
ApplyEventNoDelete(e) ==
  CASE e.type = "A" -> BuilderAddOrder(e)
    [] e.type = "E" -> BuilderExecuteOrder(e)
    [] e.type = "D" -> UNCHANGED <<orderMap, l2Vars>>

\* parsePayload's dispatch on the message type.
ApplyEvent(e) ==
  CASE e.type = "A" -> BuilderAddOrder(e)
    [] e.type = "E" -> BuilderExecuteOrder(e)
    [] e.type = "D" -> BuilderDeleteOrder(e)

-----------------------------------------------------------------------------
(* The legacy ItchParser's handlers.  They do what the generic builder    *)
(* does, checking membership with contains() and then indexing the map    *)
(* with operator[] for each field; each ends with a Dump() that only      *)
(* logs.                                                                  *)

HandleOrderAdd(e) ==
  /\ orderMap' = (<<e.id, e.side>> :> [price |-> e.price, left |-> e.qty]) @@ orderMap
  /\ AddOrder(e.side, e.price, e.qty)

HandleOrderDelete(e) ==
  LET k == <<e.id, e.side>> IN
  IF k \notin DOMAIN orderMap
  THEN UNCHANGED <<orderMap, l2Vars>>
  ELSE /\ DeleteOrder(e.side, orderMap[k].price, orderMap[k].left)
       /\ orderMap' = Erase(orderMap, k)

\* Mutant: the entry is erased whatever quantity is left.
HandleOrderExecutionAlwaysErase(e) ==
  LET k == <<e.id, e.side>> IN
  IF k \notin DOMAIN orderMap
  THEN UNCHANGED <<orderMap, l2Vars>>
  ELSE /\ ExecuteOrder(e.side, orderMap[k].price, e.qty)
       /\ orderMap' = Erase(orderMap, k)

HandleOrderExecution(e) ==
  LET k == <<e.id, e.side>>
      left == (orderMap[k].left - e.qty) % QtyModulus
  IN IF k \notin DOMAIN orderMap
     THEN UNCHANGED <<orderMap, l2Vars>>
     ELSE /\ ExecuteOrder(e.side, orderMap[k].price, e.qty)
          /\ orderMap' = IF left = 0 THEN Erase(orderMap, k)
                         ELSE [orderMap EXCEPT ![k].left = left]

\* parsePayload's chain of type tests for one message block; the types
\* it only logs never reach the feed of this model.
ParsePayload(e) ==
  CASE e.type = "A" -> HandleOrderAdd(e)
    [] e.type = "E" -> HandleOrderExecution(e)
    [] e.type = "D" -> HandleOrderDelete(e)

\* The next event the builder applies: the first unapplied one in feed
\* order, under Reordering any unapplied one, and under Replaying (a
\* duplicated datagram, or a live packet and its rewound copy) one it has
\* applied before.
Apply(j) ==
  /\ ~exited
  /\ j \in DOMAIN feed
  /\ \/ /\ j \notin done
        /\ Reordering \/ \A i \in 1..(j - 1) : i \in done
     \/ /\ j \in done
        /\ Replaying
        /\ replays < MaxReplays
  /\ IF parser = "generic" THEN ApplyEvent(feed[j]) ELSE ParsePayload(feed[j])
  /\ done' = done \cup {j}
  /\ replays' = IF j \in done THEN replays + 1 ELSE replays
  /\ UNCHANGED <<exch, feed, parser>>

-----------------------------------------------------------------------------
(* The exchange: events about orders it holds, quantities it really has.   *)

Publish(e) ==
  /\ Len(feed) < MaxEvents
  /\ feed' = Append(feed, e)
  /\ UNCHANGED <<l2Vars, orderMap, done, replays, parser>>

ExchAdd(o, s, p, q) ==
  /\ exch[o].status = "new"
  /\ exch' = [exch EXCEPT ![o] = [status |-> "live", side |-> s, price |-> p, left |-> q]]
  /\ Publish([type |-> "A", id |-> o, side |-> s, price |-> p, qty |-> q])

ExchExecute(o, q) ==
  /\ exch[o].status = "live"
  /\ q <= exch[o].left
  /\ exch' = [exch EXCEPT ![o].left = @ - q,
                          ![o].status = IF exch[o].left = q THEN "gone" ELSE "live"]
  /\ Publish([type |-> "E", id |-> o, side |-> exch[o].side, qty |-> q])

ExchDelete(o) ==
  /\ exch[o].status = "live"
  /\ exch' = [exch EXCEPT ![o].status = "gone"]
  /\ Publish([type |-> "D", id |-> o, side |-> exch[o].side])

Next ==
  \/ \E o \in OrderIds, s \in Sides, p \in Prices, q \in 1..MaxQty : ExchAdd(o, s, p, q)
  \/ \E o \in OrderIds, q \in 1..MaxQty : ExchExecute(o, q)
  \/ \E o \in OrderIds : ExchDelete(o)
  \/ \E j \in DOMAIN feed : Apply(j)

Spec == Init /\ [][Next]_vars

-----------------------------------------------------------------------------
(* Properties                                                              *)

\* The quantity the builder's map rests at (s, p), and the exchange's.
MapDepth(s, p) ==
  MapThenSumSet(LAMBDA k : orderMap[k].left,
                {k \in DOMAIN orderMap : k[2] = s /\ orderMap[k].price = p})

ExchDepth(s, p) ==
  MapThenSumSet(LAMBDA o : exch[o].left,
                {o \in OrderIds : exch[o].status = "live" /\ exch[o].side = s
                                  /\ exch[o].price = p})

BuilderTypeOK ==
  /\ DOMAIN orderMap \subseteq OrderIds \X Sides
  /\ \A k \in DOMAIN orderMap :
       orderMap[k] \in [price : Prices, left : 1..(QtyModulus - 1)]
  /\ feed \in Seq(Event)
  /\ done \subseteq DOMAIN feed
  /\ replays \in 0..MaxReplays
  /\ parser \in Parsers

\* Every level of the L2 book holds exactly the left quantity of the orders
\* the builder remembers at that price: executeOrder and deleteOrder take
\* from the book what they take from m_orderMap.
BookMatchesOrders ==
  \A s \in Sides, p \in Prices : LevelQty(s, p) = MapDepth(s, p)

\* Once the builder has applied every event published so far, each level
\* of its book holds what the exchange really has resting at that price.
CaughtUpBookIsExchangeBook ==
  done = DOMAIN feed =>
    \A s \in Sides, p \in Prices : LevelQty(s, p) = ExchDepth(s, p)

\* The book never reaches DeleteOrder's std::exit(42), nor dereferences
\* the missing level of an ExecuteOrder.
NoFatalPath == ~exited /\ ~undefinedRead

=============================================================================
