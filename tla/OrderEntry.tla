----------------------------- MODULE OrderEntry -----------------------------
(***************************************************************************)
(* The order-entry session: BistMarketAccessor                             *)
(* (src/lib/client/order_entry_client.cpp) with its OrderManager           *)
(* (src/lib/core/order_manager.hpp), whose reader thread runs              *)
(* TcpClient::handleMessage (src/lib/network/tcp_client.cpp) on every      *)
(* SoupBinTCP frame, talking to an OUCH exchange over one TCP connection   *)
(* per process.                                                            *)
(*                                                                         *)
(* The application (src/apps/trading_client.cpp) constructs the accessor   *)
(* and calls login(); the rest happens on the reader thread: LoginAccepted *)
(* enters one order, OrderAccepted records it and replaces it, and         *)
(* OrderReplaced cancels the replacement.  The process may end and start   *)
(* again; the OrderManager's token counter survives only through the       *)
(* app_parameters file its destructor writes.                              *)
(*                                                                         *)
(* A token is its 14 digits (Digits of them here), most significant        *)
(* first; m_orders is the function from the slots ever touched to their    *)
(* record (an untouched slot is value-initialised: quantity 0, valid).     *)
(***************************************************************************)
EXTENDS Naturals, Sequences, SequencesExt, Functions

CONSTANTS
  Digits,        \* order token width (14)
  OrdersSize,    \* ORDERS_SIZE, the number of order slots (2^20)
  IndexBits,     \* width of the persisted token index (uint32_t: 32)
  QtyBits,       \* width of Order::quantity (uint64_t: 64)
  EnterQty,      \* the quantity onLoginAccepted enters
  Seeds,         \* values the app_parameters file may hold at the first start
  SeedFromFile,  \* the accessor is seeded from the persisted index
  GracefulExit,  \* a process ends through the destructors
  MaxRuns        \* most process starts

ASSUME Digits \in Nat \ {0} /\ OrdersSize \in Nat /\ IndexBits \in Nat \ {0}
ASSUME QtyBits \in Nat \ {0} /\ EnterQty \in 1..(2^QtyBits - 1)
ASSUME Seeds \subseteq 0..(2^IndexBits - 1) /\ MaxRuns \in Nat
ASSUME SeedFromFile \in BOOLEAN /\ GracefulExit \in BOOLEAN

TokenSpace == 10^Digits
QtyModulus == 2^QtyBits
Token == [1..Digits -> 0..9]

\* trading_client.cpp passes the literal 1 as last_order_token_index.
AppSeed == 1

VARIABLES
  alive,       \* a trading_client process is running
  runs,        \* process starts so far
  saved,       \* app_parameters.json: last_used_order_token_index
  token,       \* OrderManager::m_token
  slots,       \* OrderManager::m_orders, the slots touched
  replaceMap,  \* OrderManager::m_originalToReplacementTokens
  session,     \* BistMarketAccessor::m_state
  toExch,      \* frames written by the client, not yet read by the exchange
  toClient,    \* frames written by the exchange, not yet read by the client
  exch,        \* the exchange's orders, by token
  issued,      \* history: every token value handed out, in order
  runFrom      \* history: where the running process's tokens start in issued

omVars == <<token, slots, replaceMap>>
netVars == <<toExch, toClient>>
vars == <<alive, runs, saved, omVars, session, netVars, exch, issued, runFrom>>

Init ==
  /\ alive = FALSE
  /\ runs = 0
  /\ saved \in Seeds
  /\ token = [i \in 1..Digits |-> 0]
  /\ slots = <<>>
  /\ replaceMap = <<>>
  /\ session = "Disconnected"
  /\ toExch = <<>>
  /\ toClient = <<>>
  /\ exch = <<>>
  /\ issued = <<>>
  /\ runFrom = 1

-----------------------------------------------------------------------------
(* OrderManager                                                            *)

\* parse_order_token_decimal: index = index * 10 + digit, left to right.
TokenValue(t) == FoldLeft(LAMBDA acc, d : acc * 10 + d, 0, t)

\* The constructor: index = last + 1 (uint32_t arithmetic), written digit
\* by digit from the least significant end.
CtorToken(last) ==
  LET index == (last + 1) % 2^IndexBits
  IN [i \in 1..Digits |-> (index \div 10^(Digits - i)) % 10]

\* Mutant: the digit is not reduced modulo 10.
RECURSIVE CarryLoopNoMod(_, _, _)
CarryLoopNoMod(t, i, carry) ==
  IF i = 0 THEN t
  ELSE CarryLoopNoMod([t EXCEPT ![i] = t[i] + carry], i - 1,
                      IF t[i] = 9 THEN 1 ELSE 0)

\* nextToken's loop, from the least significant digit: the digit becomes
\* (digit + carry) % 10 and the next carry is whether the digit was '9'.
RECURSIVE CarryLoop(_, _, _)
CarryLoop(t, i, carry) ==
  IF i = 0 THEN t
  ELSE CarryLoop([t EXCEPT ![i] = (t[i] + carry) % 10], i - 1,
                 IF t[i] = 9 THEN 1 ELSE 0)

\* nextToken: the counter is advanced and the advanced value returned.
NextToken(t) == CarryLoop(t, Digits, 1)

\* The increment nextToken is documented to perform.
Successor(t) ==
  LET n == (TokenValue(t) + 1) % TokenSpace
  IN [i \in 1..Digits |-> (n \div 10^(Digits - i)) % 10]

WithinRange(index) == index < OrdersSize

\* getOrder: the slot's record; an untouched slot is value-initialised.
Slot(index) ==
  IF index \in DOMAIN slots THEN slots[index] ELSE [qty |-> 0, valid |-> TRUE]

\* orderAccepted: outside the array the order is dropped; otherwise the
\* slot's quantity is set (is_valid is left as it was).
OrderAccepted(t, q) ==
  LET index == TokenValue(t) IN
  slots' = IF WithinRange(index)
           THEN (index :> [Slot(index) EXCEPT !.qty = q]) @@ slots
           ELSE slots

\* Mutant: the traded quantity is not taken off.
OrderExecutedNoDecrement(t, q) ==
  LET index == TokenValue(t) IN
  slots' = IF WithinRange(index)
           THEN (index :> [Slot(index) EXCEPT !.valid = (Slot(index).qty # 0 /\ @)]) @@ slots
           ELSE slots

\* orderExecuted: unsigned decrement with no check, invalid at 0.
OrderExecuted(t, q) ==
  LET index == TokenValue(t)
      left  == (Slot(index).qty - q) % QtyModulus
  IN
  slots' = IF WithinRange(index)
           THEN (index :> [qty |-> left, valid |-> Slot(index).valid /\ left # 0]) @@ slots
           ELSE slots

\* orderDeleted (cancel or reject): the slot is marked invalid.
OrderDeleted(t) ==
  LET index == TokenValue(t) IN
  slots' = IF WithinRange(index)
           THEN (index :> [Slot(index) EXCEPT !.valid = FALSE]) @@ slots
           ELSE slots

\* Mutant: the destructor's parse loop stops one digit short.
SaveTokenIndexShort(t) == (TokenValue(t) \div 10) % 2^IndexBits

\* The destructor: the counter, parsed into a uint32_t, is written out.
SaveTokenIndex(t) == TokenValue(t) % 2^IndexBits

-----------------------------------------------------------------------------
(* Frames on the connection: SoupBinTCP packets and the OUCH messages      *)
(* they carry, reduced to the fields the session reads.                    *)

EnterOrderMsg == [type : {"Enter"}, tok : Token, qty : 1..EnterQty]

ReplaceOrderMsg == [type : {"Replace"}, tok : Token, repl : Token]

CancelOrderMsg == [type : {"Cancel"}, tok : Token]

ClientFrames ==
  [type : {"LoginRequest", "ClientHeartbeat"}] \cup EnterOrderMsg \cup ReplaceOrderMsg \cup CancelOrderMsg

OrderAcceptedMsg == [type : {"Accepted"}, tok : Token, qty : 1..EnterQty]

\* OrderExecuted carries the traded quantity.
OrderExecutedMsg == [type : {"Executed"}, tok : Token, qty : 1..EnterQty]

OrderCanceledMsg == [type : {"Canceled"}, tok : Token]

OrderRejectedMsg == [type : {"Rejected"}, tok : Token]

ExchFrames ==
  [type : {"LoginAccepted", "LoginRejected", "ServerHeartbeat"}] \cup [type : {"Replaced"}, tok : Token]
    \cup OrderAcceptedMsg \cup OrderExecutedMsg \cup OrderCanceledMsg \cup OrderRejectedMsg

-----------------------------------------------------------------------------
(* The process: construction and login, and its end.                       *)

\* BistMarketAccessor's constructor: a fresh OrderManager seeded from
\* last_order_token_index, the TcpClient connected, and the reader thread
\* started on the new connection.
BistMarketAccessorCtor(seed) ==
  /\ token' = CtorToken(seed)
  /\ slots' = <<>>
  /\ replaceMap' = <<>>
  /\ session' = "Disconnected"

\* trading_client main: the accessor is constructed from the seed, and
\* login() writes the LoginRequest.
Start ==
  /\ ~alive
  /\ runs < MaxRuns
  /\ alive' = TRUE
  /\ runs' = runs + 1
  /\ BistMarketAccessorCtor(IF SeedFromFile THEN saved ELSE AppSeed)
  /\ toExch' = <<[type |-> "LoginRequest"]>>
  /\ toClient' = <<>>
  /\ runFrom' = Len(issued) + 1
  /\ UNCHANGED <<saved, exch, issued>>

\* The process ends and its connection with it.  Only through the
\* destructors is the counter written to app_parameters.json.
Exit ==
  /\ alive
  /\ alive' = FALSE
  /\ saved' = IF GracefulExit THEN SaveTokenIndex(token) ELSE saved
  /\ toExch' = <<>>
  /\ toClient' = <<>>
  /\ UNCHANGED <<runs, omVars, session, exch, issued, runFrom>>

-----------------------------------------------------------------------------
(* The reader thread: TcpClient::handleMessage on the frame at the head of *)
(* the stream, with every call it makes.                                   *)

\* The frame at the head of a stream, if any.
Pending(ch) == IF ch = <<>> THEN {} ELSE {Head(ch)}

ClientRead ==
  /\ alive
  /\ toClient' = Tail(toClient)

\* sendEnterOrder: a new token from nextToken, the Enter frame written.
SendEnterOrder ==
  /\ token' = NextToken(token)
  /\ issued' = Append(issued, TokenValue(NextToken(token)))
  /\ toExch' = Append(toExch, [type |-> "Enter", tok |-> NextToken(token), qty |-> EnterQty])

\* pendingReplace: the (original, replacement) pair is appended.
PendingReplace(orig, repl) == replaceMap' = Append(replaceMap, <<orig, repl>>)

\* sendReplaceOrder: a new token, the pending replacement recorded, the
\* Replace frame written.
SendReplaceOrder(orig) ==
  /\ token' = NextToken(token)
  /\ issued' = Append(issued, TokenValue(NextToken(token)))
  /\ PendingReplace(orig, NextToken(token))
  /\ toExch' = Append(toExch, [type |-> "Replace", tok |-> orig, repl |-> NextToken(token)])

\* sendCancelOrder: the Cancel frame for the given token is written.
SendCancelOrder(t) == toExch' = Append(toExch, [type |-> "Cancel", tok |-> t])

\* LoginAccepted -> onLoginAccepted: Continuous, then sendEnterOrder.
HandleLoginAccepted(f) ==
  /\ f.type = "LoginAccepted"
  /\ ClientRead
  /\ session' = "Continuous"
  /\ SendEnterOrder
  /\ UNCHANGED <<alive, runs, saved, slots, replaceMap, exch, runFrom>>

\* LoginRejected: the reason is printed; onLoginRejected is not called.
HandleLoginRejected(f) ==
  /\ f.type = "LoginRejected"
  /\ ClientRead
  /\ UNCHANGED <<alive, runs, saved, omVars, session, toExch, exch, issued, runFrom>>

\* OrderAccepted -> orderAccepted, then sendReplaceOrder at the test price.
HandleAccepted(f) ==
  /\ f.type = "Accepted"
  /\ ClientRead
  /\ OrderAccepted(f.tok, f.qty)
  /\ SendReplaceOrder(f.tok)
  /\ UNCHANGED <<alive, runs, saved, session, exch, runFrom>>

HandleExecuted(f) ==
  /\ f.type = "Executed"
  /\ ClientRead
  /\ OrderExecuted(f.tok, f.qty)
  /\ UNCHANGED <<alive, runs, saved, token, replaceMap, session, toExch, exch, issued, runFrom>>

\* OrderReplaced: orderReplaced is commented out; sendCancelOrder for the
\* replacement token.
\* Mutant: only the commented-out orderReplaced, no cancel of the replacement.
HandleReplacedNoCancel(f) ==
  /\ f.type = "Replaced"
  /\ ClientRead
  /\ UNCHANGED <<alive, runs, saved, omVars, session, toExch, exch, issued, runFrom>>

HandleReplaced(f) ==
  /\ f.type = "Replaced"
  /\ ClientRead
  /\ SendCancelOrder(f.tok)
  /\ UNCHANGED <<alive, runs, saved, omVars, session, exch, issued, runFrom>>

\* OrderCanceled: the message is decoded and logged only.
HandleCanceled(f) ==
  /\ f.type = "Canceled"
  /\ ClientRead
  /\ UNCHANGED <<alive, runs, saved, omVars, session, toExch, exch, issued, runFrom>>

\* ServerHeartbeat: a ClientHeartbeat is written from the reader thread.
HandleServerHeartbeat(f) ==
  /\ f.type = "ServerHeartbeat"
  /\ ClientRead
  /\ toExch' = Append(toExch, [type |-> "ClientHeartbeat"])
  /\ UNCHANGED <<alive, runs, saved, omVars, session, exch, issued, runFrom>>

HandleRejected(f) ==
  /\ f.type = "Rejected"
  /\ ClientRead
  /\ OrderDeleted(f.tok)
  /\ UNCHANGED <<alive, runs, saved, token, replaceMap, session, toExch, exch, issued, runFrom>>

-----------------------------------------------------------------------------
(* The exchange: an OUCH gateway that reads the client's frames in order   *)
(* and may execute any live order.  A token it has seen before is          *)
(* rejected, as is a replace of an order no longer live; a cancel of such  *)
(* an order is ignored.                                                    *)

Live(t) == t \in DOMAIN exch /\ exch[t].status = "live"

Reply(f) == toClient' = Append(toClient, f)

ExchLogin(f) ==
  /\ f.type = "LoginRequest"
  /\ \E ok \in BOOLEAN :
       Reply([type |-> IF ok THEN "LoginAccepted" ELSE "LoginRejected"])
  /\ UNCHANGED exch

ExchEnter(f) ==
  /\ f.type = "Enter"
  /\ IF f.tok \in DOMAIN exch
     THEN /\ Reply([type |-> "Rejected", tok |-> f.tok])
          /\ UNCHANGED exch
     ELSE \/ /\ exch' = (f.tok :> [status |-> "live", left |-> f.qty]) @@ exch
             /\ Reply([type |-> "Accepted", tok |-> f.tok, qty |-> f.qty])
          \/ /\ exch' = (f.tok :> [status |-> "rejected", left |-> 0]) @@ exch
             /\ Reply([type |-> "Rejected", tok |-> f.tok])

\* The replacement takes over the order's remaining quantity.
ExchReplace(f) ==
  /\ f.type = "Replace"
  /\ IF Live(f.tok) /\ f.repl \notin DOMAIN exch
     THEN /\ exch' = (f.repl :> [status |-> "live", left |-> exch[f.tok].left])
                       @@ [exch EXCEPT ![f.tok] = [status |-> "replaced", left |-> 0]]
          /\ Reply([type |-> "Replaced", tok |-> f.repl])
     ELSE /\ UNCHANGED exch
          /\ Reply([type |-> "Rejected", tok |-> f.repl])

ExchCancel(f) ==
  /\ f.type = "Cancel"
  /\ IF Live(f.tok)
     THEN /\ exch' = [exch EXCEPT ![f.tok] = [status |-> "canceled", left |-> 0]]
          /\ Reply([type |-> "Canceled", tok |-> f.tok])
     ELSE UNCHANGED <<exch, toClient>>

\* A SoupBinTCP server sends a heartbeat after a second of silence; the
\* model keeps at most one outstanding, in either direction.
HeartbeatOutstanding ==
  \E f \in Range(toClient) \cup Range(toExch) :
    f.type \in {"ServerHeartbeat", "ClientHeartbeat"}

ExchHeartbeat ==
  /\ alive
  /\ ~HeartbeatOutstanding
  /\ Reply([type |-> "ServerHeartbeat"])
  /\ UNCHANGED <<alive, runs, saved, omVars, session, toExch, exch, issued, runFrom>>

\* A ClientHeartbeat only restarts the gateway's idle timer.
ExchClientHeartbeat(f) ==
  /\ f.type = "ClientHeartbeat"
  /\ UNCHANGED <<exch, toClient>>

\* The exchange reads the client's next frame and handles it.
ExchRecv(f) ==
  /\ toExch' = Tail(toExch)
  /\ UNCHANGED <<alive, runs, saved, omVars, session, issued, runFrom>>

ExchExecute(t, q) ==
  /\ Live(t)
  /\ q <= exch[t].left
  /\ exch' = [exch EXCEPT ![t] = [status |-> IF @.left = q THEN "executed" ELSE "live",
                                  left |-> @.left - q]]
  /\ Reply([type |-> "Executed", tok |-> t, qty |-> q])
  /\ UNCHANGED <<alive, runs, saved, omVars, session, issued, toExch, runFrom>>

-----------------------------------------------------------------------------

Next ==
  \/ Start
  \/ Exit
  \/ \E f \in Pending(toClient) : HandleLoginAccepted(f)
  \/ \E f \in Pending(toClient) : HandleLoginRejected(f)
  \/ \E f \in Pending(toClient) : HandleAccepted(f)
  \/ \E f \in Pending(toClient) : HandleExecuted(f)
  \/ \E f \in Pending(toClient) : HandleReplaced(f)
  \/ \E f \in Pending(toClient) : HandleCanceled(f)
  \/ \E f \in Pending(toClient) : HandleRejected(f)
  \/ \E f \in Pending(toClient) : HandleServerHeartbeat(f)
  \/ \E f \in Pending(toExch) : ExchRecv(f) /\ ExchLogin(f)
  \/ \E f \in Pending(toExch) : ExchRecv(f) /\ ExchEnter(f)
  \/ \E f \in Pending(toExch) : ExchRecv(f) /\ ExchReplace(f)
  \/ \E f \in Pending(toExch) : ExchRecv(f) /\ ExchCancel(f)
  \/ \E f \in Pending(toExch) : ExchRecv(f) /\ ExchClientHeartbeat(f)
  \/ ExchHeartbeat
  \/ \E t \in DOMAIN exch, q \in 1..EnterQty : ExchExecute(t, q)

\* One step of the reader thread, and one read of the exchange.
ReaderStep ==
  \E f \in Pending(toClient) :
    \/ HandleLoginAccepted(f) \/ HandleLoginRejected(f) \/ HandleAccepted(f)
    \/ HandleExecuted(f) \/ HandleReplaced(f) \/ HandleCanceled(f) \/ HandleRejected(f)
    \/ HandleServerHeartbeat(f)

ExchangeStep ==
  \E f \in Pending(toExch) :
    ExchRecv(f) /\ (ExchLogin(f) \/ ExchEnter(f) \/ ExchReplace(f) \/ ExchCancel(f)
                   \/ ExchClientHeartbeat(f))

\* The reader thread blocks only in read(), so a frame that has arrived is
\* handled; the exchange answers what it reads.  Starting, ending a
\* process and executing an order are never forced.
Fairness == WF_vars(ReaderStep) /\ WF_vars(ExchangeStep)

Spec == Init /\ [][Next]_vars /\ Fairness

-----------------------------------------------------------------------------
(* Properties                                                              *)

OETypeOK ==
  /\ alive \in BOOLEAN
  /\ runs \in 0..MaxRuns
  /\ saved \in 0..(2^IndexBits - 1)
  /\ token \in Token
  /\ \A i \in DOMAIN slots : i \in 0..(OrdersSize - 1)
                             /\ slots[i] \in [qty : 0..(QtyModulus - 1), valid : BOOLEAN]
  /\ replaceMap \in Seq(Token \X Token)
  /\ session \in {"Continuous", "Disconnected"}
  /\ toExch \in Seq(ClientFrames)
  /\ toClient \in Seq(ExchFrames)
  /\ issued \in Seq(0..(TokenSpace - 1))

\* No order token is handed out twice, in one process or across restarts:
\* the counter seeded from app_parameters.json always starts above every
\* token an earlier process used.
TokensNeverReused == IsInjective(issued)

\* When the client has read every frame the exchange sent, the slot of each
\* order the exchange holds under the token it was entered with has the
\* exchange's remaining quantity and is valid: orderAccepted and
\* orderExecuted track the order.
Quiescent == alive /\ toClient = <<>>

\* Tokens this process handed out.
OwnToken(t) == \E i \in runFrom..Len(issued) : issued[i] = TokenValue(t)

EnteredLive ==
  {t \in DOMAIN exch : /\ Live(t)
                       /\ OwnToken(t)
                       /\ \A i \in 1..Len(replaceMap) : replaceMap[i][2] # t}

QuiescentSlotsMatch ==
  Quiescent =>
    \A t \in EnteredLive :
      WithinRange(TokenValue(t)) =>
        Slot(TokenValue(t)) = [qty |-> exch[t].left, valid |-> TRUE]

\* The orders of the running process that rest at the exchange.
OwnLive == {t \in DOMAIN exch : Live(t) /\ OwnToken(t)}

\* The session winds down what it enters: whenever the running process has
\* orders resting at the exchange, eventually it has none, or it ended.
\* onLoginAccepted enters, OrderAccepted replaces, OrderReplaced cancels
\* the replacement, across reader thread and exchange.
OrdersWoundDown == (OwnLive # {}) ~> (OwnLive = {} \/ ~alive)

\* Every nextToken call moves the counter to its decimal successor.
SequentialTokens ==
  [][alive /\ alive' /\ token' # token => token' = Successor(token)]_token

=============================================================================
