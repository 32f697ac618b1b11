------------------------- MODULE MockTraderProofs -------------------------
(***************************************************************************)
(* Theorems about MockTraderApi, for every set of calls, threads, requests *)
(* and control calls.                                                      *)
(***************************************************************************)
EXTENDS MockTraderApi, TLAPS

-----------------------------------------------------------------------------
(* Steps that leave part of the state alone *)

callVars == <<pc, stacks, locals, result>>
bookVars == <<counters, book, reports, orders_mutex>>
sessionVars == <<session, settings, controls>>

\* A call, whether it starts, moves or returns, changes neither connection nor settings.
LEMMA CallsKeepSession ==
  ASSUME \/ \E t \in Threads, c \in Calls, r \in Requests : SendOrder(t, c, r)
         \/ \E t \in Threads, c \in Calls, id \in CancelIds : CancelOrder(t, c, id)
         \/ \E c \in Calls : Step(c)
  PROVE  UNCHANGED sessionVars
<1>1. ASSUME NEW c \in Calls, SendStep(c) PROVE UNCHANGED sessionVars
  BY <1>1 DEF SendStep, SendId, SendBump, SendLock, SendInsert, SendReport, OnOrderReturns,
     SendWithoutFill, SendFill, SendTrade, SendLockFill, SendStore, sessionVars
<1>2. ASSUME NEW c \in Calls, CancelStep(c) PROVE UNCHANGED sessionVars
  BY <1>2 DEF CancelStep, CancelLock, CancelRefuse, CancelApply, CancelReport, CancelReturn,
     sessionVars
<1> QED BY <1>1, <1>2 DEF Step, SendOrder, CancelOrder, Begin, sessionVars

\* A control call changes nothing of the book and of the calls.
LEMMA ControlsKeepCalls == Manage => UNCHANGED <<bookVars, callVars>>
BY DEF Manage, Connect, Disconnect, Login, Logout, RegisterSpi, UnregisterSpi,
   SetSoftwareVersion, SetOrderCallback, SetTradeCallback, SetAutoFill, Control,
   bookVars, callVars

-----------------------------------------------------------------------------
(* Types *)

\* The calls keep their types.
LEMMA CallsTypeStep ==
  ASSUME CallsTypeOK, BookTypeOK, [Next]_vars PROVE CallsTypeOK'
<1> USE SetsAssumption, RequestsAssumption DEF CallsTypeOK
<1>1. ASSUME NEW t \in Threads, NEW c \in Calls, NEW r \in Requests, SendOrder(t, c, r)
      PROVE  CallsTypeOK'
  BY <1>1 DEF SendOrder, Begin, Places, SendPlaces, CancelPlaces, ErrorCodes
<1>2. ASSUME NEW t \in Threads, NEW c \in Calls, NEW id \in CancelIds, CancelOrder(t, c, id)
      PROVE  CallsTypeOK'
  BY <1>2 DEF CancelOrder, Begin, Places, SendPlaces, CancelPlaces, ErrorCodes
<1>3. ASSUME NEW c \in Calls, SendStep(c) PROVE CallsTypeOK'
  <2> USE <1>3 DEF stacks, locals, Places, SendPlaces, CancelPlaces, Goto, Return, ErrorCodes
  <2>1. CASE SendId(c)
    <3>1. request[c] \in Requests
      BY <2>1 DEF SendId
    <3>2. broker_order_id' \in [Calls -> Nat]
      BY <2>1, <3>1 DEF SendId, BookTypeOK
    <3> QED BY <2>1, <3>2 DEF SendId
  <2>2. CASE SendBump(c)
    BY <2>2 DEF SendBump
  <2>3. CASE SendLock(c)
    BY <2>3 DEF SendLock
  <2>4. CASE SendInsert(c)
    BY <2>4 DEF SendInsert
  <2>5. CASE SendReport(c)
    BY <2>5 DEF SendReport
  <2>6. CASE OnOrderReturns(c)
    BY <2>6 DEF OnOrderReturns
  <2>7. CASE SendWithoutFill(c)
    BY <2>7 DEF SendWithoutFill
  <2>8. CASE SendFill(c)
    BY <2>8 DEF SendFill, BookTypeOK
  <2>9. CASE SendTrade(c)
    BY <2>9 DEF SendTrade
  <2>10. CASE SendLockFill(c)
    BY <2>10 DEF SendLockFill
  <2>11. CASE SendStore(c)
    BY <2>11 DEF SendStore
  <2> QED BY <2>1, <2>2, <2>3, <2>4, <2>5, <2>6, <2>7, <2>8, <2>9, <2>10, <2>11 DEF SendStep
<1>4. ASSUME NEW c \in Calls, CancelStep(c) PROVE CallsTypeOK'
  BY <1>4 DEF CancelStep, CancelLock, CancelRefuse, CancelApply, CancelReport, CancelReturn,
     stacks, locals, Places, SendPlaces, CancelPlaces, Goto, Return, ErrorCodes
<1>5. CASE Manage
  BY <1>5, ControlsKeepCalls DEF callVars, stacks, locals
<1>6. CASE UNCHANGED vars
  BY <1>6 DEF vars, stacks, locals
<1> QED BY <1>1, <1>2, <1>3, <1>4, <1>5, <1>6 DEF Next, Step, Finished

\* The book keeps its type.
LEMMA BookTypeStep ==
  ASSUME CallsTypeOK, BookTypeOK, [Next]_vars PROVE BookTypeOK'
<1> USE SetsAssumption, RequestsAssumption DEF BookTypeOK
<1>1. ASSUME NEW t \in Threads, NEW c \in Calls, NEW r \in Requests, SendOrder(t, c, r)
      PROVE  BookTypeOK'
  BY <1>1 DEF SendOrder, Begin, counters, book, CallsTypeOK, Order
<1>2. ASSUME NEW t \in Threads, NEW c \in Calls, NEW id \in CancelIds, CancelOrder(t, c, id)
      PROVE  BookTypeOK'
  BY <1>2 DEF CancelOrder, Begin, counters, book
<1>3. ASSUME NEW c \in Calls, SendStep(c) PROVE BookTypeOK'
  <2> USE <1>3 DEF counters, book, locals
  <2>1. CASE SendId(c)
    BY <2>1 DEF SendId
  <2>2. CASE SendBump(c)
    BY <2>2 DEF SendBump, CallsTypeOK
  <2>3. CASE SendLock(c)
    BY <2>3 DEF SendLock, Lock
  <2>4. CASE SendInsert(c)
    <3>1. /\ request[c] \in Requests /\ broker_order_id[c] \in Nat
          /\ NewOrder(c) \in Order /\ NewOrder(c).client_order_id = c
      BY <2>4 DEF SendInsert, Goto, CallsTypeOK, SendPlaces, NewOrder, Order
    <3>2. /\ DOMAIN orders' = DOMAIN orders \cup {broker_order_id[c]}
          /\ \A id \in DOMAIN orders' :
               orders'[id] = IF id = broker_order_id[c] THEN NewOrder(c) ELSE orders[id]
          /\ orders' = [id \in DOMAIN orders' |-> orders'[id]]
      BY <2>4 DEF SendInsert, Put
    <3>3. \A id \in DOMAIN orders' : /\ orders'[id] \in Order
                                     /\ request[orders'[id].client_order_id] \in Requests
      BY <3>1, <3>2
    <3>4. orders' \in [DOMAIN orders' -> Order]
      BY <3>2, <3>3
    <3> QED BY <2>4, <3>1, <3>2, <3>3, <3>4 DEF SendInsert, Unlock
  <2>5. CASE SendReport(c)
    <3>1. Reported("queued", c) \in Seq(Report)
      BY DEF Reported, Report, CallsTypeOK
    <3> QED BY <2>5, <3>1 DEF SendReport
  <2>6. CASE OnOrderReturns(c)
    BY <2>6 DEF OnOrderReturns
  <2>7. CASE SendWithoutFill(c)
    BY <2>7 DEF SendWithoutFill
  <2>8. CASE SendFill(c)
    BY <2>8 DEF SendFill
  <2>9. CASE SendTrade(c)
    BY <2>9 DEF SendTrade, Reported, Report, CallsTypeOK
  <2>10. CASE SendLockFill(c)
    BY <2>10 DEF SendLockFill, Lock
  <2>11. CASE SendStore(c)
    <3> DEFINE id == broker_order_id[c]
    <3>1. id \in DOMAIN orders /\ orders[id] \in Order
          /\ request[orders[id].client_order_id] \in Requests
      BY <2>11 DEF SendStore
    <3>2. /\ Filled(orders[id]) \in Order
          /\ Filled(orders[id]).client_order_id = orders[id].client_order_id
      BY <3>1 DEF Filled, Order, FinalStatus
    <3>3. /\ orders' \in [DOMAIN orders -> Order]
          /\ \A i \in DOMAIN orders' : request[orders'[i].client_order_id] \in Requests
      BY <2>11, <3>1, <3>2 DEF SendStore
    <3>4. trades' \in Seq(Trade)
      BY <2>11, <3>1 DEF SendStore, TradeOf, Trade, CallsTypeOK
    <3> QED BY <2>11, <3>3, <3>4 DEF SendStore, Unlock
  <2> QED BY <2>1, <2>2, <2>3, <2>4, <2>5, <2>6, <2>7, <2>8, <2>9, <2>10, <2>11 DEF SendStep
<1>4. ASSUME NEW c \in Calls, CancelStep(c) PROVE BookTypeOK'
  <2> USE <1>4 DEF counters, book, locals
  <2>1. CASE CancelLock(c)
    BY <2>1 DEF CancelLock, Lock
  <2>2. CASE CancelRefuse(c)
    BY <2>2 DEF CancelRefuse, Unlock
  <2>3. CASE CancelApply(c)
    <3> DEFINE id == broker_order_id[c]
    <3>1. id \in DOMAIN orders /\ orders[id] \in Order
      BY <2>3 DEF CancelApply
    <3>2. /\ Canceled(orders[id]) \in Order
          /\ Canceled(orders[id]).client_order_id = orders[id].client_order_id
      BY <3>1 DEF Canceled, Order, FinalStatus
    <3>3. /\ orders' \in [DOMAIN orders -> Order]
          /\ \A i \in DOMAIN orders' : request[orders'[i].client_order_id] \in Requests
      BY <2>3, <3>1, <3>2 DEF CancelApply
    <3> QED BY <2>3, <3>3 DEF CancelApply, Unlock
  <2>4. CASE CancelReport(c)
    BY <2>4 DEF CancelReport, Reported, Report, CallsTypeOK
  <2>5. CASE CancelReturn(c)
    BY <2>5 DEF CancelReturn
  <2> QED BY <2>1, <2>2, <2>3, <2>4, <2>5 DEF CancelStep
<1>5. CASE Manage
  BY <1>5, ControlsKeepCalls DEF bookVars, callVars, counters, book, locals
<1>6. CASE UNCHANGED vars
  BY <1>6 DEF vars, counters, book, locals
<1> QED BY <1>1, <1>2, <1>3, <1>4, <1>5, <1>6 DEF Next, Step, Finished

\* Connection and settings keep their types.
LEMMA SessionTypeStep ==
  ASSUME SessionTypeOK, [Next]_vars PROVE SessionTypeOK'
<1> USE SetsAssumption DEF SessionTypeOK, session, settings
<1>1. CASE UNCHANGED sessionVars
  BY <1>1 DEF sessionVars
<1>2. CASE Manage
  <2>1. controls' \in 0 .. MaxControls
    BY <1>2 DEF Manage, Connect, Disconnect, Login, Logout, RegisterSpi, UnregisterSpi,
       SetSoftwareVersion, SetOrderCallback, SetTradeCallback, SetAutoFill, Control
  <2> QED BY <1>2, <2>1 DEF Manage, Connect, Disconnect, Login, Logout, RegisterSpi,
             UnregisterSpi, SetSoftwareVersion, SetOrderCallback, SetTradeCallback,
             SetAutoFill, PublishConnected
<1>3. CASE UNCHANGED vars
  BY <1>3 DEF vars
<1> QED BY <1>1, <1>2, <1>3, CallsKeepSession DEF Next, Finished

\* The API's state always has its type.
THEOREM TypeCorrect == Spec => []TypeOK
<1>1. Init => TypeOK
  <2> SUFFICES ASSUME Init PROVE TypeOK
    OBVIOUS
  <2>1. SessionTypeOK
    <3>1. controls \in 0 .. MaxControls
      BY SetsAssumption DEF Init
    <3> QED BY Zenon, <3>1 DEF Init, SessionTypeOK
  <2>2. BookTypeOK
    <3>1. DOMAIN orders = {} /\ orders = [id \in DOMAIN orders |-> orders[id]]
      BY Zenon DEF Init
    <3> QED BY <3>1 DEF Init, BookTypeOK
  <2>3. CallsTypeOK
    BY SetsAssumption DEF Init, CallsTypeOK, Places, SendPlaces, CancelPlaces
  <2> QED BY <2>1, <2>2, <2>3 DEF TypeOK
<1>2. TypeOK /\ [Next]_vars => TypeOK'
  BY SessionTypeStep, BookTypeStep, CallsTypeStep DEF TypeOK
<1> QED BY <1>1, <1>2, PTL DEF Spec


-----------------------------------------------------------------------------
(* The fill finds its order *)

\* No step removes an order from the book.
LEMMA OrdersStay == ASSUME [Next]_vars PROVE DOMAIN orders \subseteq DOMAIN orders'
<1>1. ASSUME NEW c \in Calls, Step(c) PROVE DOMAIN orders \subseteq DOMAIN orders'
  BY <1>1 DEF Step, SendStep, SendId, SendBump, SendLock, SendInsert, SendReport,
     OnOrderReturns, SendWithoutFill, SendFill, SendTrade, SendLockFill, SendStore,
     CancelStep, CancelLock, CancelRefuse, CancelApply, CancelReport, CancelReturn,
     Put, book
<1>2. CASE Manage
  BY <1>2, ControlsKeepCalls DEF bookVars, book
<1>3. CASE UNCHANGED vars
  BY <1>3 DEF vars, book
<1> QED BY <1>1, <1>2, <1>3 DEF Next, Finished, SendOrder, CancelOrder, Begin, book

\* An order id is the caller's or the counter's, and stays with its call.
LEMMA IdsStay ==
  ASSUME CallsTypeOK, [Next]_vars, NEW c \in Calls, pc[c] \notin {"new", "send_id"}
  PROVE  broker_order_id'[c] = broker_order_id[c]
<1> USE DEF CallsTypeOK, locals
<1>1. ASSUME NEW d \in Calls, Step(d) PROVE broker_order_id'[c] = broker_order_id[c]
  <2>1. CASE SendId(d)
    BY <2>1 DEF SendId, Goto
  <2> QED BY <1>1, <2>1 DEF Step, SendStep, SendBump, SendLock, SendInsert, SendReport,
     OnOrderReturns, SendWithoutFill, SendFill, SendTrade, SendLockFill, SendStore,
     CancelStep, CancelLock, CancelRefuse, CancelApply, CancelReport, CancelReturn
<1>2. CASE Manage
  BY <1>2, ControlsKeepCalls DEF callVars
<1>3. CASE UNCHANGED vars
  BY <1>3 DEF vars
<1> QED BY <1>1, <1>2, <1>3 DEF Next, Finished, SendOrder, CancelOrder, Begin

\* A SendOrder call is past its first section only if it has just inserted its
\* order, or was so already.
LEMMA OpenedByInsert ==
  ASSUME CallsTypeOK, [Next]_vars, NEW c \in Calls, pc'[c] \in Open
  PROVE  pc[c] \in Open \/ SendInsert(c)
<1> USE DEF CallsTypeOK, Open
<1>1. ASSUME NEW t \in Threads, NEW d \in Calls, NEW r \in Requests, SendOrder(t, d, r)
      PROVE  pc[c] \in Open
  BY <1>1 DEF SendOrder, Begin
<1>2. ASSUME NEW t \in Threads, NEW d \in Calls, NEW id \in CancelIds, CancelOrder(t, d, id)
      PROVE  pc[c] \in Open
  BY <1>2 DEF CancelOrder, Begin
<1>3. ASSUME NEW d \in Calls, SendStep(d) PROVE pc[c] \in Open \/ SendInsert(c)
  <2>1. CASE SendId(d) \/ SendBump(d) \/ SendLock(d) \/ SendInsert(d)
    BY <2>1 DEF SendId, SendBump, SendLock, SendInsert, Goto
  <2>2. CASE \/ SendReport(d) \/ OnOrderReturns(d) \/ SendWithoutFill(d) \/ SendFill(d)
             \/ SendTrade(d) \/ SendLockFill(d) \/ SendStore(d)
    BY <2>2 DEF SendReport, OnOrderReturns, SendWithoutFill, SendFill, SendTrade,
       SendLockFill, SendStore, Goto, Return
  <2> QED BY <1>3, <2>1, <2>2 DEF SendStep
<1>4. ASSUME NEW d \in Calls, CancelStep(d) PROVE pc[c] \in Open
  BY <1>4 DEF CancelStep, CancelLock, CancelRefuse, CancelApply, CancelReport,
     CancelReturn, Goto, Return
<1>5. CASE Manage
  BY <1>5, ControlsKeepCalls DEF callVars
<1>6. CASE UNCHANGED vars
  BY <1>6 DEF vars
<1> QED BY <1>1, <1>2, <1>3, <1>4, <1>5, <1>6 DEF Next, Step, Finished

\* orders_.at in SendOrder's second section never throws: even when threads send
\* at once, ids collide, callbacks nest and the connection drops, the fill finds an
\* order with its id.
THEOREM FillIsSafe == Spec => []FillFindsItsOrder
<1>1. Init => FillFindsItsOrder
  BY DEF Init, FillFindsItsOrder, Open
<1>2. ASSUME TypeOK, FillFindsItsOrder, [Next]_vars PROVE FillFindsItsOrder'
  <2> SUFFICES ASSUME NEW c \in Calls, pc'[c] \in Open
               PROVE  broker_order_id'[c] \in DOMAIN orders'
    BY DEF FillFindsItsOrder, Open
  <2>1. CASE pc[c] \in Open
    <3>1. broker_order_id[c] \in DOMAIN orders
      BY <1>2, <2>1 DEF FillFindsItsOrder
    <3>2. broker_order_id'[c] = broker_order_id[c]
      BY <1>2, <2>1, IdsStay DEF Open, TypeOK
    <3> QED BY <1>2, <3>1, <3>2, OrdersStay
  <2>2. CASE SendInsert(c)
    BY <2>2 DEF SendInsert, Put, locals
  <2> QED BY <1>2, <2>1, <2>2, OpenedByInsert DEF TypeOK
<1> QED BY <1>1, <1>2, TypeCorrect, PTL DEF Spec


-----------------------------------------------------------------------------
(* No reported trade is lost *)

Storing == {"on_trade", "send_store"}

\* trades_ gets the trade of one call at its end, or stays as it is.
LEMMA TradesMove ==
  ASSUME [Next]_vars
  PROVE  \/ trades' = trades /\ \A c \in Calls : ~ SendStore(c)
         \/ \E c \in Calls : SendStore(c) /\ trades' = Append(trades, TradeOf(c))
<1> USE DEF book
<1>1. ASSUME NEW c \in Calls, Step(c), ~ SendStore(c) PROVE trades' = trades
  BY <1>1 DEF Step, SendStep, SendId, SendBump, SendLock, SendInsert, SendReport,
     OnOrderReturns, SendWithoutFill, SendFill, SendTrade, SendLockFill,
     CancelStep, CancelLock, CancelRefuse, CancelApply, CancelReport, CancelReturn
<1>2. ASSUME Manage PROVE trades' = trades
  BY <1>2, ControlsKeepCalls DEF bookVars
<1>3. ASSUME UNCHANGED vars PROVE trades' = trades
  BY <1>3 DEF vars
<1>4. ASSUME NEW c \in Calls, SendStore(c) PROVE trades' = Append(trades, TradeOf(c))
  BY <1>4 DEF SendStore
<1> QED BY <1>1, <1>2, <1>3, <1>4 DEF Next, Finished, SendOrder, CancelOrder, Begin

\* trades_ only grows, at its end.
LEMMA TradesGrow ==
  ASSUME BookTypeOK, [Next]_vars, NEW j \in DOMAIN trades
  PROVE  j \in DOMAIN trades' /\ trades'[j] = trades[j]
<1>1. CASE trades' = trades
  BY <1>1
<1>2. ASSUME NEW c \in Calls, trades' = Append(trades, TradeOf(c))
      PROVE  j \in DOMAIN trades' /\ trades'[j] = trades[j]
  BY <1>2 DEF BookTypeOK
<1> QED BY <1>1, <1>2, TradesMove

\* Three places report, each of its own call.
LEMMA ReportsMove ==
  ASSUME [Next]_vars
  PROVE  \/ reports' = reports
         \/ \E c \in Calls :
              \/ SendReport(c) /\ on_order /\ reports' = Reported("queued", c)
              \/ SendTrade(c) /\ reports' = Reported("traded", c)
              \/ CancelReport(c) /\ reports' = Reported("canceled", c)
<1>1. ASSUME NEW c \in Calls, Step(c), ~ SendReport(c), ~ SendTrade(c), ~ CancelReport(c)
      PROVE  reports' = reports
  BY <1>1 DEF Step, SendStep, SendId, SendBump, SendLock, SendInsert,
     OnOrderReturns, SendWithoutFill, SendFill, SendLockFill, SendStore,
     CancelStep, CancelLock, CancelRefuse, CancelApply, CancelReturn
<1>2. CASE Manage
  BY <1>2, ControlsKeepCalls DEF bookVars
<1>3. CASE UNCHANGED vars
  BY <1>3 DEF vars
<1>4. ASSUME NEW c \in Calls, SendReport(c)
      PROVE  IF on_order THEN reports' = Reported("queued", c) ELSE reports' = reports
  BY <1>4 DEF SendReport
<1>5. ASSUME NEW c \in Calls, SendTrade(c) PROVE reports' = Reported("traded", c)
  BY <1>5 DEF SendTrade
<1>6. ASSUME NEW c \in Calls, CancelReport(c) PROVE reports' = Reported("canceled", c)
  BY <1>6 DEF CancelReport
<1> QED BY <1>1, <1>2, <1>3, <1>4, <1>5, <1>6 DEF Next, Finished, SendOrder, CancelOrder, Begin

\* Only SendTrade tells a trade, that of its call.
LEMMA ToldMoves ==
  ASSUME BookTypeOK, [Next]_vars
  PROVE  /\ \A c \in Calls : SendTrade(c) => c \in Told'
         /\ Told \subseteq Told'
         /\ \A c \in Told' : c \in Told \/ (c \in Calls /\ SendTrade(c))
<1> DEFINE Tells(s) == {s[i].call : i \in {n \in DOMAIN s : s[n].event = "traded"}}
<1>1. \A event, c :
        Tells(Reported(event, c)) = IF event = "traded" THEN Tells(reports) \cup {c}
                                                        ELSE Tells(reports)
  <2> SUFFICES ASSUME NEW event, NEW c
               PROVE  Tells(Reported(event, c)) =
                        IF event = "traded" THEN Tells(reports) \cup {c} ELSE Tells(reports)
    OBVIOUS
  <2> DEFINE s == Reported(event, c)
             n == Len(reports) + 1
  <2>1. /\ DOMAIN s = DOMAIN reports \cup {n} /\ n \notin DOMAIN reports
        /\ \A i \in DOMAIN reports : s[i] = reports[i]
        /\ s[n] = [event |-> event, broker_order_id |-> broker_order_id[c], call |-> c]
    BY DEF Reported, BookTypeOK
  <2>2. s[n].event = event /\ s[n].call = c
    BY <2>1
  <2> HIDE DEF n
  <2> QED BY <2>1, <2>2
<1>2. Told = Tells(reports) /\ Told' = Tells(reports')
  BY DEF Told
<1>3. ASSUME NEW c \in Calls, SendTrade(c) PROVE reports' = Reported("traded", c)
  BY <1>3 DEF SendTrade
<1> HIDE DEF Tells
<1>4. CASE reports' = reports
  <2>1. ASSUME NEW c \in Calls, SendTrade(c) PROVE c \in Told'
    BY <1>1, <1>2, <1>3, <2>1
  <2> QED BY <1>2, <1>4, <2>1
<1>5. ASSUME NEW c \in Calls, NEW event \in {"queued", "canceled"}, reports' = Reported(event, c)
      PROVE  Told' = Told
  BY <1>1, <1>2, <1>5
<1>6. ASSUME NEW c \in Calls, SendTrade(c) PROVE Told' = Told \cup {c}
  BY <1>1, <1>2, <1>3, <1>6
<1> QED BY <1>2, <1>4, <1>5, <1>6, ReportsMove

\* Only calls store trades, and only calls have told one.
LEMMA TradesCalls ==
  ASSUME BookTypeOK PROVE \A j \in DOMAIN trades : trades[j].client_order_id \in Calls
<1> SUFFICES ASSUME NEW j \in DOMAIN trades PROVE trades[j].client_order_id \in Calls
  OBVIOUS
<1>1. trades[j] \in Trade
  BY DEF BookTypeOK
<1> QED BY <1>1 DEF Trade

LEMMA ToldCalls == ASSUME BookTypeOK PROVE Told \subseteq Calls
<1> SUFFICES ASSUME NEW c \in Told PROVE c \in Calls
  OBVIOUS
<1>1. PICK i \in DOMAIN reports : c = reports[i].call
  BY DEF Told
<1>2. reports[i] \in Report
  BY DEF BookTypeOK
<1> QED BY <1>1, <1>2 DEF Report

\* A call that has told its trade goes on to store it, and one that has returned keeps
\* what it told.
LEMMA StoringStep ==
  ASSUME CallsTypeOK, [Next]_vars, NEW c \in Calls
  PROVE  /\ pc[c] \in Storing => pc'[c] \in Storing \/ SendStore(c)
         /\ pc'[c] \in Storing => pc[c] \in Storing \/ SendTrade(c)
         /\ pc[c] = "done" => pc'[c] = "done"
         /\ pc[c] \in Storing \cup {"done"} => TradeOf(c)' = TradeOf(c)
<1> USE DEF CallsTypeOK, Storing, locals
<1> DEFINE Moves == /\ pc[c] \in Storing => pc'[c] \in Storing \/ SendStore(c)
                    /\ pc'[c] \in Storing => pc[c] \in Storing \/ SendTrade(c)
                    /\ pc[c] = "done" => pc'[c] = "done"
                    /\ pc[c] \in Storing \cup {"done"} => trade_id'[c] = trade_id[c]
<1>1. ASSUME NEW t \in Threads, NEW d \in Calls, NEW r \in Requests, SendOrder(t, d, r)
      PROVE  Moves
  BY <1>1 DEF SendOrder, Begin
<1>2. ASSUME NEW t \in Threads, NEW d \in Calls, NEW id \in CancelIds, CancelOrder(t, d, id)
      PROVE  Moves
  BY <1>2 DEF CancelOrder, Begin
<1>3. ASSUME NEW d \in Calls, SendStep(d) PROVE Moves
  <2>1. CASE SendId(d) \/ SendBump(d) \/ SendLock(d) \/ SendInsert(d)
    BY <2>1 DEF SendId, SendBump, SendLock, SendInsert, Goto
  <2>2. CASE SendReport(d) \/ OnOrderReturns(d) \/ SendWithoutFill(d) \/ SendFill(d)
    BY <2>2 DEF SendReport, OnOrderReturns, SendWithoutFill, SendFill, Goto, Return
  <2>3. CASE SendTrade(d)
    BY <2>3 DEF SendTrade, Goto
  <2>4. CASE SendLockFill(d)
    BY <2>4 DEF SendLockFill, Goto
  <2>5. CASE SendStore(d)
    BY <2>5 DEF SendStore, Return
  <2> QED BY <1>3, <2>1, <2>2, <2>3, <2>4, <2>5 DEF SendStep
<1>4. ASSUME NEW d \in Calls, CancelStep(d) PROVE Moves
  BY <1>4 DEF CancelStep, CancelLock, CancelRefuse, CancelApply, CancelReport,
     CancelReturn, Goto, Return
<1>5. ASSUME Manage PROVE Moves
  BY <1>5, ControlsKeepCalls DEF callVars
<1>6. ASSUME UNCHANGED vars PROVE Moves
  BY <1>6 DEF vars
<1>7. Moves
  BY <1>1, <1>2, <1>3, <1>4, <1>5, <1>6 DEF Next, Step, Finished
<1>8. pc[c] \in Storing \cup {"done"} => broker_order_id'[c] = broker_order_id[c]
  BY IdsStay
<1> QED BY <1>7, <1>8 DEF TradeOf

\* What makes it so: a call tells its trade before it stores it, and stores it last.
TradesInv ==
  /\ ReportedTradesAreStored
  /\ \A c \in Calls : pc[c] \in Storing => c \in Told
  /\ \A j \in DOMAIN trades : pc[trades[j].client_order_id] = "done"

\* Steps that store no trade.
LEMMA TradesInvTold ==
  ASSUME TypeOK, TradesInv, [Next]_vars, trades' = trades, \A c \in Calls : ~ SendStore(c)
  PROVE  TradesInv'
<1> USE DEF TypeOK
<1>1. \A j \in DOMAIN trades : trades[j].client_order_id \in Calls
  BY TradesCalls
<1>2. ASSUME NEW c \in Told'
      PROVE  pc'[c] \in Storing \/ \E j \in DOMAIN trades : trades[j] = TradeOf(c)'
  <2>1. CASE c \in Calls /\ SendTrade(c)
    BY <2>1 DEF SendTrade, Goto, Storing, CallsTypeOK
  <2>2. CASE c \in Told
    <3>1. c \in Calls
      BY <2>2, ToldCalls
    <3>2. CASE pc[c] \in Storing
      BY <3>1, <3>2, StoringStep
    <3>3. ASSUME NEW j \in DOMAIN trades, trades[j] = TradeOf(c) PROVE trades[j] = TradeOf(c)'
      <4>1. pc[c] = "done"
        BY <3>3 DEF TradesInv, TradeOf
      <4> QED BY <3>1, <3>3, <4>1, StoringStep
    <3> QED BY <2>2, <3>2, <3>3 DEF TradesInv, ReportedTradesAreStored, Storing
  <2> QED BY <2>1, <2>2, ToldMoves
<1>3. \A j \in DOMAIN trades : trades[j].client_order_id \in Told'
  BY ToldMoves DEF TradesInv, ReportedTradesAreStored
<1>4. ASSUME NEW c \in Calls, pc'[c] \in Storing PROVE c \in Told'
  BY <1>4, StoringStep, ToldMoves DEF TradesInv
<1>5. \A j \in DOMAIN trades : pc'[trades[j].client_order_id] = "done"
  BY <1>1, StoringStep DEF TradesInv
<1>6. ReportedTradesAreStored'
  BY <1>2, <1>3 DEF ReportedTradesAreStored, TradesInv, Storing
<1> QED BY <1>4, <1>5, <1>6 DEF TradesInv

\* The step that stores one.
LEMMA TradesInvStored ==
  ASSUME TypeOK, TradesInv, NEW d \in Calls, SendStore(d) PROVE TradesInv'
<1> USE DEF TypeOK
<1> DEFINE n == Len(trades) + 1
<1>1. /\ pc[d] = "send_store" /\ pc' = [pc EXCEPT ![d] = "done"]
      /\ reports' = reports /\ UNCHANGED locals
      /\ trades' = Append(trades, TradeOf(d))
  BY DEF SendStore, Return
<1>2. /\ DOMAIN trades' = DOMAIN trades \cup {n} /\ n \notin DOMAIN trades
      /\ \A j \in DOMAIN trades : trades'[j] = trades[j]
      /\ trades'[n] = TradeOf(d)
  BY <1>1 DEF BookTypeOK
<1> HIDE DEF n
<1>3. Told' = Told
  BY <1>1 DEF Told
<1>4. d \in Told /\ TradeOf(d).client_order_id = d
  BY <1>1 DEF TradesInv, Storing, TradeOf
<1>5. \A j \in DOMAIN trades :
        /\ trades[j].client_order_id \in Calls
        /\ pc[trades[j].client_order_id] = "done" /\ trades[j].client_order_id # d
  BY <1>1, TradesCalls DEF TradesInv
<1>6. \A c : TradeOf(c)' = TradeOf(c)
  BY <1>1 DEF TradeOf, locals
<1>7. pc'[d] = "done" /\ \A c \in Calls : c # d => pc'[c] = pc[c]
  BY <1>1 DEF CallsTypeOK
<1>8. ASSUME NEW c \in Told
      PROVE  pc'[c] \in Storing \/ \E j \in DOMAIN trades' : trades'[j] = TradeOf(c)'
  <2>1. c \in Calls
    BY <1>8, ToldCalls
  <2>2. CASE c = d
    BY <1>2, <1>6, <2>2
  <2>3. CASE c # d
    BY <1>2, <1>6, <1>7, <1>8, <2>1, <2>3 DEF TradesInv, ReportedTradesAreStored, Storing
  <2> QED BY <2>2, <2>3
<1>9. \A j \in DOMAIN trades' : trades'[j].client_order_id \in Told
  BY <1>2, <1>4 DEF TradesInv, ReportedTradesAreStored
<1>10. \A j, k \in DOMAIN trades' :
         trades'[j].client_order_id = trades'[k].client_order_id => j = k
  BY <1>2, <1>4, <1>5 DEF TradesInv, ReportedTradesAreStored
<1>11. ReportedTradesAreStored'
  BY <1>3, <1>8, <1>9, <1>10 DEF ReportedTradesAreStored, Storing
<1>12. \A c \in Calls : pc'[c] \in Storing => c \in Told'
  BY <1>3, <1>7 DEF TradesInv, Storing
<1>13. \A j \in DOMAIN trades' : pc'[trades'[j].client_order_id] = "done"
  BY <1>2, <1>4, <1>5, <1>7
<1> QED BY <1>11, <1>12, <1>13 DEF TradesInv

\* The invariant, which the order of the reports needs too.
LEMMA TradesCorrect == Spec => []TradesInv
<1>1. Init => TradesInv
  BY DEF Init, TradesInv, ReportedTradesAreStored, Told, Storing
<1>2. TypeOK /\ TradesInv /\ [Next]_vars => TradesInv'
  BY TradesMove, TradesInvTold, TradesInvStored
<1> QED BY <1>1, <1>2, TypeCorrect, PTL DEF Spec

\* The trades that on_trade_ was told of and those in trades_ agree call by call, with
\* their trade ids, whatever cancels, racing sends, colliding ids and disconnections do.
THEOREM NoTradeIsLost == Spec => []ReportedTradesAreStored
<1>1. TradesInv => ReportedTradesAreStored
  BY DEF TradesInv
<1> QED BY <1>1, TradesCorrect, PTL
=============================================================================
