--------------------------- MODULE MockTraderApi ---------------------------
(***************************************************************************)
(* MockTraderApi (src/adapters/mock/trader): the in-memory exchange that   *)
(* the client trades against when no real counter is configured.           *)
(*                                                                         *)
(* SendOrder and CancelOrder run on the threads of the engine.  They take  *)
(* orders_mutex_ for short sections and call the engine back, through      *)
(* on_order_ and on_trade_, with the mutex released; a callback may call   *)
(* the API again on the same thread.  A call is therefore a frame of its   *)
(* thread's stack: `top' is the innermost call of each thread, `under' the *)
(* call a nested one interrupts, `pc' the place a call has reached, and    *)
(* only the innermost call of a thread moves.                              *)
(*                                                                         *)
(* Copied order fields that decide nothing (price, market, ...) are not    *)
(* kept: client_order_id is the call that sent the order, and `request'    *)
(* of that call has the rest.                                              *)
(*                                                                         *)
(* The operators named Slip... are not the code: each is a plausible       *)
(* mistake in the definition that follows it, which a property must catch. *)
(***************************************************************************)
EXTENDS Naturals, Sequences

CONSTANTS
  Calls,        \* the SendOrder and CancelOrder calls of a run, each made once
  Threads,      \* the threads that make them
  SendThreads,  \* the threads that may call SendOrder
  Requests,     \* the order requests SendOrder is called with
  CancelIds,    \* the broker order ids CancelOrder is called with
  Controls,     \* the control calls the engine makes, by name
  MaxControls,  \* bound on the number of control calls of a run
  Ids,          \* the broker order ids OrderLifecycle follows
  NoCall, NoThread, NoRequest

ASSUME SetsAssumption ==
  /\ NoCall \notin Calls
  /\ NoThread \notin Threads
  /\ NoRequest \notin Requests
  /\ SendThreads \subseteq Threads
  /\ CancelIds \subseteq Nat
  /\ MaxControls \in Nat

\* broker_order_id 0 asks SendOrder to generate an id
ASSUME RequestsAssumption ==
  \A r \in Requests : r.broker_order_id \in Nat /\ r.volume \in Nat

VARIABLES
  connected,             \* connected_
  session_id,            \* session_id_
  software_version,      \* whether SetSoftwareVersion has set software_version_
  spi_target,            \* whether mock_spi_ has a target (RegisterSpi)
  spi_events,            \* which callbacks of the target have been called
  on_order, on_trade,    \* whether on_order_ and on_trade_ are set
  auto_fill,             \* auto_fill_
  controls,              \* number of control calls made
  next_broker_order_id,  \* next_broker_order_id_
  next_trade_id,         \* next_trade_id_
  orders,                \* orders_: broker order id -> latest snapshot
  trades,                \* trades_
  orders_mutex,          \* the call that holds orders_mutex_, or NoCall
  top, under, thread,    \* the threads' stacks of calls
  pc,                    \* the place each call has reached
  request,               \* the request of a SendOrder call
  broker_order_id,       \* local of a call: the order it is about
  trade_id,              \* local of a SendOrder call
  result,                \* what a call returned
  reports                \* the calls of on_order_ and on_trade_, oldest first, each
                         \* with the API call that made it

session  == <<connected, session_id, software_version, spi_target, spi_events>>
settings == <<on_order, on_trade, auto_fill>>
counters == <<next_broker_order_id, next_trade_id>>
book     == <<orders, trades>>
stacks   == <<top, under, thread>>
locals   == <<request, broker_order_id, trade_id>>
vars == <<session, settings, controls, counters, book, orders_mutex, stacks,
          pc, locals, result, reports>>

-----------------------------------------------------------------------------
(* Data *)

\* The engine hears of an order elsewhere before on_order_, and may call back then.
SlipEarlyCallback == {"send_report", "on_order", "on_trade", "on_cancel"}

\* The places at which a callback runs, so that a nested call may begin.
InCallback == {"on_order", "on_trade", "on_cancel"}
SendPlaces == {"send_id", "send_bump", "send_lock", "send_insert", "send_report",
               "on_order", "send_fill", "send_trade", "on_trade", "send_store"}
CancelPlaces == {"cancel_lock", "cancel_find", "cancel_report", "on_cancel"}
Places == {"new", "done"} \cup SendPlaces \cup CancelPlaces

ErrorCodes == {"kSuccess", "kConnectionError", "kNotFound", "kSystemError"}
FinalStatus == {"kFilled", "kCanceled", "kRejected"}

Order == [client_order_id : Calls, left_volume : Nat, traded_volume : Nat,
          status : {"kNotTradedQueueing", "kFilled", "kCanceled"},
          submit_status : {"kInsertAccepted", "kCancelAccepted"}]
Trade == [trade_id : Nat, broker_order_id : Nat, client_order_id : Calls]
Report == [event : {"queued", "traded", "canceled"}, broker_order_id : Nat, call : Calls]

\* The snapshot SendOrder stores and reports.
NewOrder(c) == [client_order_id |-> c, left_volume |-> request[c].volume,
                traded_volume |-> 0, status |-> "kNotTradedQueueing",
                submit_status |-> "kInsertAccepted"]

SlipVolumeSubtracted(order) ==
  [order EXCEPT !.traded_volume = @ + request[order.client_order_id].volume,
                !.left_volume = @ - request[order.client_order_id].volume,
                !.status = "kFilled"]

Filled(order) ==
  [order EXCEPT !.traded_volume = request[order.client_order_id].volume,
                !.left_volume = 0, !.status = "kFilled"]

Canceled(order) == [order EXCEPT !.status = "kCanceled",
                                 !.submit_status = "kCancelAccepted"]

\* orders_[id] = order
Put(id, order) == [i \in DOMAIN orders \cup {id} |-> IF i = id THEN order ELSE orders[i]]

\* reports, with one more callback, made by call c about its order
Reported(event, c) ==
  Append(reports, [event |-> event, broker_order_id |-> broker_order_id[c], call |-> c])

\* The trade that SendOrder call c tells and stores.
TradeOf(c) == [trade_id |-> trade_id[c], broker_order_id |-> broker_order_id[c],
               client_order_id |-> c]

-----------------------------------------------------------------------------
(* The stacks of calls *)

\* Thread t is in none of the API's code: outside it, or in a callback.
Free(t) == top[t] # NoCall => pc[top[t]] \in InCallback

\* Only the innermost call of a thread runs.
Running(c) == pc[c] \notin {"new", "done"} /\ top[thread[c]] = c

Goto(c, from, to) == /\ Running(c)
                     /\ pc[c] = from
                     /\ pc' = [pc EXCEPT ![c] = to]
                     /\ UNCHANGED <<stacks, result>>

Return(c, from, code) == /\ Running(c)
                         /\ pc[c] = from
                         /\ pc' = [pc EXCEPT ![c] = "done"]
                         /\ top' = [top EXCEPT ![thread[c]] = under[c]]
                         /\ result' = [result EXCEPT ![c] = code]
                         /\ UNCHANGED <<under, thread>>

\* Thread t makes call c, which refuses at once while the API is not connected.
Begin(t, c, at) ==
  /\ pc[c] = "new"
  /\ Free(t)
  /\ thread' = [thread EXCEPT ![c] = t]
  /\ \/ /\ ~ connected
        /\ pc' = [pc EXCEPT ![c] = "done"]
        /\ result' = [result EXCEPT ![c] = "kConnectionError"]
        /\ UNCHANGED <<top, under>>
     \/ /\ connected
        /\ pc' = [pc EXCEPT ![c] = at]
        /\ under' = [under EXCEPT ![c] = top[t]]
        /\ top' = [top EXCEPT ![t] = c]
        /\ UNCHANGED result
  /\ UNCHANGED <<session, settings, controls, counters, book, orders_mutex, reports>>

Lock(c)   == orders_mutex = NoCall /\ orders_mutex' = c
Unlock(c) == orders_mutex' = NoCall

-----------------------------------------------------------------------------
(* SendOrder *)

SendOrder(t, c, r) ==
  /\ t \in SendThreads
  /\ Begin(t, c, "send_id")
  /\ request' = [request EXCEPT ![c] = r]
  /\ UNCHANGED <<broker_order_id, trade_id>>

\* next_broker_order_id_++ is not synchronised: the read and the write are two steps.
SendId(c) ==
  LET given == request[c].broker_order_id
  IN /\ Goto(c, "send_id", IF given # 0 THEN "send_lock" ELSE "send_bump")
     /\ broker_order_id' = [broker_order_id EXCEPT ![c] =
                              IF given # 0 THEN given ELSE next_broker_order_id]
     /\ UNCHANGED <<session, settings, controls, counters, book, orders_mutex,
                    request, trade_id, reports>>

SlipBumpForgotten(c) ==
  /\ Goto(c, "send_bump", "send_lock")
  /\ UNCHANGED <<session, settings, controls, counters, book, orders_mutex, locals,
                 reports>>

SendBump(c) ==
  /\ Goto(c, "send_bump", "send_lock")
  /\ next_broker_order_id' = broker_order_id[c] + 1
  /\ UNCHANGED <<session, settings, controls, next_trade_id, book, orders_mutex,
                 locals, reports>>

SendLock(c) ==
  /\ Goto(c, "send_lock", "send_insert")
  /\ Lock(c)
  /\ UNCHANGED <<session, settings, controls, counters, book, locals, reports>>

SlipMutexKept(c) ==
  /\ Goto(c, "send_insert", "send_report")
  /\ orders' = Put(broker_order_id[c], NewOrder(c))
  /\ UNCHANGED <<session, settings, controls, counters, trades, orders_mutex, locals,
                 reports>>

SendInsert(c) ==
  /\ Goto(c, "send_insert", "send_report")
  /\ orders' = Put(broker_order_id[c], NewOrder(c))
  /\ Unlock(c)
  /\ UNCHANGED <<session, settings, controls, counters, trades, locals, reports>>

SendReport(c) ==
  /\ Goto(c, "send_report", IF on_order THEN "on_order" ELSE "send_fill")
  /\ reports' = IF on_order THEN Reported("queued", c) ELSE reports
  /\ UNCHANGED <<session, settings, controls, counters, book, orders_mutex, locals>>

OnOrderReturns(c) ==
  /\ Goto(c, "on_order", "send_fill")
  /\ UNCHANGED <<session, settings, controls, counters, book, orders_mutex, locals,
                 reports>>

SendWithoutFill(c) ==
  /\ ~ (auto_fill /\ on_trade)
  /\ Return(c, "send_fill", "kSuccess")
  /\ UNCHANGED <<session, settings, controls, counters, book, orders_mutex, locals,
                 reports>>

\* next_trade_id_++ is not synchronised either.
SendFill(c) ==
  /\ auto_fill /\ on_trade
  /\ Goto(c, "send_fill", "send_trade")
  /\ trade_id' = [trade_id EXCEPT ![c] = next_trade_id]
  /\ UNCHANGED <<session, settings, controls, counters, book, orders_mutex, request,
                 broker_order_id, reports>>

SendTrade(c) ==
  /\ Goto(c, "send_trade", "on_trade")
  /\ next_trade_id' = trade_id[c] + 1
  /\ reports' = Reported("traded", c)
  /\ UNCHANGED <<session, settings, controls, next_broker_order_id, book, orders_mutex,
                 locals>>

\* on_trade_ returns and the second section begins.
SendLockFill(c) ==
  /\ Goto(c, "on_trade", "send_store")
  /\ Lock(c)
  /\ UNCHANGED <<session, settings, controls, counters, book, locals, reports>>

SlipFilledOnce(c) ==
  LET id == broker_order_id[c]
  IN /\ Return(c, "send_store", "kSuccess")
     /\ id \in DOMAIN orders
     /\ IF orders[id].status = "kFilled"
          THEN UNCHANGED book
          ELSE trades' = Append(trades, TradeOf(c)) /\ orders' = [orders EXCEPT ![id] = Filled(@)]
     /\ Unlock(c)
     /\ UNCHANGED <<session, settings, controls, counters, locals, reports>>

SlipCancelWins(c) ==
  LET id == broker_order_id[c]
  IN /\ Return(c, "send_store", "kSuccess")
     /\ id \in DOMAIN orders
     /\ trades' = Append(trades, TradeOf(c))
     /\ orders' = [orders EXCEPT ![id] = IF @.status = "kCanceled" THEN @ ELSE Filled(@)]
     /\ Unlock(c)
     /\ UNCHANGED <<session, settings, controls, counters, locals, reports>>

SlipTradesReplaced(c) ==
  LET id == broker_order_id[c]
  IN /\ Return(c, "send_store", "kSuccess")
     /\ id \in DOMAIN orders
     /\ trades' = <<TradeOf(c)>>
     /\ orders' = [orders EXCEPT ![id] = Filled(@)]
     /\ Unlock(c)
     /\ UNCHANGED <<session, settings, controls, counters, locals, reports>>

\* orders_.at finds the snapshot that is stored now, which need not be this call's.
SendStore(c) ==
  LET id == broker_order_id[c]
  IN /\ Return(c, "send_store", "kSuccess")
     /\ id \in DOMAIN orders
     /\ trades' = Append(trades, TradeOf(c))
     /\ orders' = [orders EXCEPT ![id] = Filled(@)]
     /\ Unlock(c)
     /\ UNCHANGED <<session, settings, controls, counters, locals, reports>>

-----------------------------------------------------------------------------
(* CancelOrder *)

CancelOrder(t, c, id) ==
  /\ Begin(t, c, "cancel_lock")
  /\ broker_order_id' = [broker_order_id EXCEPT ![c] = id]
  /\ UNCHANGED <<request, trade_id>>

CancelLock(c) ==
  /\ Goto(c, "cancel_lock", "cancel_find")
  /\ Lock(c)
  /\ UNCHANGED <<session, settings, controls, counters, book, locals, reports>>

SlipCancelErases(c) ==
  LET id == broker_order_id[c]
  IN /\ Goto(c, "cancel_find", "cancel_report")
     /\ id \in DOMAIN orders
     /\ orders[id].status \notin FinalStatus
     /\ orders' = [i \in DOMAIN orders \ {id} |-> orders[i]]
     /\ Unlock(c)
     /\ UNCHANGED <<session, settings, controls, counters, trades, locals, reports>>

SlipFilledCanceled(c) ==
  LET id == broker_order_id[c]
  IN /\ Goto(c, "cancel_find", "cancel_report")
     /\ id \in DOMAIN orders
     /\ orders[id].status # "kCanceled"
     /\ orders' = [orders EXCEPT ![id] = Canceled(@)]
     /\ Unlock(c)
     /\ UNCHANGED <<session, settings, controls, counters, trades, locals, reports>>

CancelRefuse(c) ==
  LET id == broker_order_id[c]
  IN /\ \/ id \notin DOMAIN orders /\ Return(c, "cancel_find", "kNotFound")
        \/ /\ id \in DOMAIN orders
           /\ orders[id].status \in FinalStatus
           /\ Return(c, "cancel_find", "kSystemError")
     /\ Unlock(c)
     /\ UNCHANGED <<session, settings, controls, counters, book, locals, reports>>

CancelApply(c) ==
  LET id == broker_order_id[c]
  IN /\ Goto(c, "cancel_find", "cancel_report")
     /\ id \in DOMAIN orders
     /\ orders[id].status \notin FinalStatus
     /\ orders' = [orders EXCEPT ![id] = Canceled(@)]
     /\ Unlock(c)
     /\ UNCHANGED <<session, settings, controls, counters, trades, locals, reports>>

CancelReport(c) ==
  /\ on_order
  /\ Goto(c, "cancel_report", "on_cancel")
  /\ reports' = Reported("canceled", c)
  /\ UNCHANGED <<session, settings, controls, counters, book, orders_mutex, locals>>

CancelReturn(c) ==
  /\ \/ ~ on_order /\ Return(c, "cancel_report", "kSuccess")
     \/ Return(c, "on_cancel", "kSuccess")
  /\ UNCHANGED <<session, settings, controls, counters, book, orders_mutex, locals,
                 reports>>

-----------------------------------------------------------------------------
(* Connection, registration and settings *)

\* One of the control calls, of which a run makes at most MaxControls.
Control(op) == /\ op \in Controls
               /\ controls < MaxControls
               /\ controls' = controls + 1
               /\ UNCHANGED <<counters, book, orders_mutex, stacks, pc, locals, result,
                              reports>>

PublishConnected ==
  spi_events' = IF spi_target THEN spi_events \cup {"OnConnected"} ELSE spi_events

Connect == /\ Control("Connect")
           /\ connected' = TRUE
           /\ PublishConnected
           /\ UNCHANGED <<session_id, software_version, spi_target, settings>>

\* Release, and so the destructor, only calls Disconnect.
Disconnect == /\ Control("Disconnect")
              /\ connected' = FALSE
              /\ UNCHANGED <<session_id, software_version, spi_target, spi_events, settings>>

Login == /\ Control("Login")
         /\ session_id' = 1
         /\ PublishConnected
         /\ UNCHANGED <<connected, software_version, spi_target, settings>>

Logout == /\ Control("Logout")
          /\ session_id' = 0
          /\ UNCHANGED <<connected, software_version, spi_target, spi_events, settings>>

RegisterSpi == /\ Control("RegisterSpi")
               /\ spi_target' = TRUE
               /\ UNCHANGED <<connected, session_id, software_version, spi_events, settings>>

UnregisterSpi == /\ Control("UnregisterSpi")
                 /\ spi_target' = FALSE
                 /\ UNCHANGED <<connected, session_id, software_version, spi_events, settings>>

SetSoftwareVersion == /\ Control("SetSoftwareVersion")
                      /\ software_version' = TRUE
                      /\ UNCHANGED <<connected, session_id, spi_target, spi_events, settings>>

\* The engine sets the callbacks, to a function or to none, while no call is
\* under way: the code reads them without synchronisation.
SetOrderCallback == /\ Control("SetOrderCallback")
                    /\ \A t \in Threads : top[t] = NoCall
                    /\ on_order' \in BOOLEAN
                    /\ UNCHANGED <<session, on_trade, auto_fill>>

SetTradeCallback == /\ Control("SetTradeCallback")
                    /\ \A t \in Threads : top[t] = NoCall
                    /\ on_trade' \in BOOLEAN
                    /\ UNCHANGED <<session, on_order, auto_fill>>

SetAutoFill == /\ Control("SetAutoFill")
               /\ auto_fill' \in BOOLEAN
               /\ UNCHANGED <<session, on_order, on_trade>>

-----------------------------------------------------------------------------
(* Specification *)

Init ==
  /\ connected = FALSE /\ session_id = 0 /\ software_version = FALSE
  /\ spi_target = FALSE /\ spi_events = {}
  /\ on_order = FALSE /\ on_trade = FALSE /\ auto_fill = TRUE
  /\ controls = 0
  /\ next_broker_order_id = 1 /\ next_trade_id = 1
  /\ orders = [id \in {} |-> {}] /\ trades = <<>>
  /\ orders_mutex = NoCall
  /\ top = [t \in Threads |-> NoCall]
  /\ under = [c \in Calls |-> NoCall]
  /\ thread = [c \in Calls |-> NoThread]
  /\ pc = [c \in Calls |-> "new"]
  /\ request = [c \in Calls |-> NoRequest]
  /\ broker_order_id = [c \in Calls |-> 0]
  /\ trade_id = [c \in Calls |-> 0]
  /\ result = [c \in Calls |-> "none"]
  /\ reports = <<>>

SendStep(c) == \/ SendId(c) \/ SendBump(c) \/ SendLock(c) \/ SendInsert(c)
               \/ SendReport(c) \/ OnOrderReturns(c) \/ SendWithoutFill(c)
               \/ SendFill(c) \/ SendTrade(c) \/ SendLockFill(c) \/ SendStore(c)

CancelStep(c) == \/ CancelLock(c) \/ CancelRefuse(c) \/ CancelApply(c)
                 \/ CancelReport(c) \/ CancelReturn(c)

Step(c) == SendStep(c) \/ CancelStep(c)

Manage == \/ Connect \/ Disconnect \/ Login \/ Logout
          \/ RegisterSpi \/ UnregisterSpi \/ SetSoftwareVersion
          \/ SetOrderCallback \/ SetTradeCallback \/ SetAutoFill

\* Every call has been made and has returned.
Finished == (\A c \in Calls : pc[c] = "done") /\ UNCHANGED vars

Next == \/ \E t \in Threads, c \in Calls :
             \/ \E r \in Requests : SendOrder(t, c, r)
             \/ \E id \in CancelIds : CancelOrder(t, c, id)
        \/ \E c \in Calls : Step(c)
        \/ Manage
        \/ Finished

Spec == Init /\ [][Next]_vars

\* A thread that has entered a call is scheduled, and the callbacks return.
FairSpec == Spec /\ \A c \in Calls : WF_vars(Step(c))

-----------------------------------------------------------------------------
(* Properties *)

SessionTypeOK ==
  /\ connected \in BOOLEAN /\ session_id \in {0, 1} /\ software_version \in BOOLEAN
  /\ spi_target \in BOOLEAN /\ spi_events \subseteq {"OnConnected"}
  /\ on_order \in BOOLEAN /\ on_trade \in BOOLEAN /\ auto_fill \in BOOLEAN
  /\ controls \in 0 .. MaxControls

BookTypeOK ==
  /\ next_broker_order_id \in Nat /\ next_trade_id \in Nat
  /\ DOMAIN orders \subseteq Nat /\ orders \in [DOMAIN orders -> Order]
  /\ \A id \in DOMAIN orders : request[orders[id].client_order_id] \in Requests
  /\ trades \in Seq(Trade)
  /\ reports \in Seq(Report)
  /\ orders_mutex \in Calls \cup {NoCall}

CallsTypeOK ==
  /\ top \in [Threads -> Calls \cup {NoCall}]
  /\ under \in [Calls -> Calls \cup {NoCall}]
  /\ thread \in [Calls -> Threads \cup {NoThread}]
  /\ pc \in [Calls -> Places]
  /\ request \in [Calls -> Requests \cup {NoRequest}]
  /\ broker_order_id \in [Calls -> Nat]
  /\ trade_id \in [Calls -> Nat]
  /\ result \in [Calls -> ErrorCodes \cup {"none"}]
  /\ \A c \in Calls :
       /\ pc[c] \in SendPlaces => request[c] \in Requests
       /\ pc[c] \in CancelPlaces \cup {"new"} => request[c] = NoRequest

\* Every variable has its type: ids and volumes are naturals, the book maps
\* broker order ids to snapshots, and a call is at one of the places of the code.
TypeOK == SessionTypeOK /\ BookTypeOK /\ CallsTypeOK

\* The places of a SendOrder call whose order is in the book and may still be filled.
Open == {"send_report", "on_order", "send_fill", "send_trade", "on_trade", "send_store"}

\* The calls whose order SendOrder has put in the book.
Accepted ==
  {c \in Calls :
     \/ pc[c] \in Open
     \/ pc[c] = "done" /\ request[c] # NoRequest /\ result[c] = "kSuccess"}

\* orders_.at in SendOrder's second section never throws: whatever other calls
\* and callbacks did since the first section, the order is still in the book.
FillFindsItsOrder ==
  \A c \in Calls : pc[c] \in Open => broker_order_id[c] \in DOMAIN orders

\* At most one thread sends, and it lets SendOrder number the orders.
OneSender    == \A s, t \in SendThreads : s = t
GeneratedIds == \A r \in Requests : r.broker_order_id = 0

\* An order that SendOrder accepted has its own snapshot in orders_: no later
\* order takes its broker order id.
AcceptedOrderKeepsSnapshot ==
  \A c \in Accepted :
    /\ broker_order_id[c] \in DOMAIN orders
    /\ orders[broker_order_id[c]].client_order_id = c

TradedIds == {trades[i].broker_order_id : i \in DOMAIN trades}

\* The two records of a fill agree: a snapshot is kFilled, with its whole volume
\* traded, exactly when trades_ has a trade of the order, and it has only one.
SnapshotAgreesWithTrades ==
  /\ \A id \in DOMAIN orders :
       LET order  == orders[id]
           volume == request[order.client_order_id].volume
       IN IF id \in TradedIds
            THEN order.status = "kFilled" /\ order.traded_volume = volume /\ order.left_volume = 0
            ELSE order.status # "kFilled" /\ order.traded_volume = 0 /\ order.left_volume = volume
  /\ \A i, j \in DOMAIN trades :
       trades[i].broker_order_id = trades[j].broker_order_id => i = j

\* The SendOrder calls that have told on_trade_ of their trade.
Told == {reports[i].call : i \in {n \in DOMAIN reports : reports[n].event = "traded"}}

\* The trades on_trade_ was told of and those in trades_ are the same, call by call,
\* even where calls share a broker order id: a told trade is stored, with its own
\* trade_id, or the call that told it has yet to store it, and a stored trade was told
\* and is stored once.  No cancel or racing send makes a trade vanish.
ReportedTradesAreStored ==
  /\ \A c \in Told : \/ pc[c] \in {"on_trade", "send_store"}
                     \/ \E j \in DOMAIN trades : trades[j] = TradeOf(c)
  /\ \A j \in DOMAIN trades : trades[j].client_order_id \in Told
  /\ \A j, k \in DOMAIN trades :
       trades[j].client_order_id = trades[k].client_order_id => j = k

\* Of an order, on_order_ hears that it is queued once, never after its fill, and never
\* after a cancel made, in a callback, by the thread that sends it: a cancel reported
\* before the order is comes from another thread.
QueuedComesFirst ==
  \A i, j \in DOMAIN reports :
    i < j /\ reports[i].broker_order_id = reports[j].broker_order_id
          /\ reports[j].event = "queued"
      => /\ reports[i].event = "canceled"
         /\ thread[reports[i].call] # thread[reports[j].call]

CancelHeard(id) ==
  \E i \in DOMAIN reports : reports[i].event = "canceled" /\ reports[i].broker_order_id = id

\* What the engine heard of an order settles its snapshot once the call that sent it
\* has returned, in whatever order it heard it: a trade told makes the order kFilled,
\* a cancel reported before or after it notwithstanding; without one the order is not
\* kFilled, and a reported cancel has left it kCanceled.
ReportsSettleTheOrder ==
  \A c \in Accepted : pc[c] = "done" =>
    LET status == orders[broker_order_id[c]].status
    IN /\ (c \in Told) <=> (status = "kFilled")
       /\ (CancelHeard(broker_order_id[c]) /\ c \notin Told) => (status = "kCanceled")

\* The places at which a call is in a section of orders_mutex_.
SectionPlaces == {"send_insert", "send_store", "cancel_find"}

\* Call c waits in a lock_guard, the mutex being held.
Waiting(c) == /\ Running(c)
              /\ pc[c] \in {"send_lock", "on_trade", "cancel_lock"}
              /\ orders_mutex # NoCall

\* No deadlock on orders_mutex_, which is not recursive: whoever a call waits for can
\* go on. It does not wait itself, and it is not a call that a callback interrupts, on
\* the waiting thread or on another.
NoDeadlock == \A c \in Calls : Waiting(c) => Running(orders_mutex) /\ ~ Waiting(orders_mutex)

\* Why: the holder of the mutex is in a section.
HolderOK == orders_mutex # NoCall => pc[orders_mutex] \in SectionPlaces

\* The stacks of the threads: a call in the API's own code is the innermost of its
\* thread, the calls below it are in callbacks, and no call is below two others.
Active(c) == pc[c] \notin {"new", "done"}

StacksOK ==
  /\ \A c \in Calls : Active(c) => thread[c] \in Threads
  /\ \A c \in Calls : Active(c) /\ pc[c] \notin InCallback => top[thread[c]] = c
  /\ \A t \in Threads : top[t] # NoCall => Active(top[t]) /\ thread[top[t]] = t
  /\ \A c \in Calls : Active(c) /\ under[c] # NoCall =>
       /\ pc[under[c]] \in InCallback
       /\ thread[under[c]] = thread[c]
       /\ top[thread[c]] # under[c]
  /\ \A c, d \in Calls : Active(c) /\ Active(d) /\ c # d /\ under[c] # NoCall
       => under[c] # under[d]
  /\ \A c \in Calls : pc[c] \in SendPlaces => thread[c] \in SendThreads

\* The calls whose order SendOrder has numbered.
Named == Accepted \cup {c \in Calls : pc[c] \in {"send_bump", "send_lock", "send_insert"}}

\* Ids are handed out once: all are below the counter, but the one being handed out.
IdsOK ==
  /\ \A c \in Calls : pc[c] = "send_bump" => broker_order_id[c] = next_broker_order_id
  /\ \A c \in Named : pc[c] # "send_bump"
       => broker_order_id[c] < next_broker_order_id
  /\ \A c, d \in Named : c # d => broker_order_id[c] # broker_order_id[d]

\* What the book holds comes from the calls: each snapshot is that of an accepted
\* order with its id, each trade that of a call that has returned.
BookOK ==
  /\ \A id \in DOMAIN orders :
       LET c == orders[id].client_order_id IN c \in Accepted /\ broker_order_id[c] = id
  /\ \A i \in DOMAIN trades :
       LET c == trades[i].client_order_id
       IN c \in Accepted /\ pc[c] = "done" /\ broker_order_id[c] = trades[i].broker_order_id

\* Every call returns, whatever the other thread and the callbacks call: nothing
\* waits for orders_mutex_ for ever.
EveryCallReturns == \A c \in Calls : pc[c] # "new" ~> pc[c] = "done"

-----------------------------------------------------------------------------
(* The exchange as OrderLifecycle sees it *)

LifeOf(status) == CASE status = "kNotTradedQueueing" -> "working"
                    [] status = "kCanceled"          -> "canceled"
                    [] status = "kFilled"            -> "filled"

LifecycleStatus ==
  [id \in Ids |-> IF id \in DOMAIN orders THEN LifeOf(orders[id].status) ELSE "absent"]

OpenCalls == {c \in Calls : pc[c] \in Open}

LifecycleOpen == Ids \cap {broker_order_id[c] : c \in OpenCalls}

Lifecycle == INSTANCE OrderLifecycle WITH status <- LifecycleStatus, open <- LifecycleOpen

\* Every order goes through the life OrderLifecycle describes: it is accepted
\* once, filled at most once and only by its open SendOrder call, and a filled
\* order, or a canceled one whose call has returned, stays as it is. The call that
\* sent it closes it in the end.
EachOrderIsClosed == Lifecycle!FairSpec

-----------------------------------------------------------------------------
(* What the comments of the code say *)

\* No two callers of SendOrder ask for the same broker order id.
GivenIdsDiffer ==
  \A c, d \in Calls :
    (c # d /\ request[c] # NoRequest /\ request[d] # NoRequest
       /\ request[c].broker_order_id # 0)
      => request[c].broker_order_id # request[d].broker_order_id

\* orders_ maps the broker order id of an order to its latest snapshot
\* (mock_trader_api.hpp, "券商/通道委托号到最近订单快照的映射"), given that the callers
\* do not contradict one another.
EachIdHasItsSnapshot == GivenIdsDiffer => AcceptedOrderKeepsSnapshot
=============================================================================
