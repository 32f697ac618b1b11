----------------------------- MODULE EmtAdapters -----------------------------
(***************************************************************************)
(* EmtQuoteApi and EmtTraderApi (src/adapters/emt): the adapters of a real *)
(* counter as far as they go without the vendor's SDK.  They keep what     *)
(* they are told, and answer nearly every request that it is not           *)
(* supported, with an error code, -1 or the id 0.                          *)
(*                                                                         *)
(* One thread connects and disconnects; the operations are short and keep  *)
(* nothing from one to the next but the state below, so that each is one   *)
(* step.  Callbacks that nothing calls, and the texts, are left out.       *)
(***************************************************************************)
EXTENDS Sequences

CONSTANTS
  Requests,       \* what Connect may be called with
  Subscriptions,  \* the lists of instruments Subscribe may be called with
  Orders,         \* the broker's order ids, "0" among them
  None            \* no request

VARIABLES
  connected,    \* connected_ of the quote adapter
  config,       \* config_, or None
  instruments,  \* instruments_
  quote_spi,    \* whether the quote adapter has a target for its callbacks
  trader_spi,   \* whether the trader adapter has
  call,         \* the last call of either adapter
  answer        \* its answer, "void" if it has none

quote == <<connected, config, instruments, quote_spi>>
vars == <<quote, trader_spi, call, answer>>

Answer(name, value) == call' = name /\ answer' = value

-----------------------------------------------------------------------------
(* EmtQuoteApi *)

Connect(request) ==
  \/ /\ connected
     /\ Answer("quote.Connect", "kSuccess")
     /\ UNCHANGED <<quote, trader_spi>>
  \/ /\ ~ connected
     /\ connected' = TRUE
     /\ config' = request
     /\ Answer("quote.Connect", "kNotSupported")
     /\ UNCHANGED <<instruments, quote_spi, trader_spi>>

\* Logout only disconnects.
Disconnect(name) ==
  /\ name \in {"quote.Disconnect", "quote.Logout"}
  /\ connected' = FALSE
  /\ Answer(name, "void")
  /\ UNCHANGED <<config, instruments, quote_spi, trader_spi>>

Subscribe(list) ==
  /\ instruments' = list
  /\ Answer("quote.Subscribe", "kNotSupported")
  /\ UNCHANGED <<connected, config, quote_spi, trader_spi>>

\* Whatever it is asked to drop.
Unsubscribe ==
  /\ instruments' = <<>>
  /\ Answer("quote.Unsubscribe", "kNotSupported")
  /\ UNCHANGED <<connected, config, quote_spi, trader_spi>>

QuoteTarget(name, registered) ==
  /\ quote_spi' = registered
  /\ Answer(name, "void")
  /\ UNCHANGED <<connected, config, instruments, trader_spi>>

\* The requests of the vendor's interface: market data, rebuilding, buffers.
QuoteRequests ==
  {"quote.Login", "quote.RebuildSzData", "quote.SetBuffer", "quote.SubscribeAllIndexData",
   "quote.UnSubscribeAllIndexData", "quote.SubscribeIndexData", "quote.UnSubscribeIndexData",
   "quote.SubscribeAllMarketData", "quote.UnSubscribeAllMarketData",
   "quote.SubscribeMarketData", "quote.UnSubscribeMarketData"}

QuoteQueries ==
  {"quote.QueryAllTickers", "quote.QueryAllTickersFullInfo", "quote.QueryLatestInfo",
   "quote.QueryTickersPriceInfo"}

\* They change nothing; a snapshot and the list of instruments come back empty.
QuoteStub ==
  /\ \/ \E name \in QuoteRequests \cup QuoteQueries : Answer(name, "-1")
     \/ Answer("quote.QuerySnapshot", "kNotSupported")
     \/ Answer("quote.GetSupportedInstruments", "none")
  /\ UNCHANGED <<quote, trader_spi>>

-----------------------------------------------------------------------------
(* EmtTraderApi *)

TraderTarget(name, registered) ==
  /\ trader_spi' = registered
  /\ Answer(name, "void")
  /\ UNCHANGED quote

Session ==
  \/ Answer("trader.Connect", "kNotSupported")
  \/ Answer("trader.Disconnect", "void")
  \/ \E name \in {"trader.IsConnected", "trader.IsServerRestart"} : Answer(name, "false")
  \/ Answer("trader.Login", "0")
  \/ Answer("trader.Logout", "-1")

\* InsertOrder gives back the id of the order it was given.
OrderCalls ==
  \/ \E id \in Orders : Answer("trader.InsertOrder", id)
  \/ Answer("trader.CancelOrder(id)", "0")
  \/ \E name \in {"trader.SendOrder", "trader.CancelOrder(request)"} :
       Answer(name, "kNotSupported")

\* Those with a session answer by callback later, which never comes; those with a
\* response clear it.
Queries ==
  \/ \E name \in {"trader.QueryOrderByBrokerOrderId", "trader.QueryOrders(session)",
                  "trader.QueryUnfinishedOrders", "trader.QueryOrdersByPage",
                  "trader.QueryTradesByBrokerOrderId", "trader.QueryTrades(session)",
                  "trader.QueryPosition", "trader.QueryAsset(session)"} : Answer(name, "-1")
  \/ \E name \in {"trader.QueryOrders", "trader.QueryTrades", "trader.QueryPositions",
                  "trader.QueryAsset"} : Answer(name, "kNotSupported")

Funds ==
  \/ \E name \in {"trader.FundTransfer", "trader.CreditQuotaTransfer"} : Answer(name, "0")
  \/ \E name \in {"trader.QueryOtherServerFund", "trader.QueryCreditQuotaTransfer",
                  "trader.QueryFundTransfer"} : Answer(name, "-1")

TraderStub == (Session \/ OrderCalls \/ Queries \/ Funds) /\ UNCHANGED <<quote, trader_spi>>

-----------------------------------------------------------------------------
(* Specification *)

Init ==
  /\ connected = FALSE /\ config = None /\ instruments = <<>>
  /\ quote_spi = FALSE /\ trader_spi = FALSE
  /\ call = "none" /\ answer = "void"

Next ==
  \/ \E request \in Requests : Connect(request)
  \/ \E name \in {"quote.Disconnect", "quote.Logout"} : Disconnect(name)
  \/ \E list \in Subscriptions : Subscribe(list)
  \/ Unsubscribe
  \/ QuoteTarget("quote.RegisterSpi", TRUE) \/ QuoteTarget("quote.UnregisterSpi", FALSE)
  \/ TraderTarget("trader.RegisterSpi", TRUE) \/ TraderTarget("trader.UnregisterSpi", FALSE)
  \/ QuoteStub \/ TraderStub

Spec == Init /\ [][Next]_vars

-----------------------------------------------------------------------------
(* What the documents say *)

\* connected_ is the state of the connection (emt_quote_api.hpp, "连接状态。"): a
\* Connect that does not connect leaves it as it was.
FailedConnectLeavesState ==
  [][call' = "quote.Connect" /\ answer' # "kSuccess" => connected' = connected]_vars
=============================================================================
