--------------------------- MODULE MCMockTrader ---------------------------
(***************************************************************************)
(* MockTraderApi on small sets of calls and threads.                       *)
(***************************************************************************)
EXTENDS MockTraderQueries, FiniteSets, TLC

CONSTANTS Spot, Future   \* two instruments

Buy(id, volume) == [broker_order_id |-> id, volume |-> volume, side |-> "kBuy",
                    instrument |-> Spot]

\* Requests that let SendOrder number the order.
OneRequest == {Buy(0, 2)}
PositionRequests == {Buy(0, 2), [Buy(0, 3) EXCEPT !.side = "kSell"],
                     [Buy(0, 1) EXCEPT !.instrument = Future]}

\* Requests of which some bring a broker order id of their own.
MixedRequests == {Buy(0, 1), Buy(1, 2), Buy(2, 2)}

GivenRequests == {Buy(0, 1), Buy(1, 2)}

BothInstruments == {Spot, Future}

AnyIds == {1, 2}
FirstId == {1}
NoIds == {}

TradingControls == {"Connect", "SetOrderCallback", "SetTradeCallback", "SetAutoFill"}
PositionControls == {"Connect", "SetTradeCallback"}
AllControls == TradingControls \cup {"Disconnect", "Login", "Logout", "RegisterSpi",
                                     "UnregisterSpi", "SetSoftwareVersion"}

Symmetry == Permutations(Calls)

\* Where every thread sends, the threads are alike too.
SenderSymmetry == Symmetry \cup Permutations(Threads)

\* The ids the counter can give to the orders of a run.
CounterIds == 1 .. Cardinality(Calls)
=============================================================================
