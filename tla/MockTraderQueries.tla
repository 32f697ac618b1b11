------------------------- MODULE MockTraderQueries -------------------------
(***************************************************************************)
(* The queries of MockTraderApi: each reads the book in one orders_mutex_  *)
(* section, so it is an operator on the state and not an action.  An       *)
(* answer's copied fields are reduced to what identifies it.               *)
(*                                                                         *)
(* In this module a request also has an `instrument' and a `side'.         *)
(***************************************************************************)
EXTENDS MockTraderApi, Integers, SequencesExt

CONSTANTS Instruments, AnyInstrument   \* AnyInstrument: the empty filter

ASSUME QueriesAssumption ==
  /\ AnyInstrument \notin Instruments
  /\ \A r \in Requests : r.instrument \in Instruments /\ r.side \in {"kBuy", "kSell"}

-----------------------------------------------------------------------------
(* Filters *)

Matches(filter, instrument) == filter.instrument \in {AnyInstrument, instrument}

MatchesId(filter, id) == filter.broker_order_id \in {0, id}

-----------------------------------------------------------------------------
(* Answers *)

\* The broker order ids of the orders in the answer.
QueryOrders(filter) ==
  {id \in DOMAIN orders :
     /\ Matches(filter, request[orders[id].client_order_id].instrument)
     /\ MatchesId(filter, id)
     /\ filter.status \in {"kUnknown", orders[id].status}}

\* The places in trades_ of the trades in the answer.  SendOrder leaves the order_id of
\* a trade empty, so a filter on it finds nothing.
FoundTrades(filter) ==
  {n \in DOMAIN trades :
     /\ Matches(filter, request[trades[n].client_order_id].instrument)
     /\ ~ filter.has_order_id
     /\ MatchesId(filter, trades[n].broker_order_id)}

\* The answer grows trade by trade, in the order of trades_.
QueryTrades(filter) ==
  LET answer[n \in 0 .. Len(trades)] ==
        IF n = 0 THEN <<>>
        ELSE IF n \in FoundTrades(filter) THEN Append(answer[n - 1], trades[n]) ELSE answer[n - 1]
  IN answer[Len(trades)]

SlipSideIgnored(trade) == request[trade.client_order_id].volume

SignedVolume(trade) ==
  LET r == request[trade.client_order_id]
  IN IF r.side = "kBuy" THEN r.volume ELSE - r.volume

TradesIn(instrument) ==
  {n \in DOMAIN trades : request[trades[n].client_order_id].instrument = instrument}

\* The position of an instrument before its direction is set.
NetVolume(instrument) ==
  SumFunctionOnSet([n \in DOMAIN trades |-> SignedVolume(trades[n])], TradesIn(instrument))

QueryPositions(filter) ==
  {[instrument   |-> i,
    direction    |-> IF NetVolume(i) < 0 THEN "kShort" ELSE "kLong",
    total_volume |-> IF NetVolume(i) < 0 THEN - NetVolume(i) ELSE NetVolume(i)] :
     i \in {j \in Instruments : Matches(filter, j) /\ TradesIn(j) # {}}}

-----------------------------------------------------------------------------
(* Properties *)

FilledOf(instrument) ==
  QueryOrders([instrument |-> instrument, broker_order_id |-> 0, status |-> "kFilled"])

SignedTraded(id) ==
  IF request[orders[id].client_order_id].side = "kBuy"
    THEN orders[id].traded_volume ELSE - orders[id].traded_volume

\* The positions, which QueryPositions sums from trades_, are those of the filled
\* orders QueryOrders returns at the same instant, in size and in direction; an
\* instrument without a filled order has no position.
PositionsMatchOrders ==
  \A i \in Instruments :
    LET positions == QueryPositions([instrument |-> i])
        traded    == SumFunctionOnSet([id \in DOMAIN orders |-> SignedTraded(id)], FilledOf(i))
    IN IF FilledOf(i) = {}
         THEN positions = {}
         ELSE \E p \in positions :
                /\ positions = {p}
                /\ p.instrument = i
                /\ (IF p.direction = "kShort" THEN - p.total_volume ELSE p.total_volume) = traded

TradeFilters == [instrument : Instruments \cup {AnyInstrument}, has_order_id : {FALSE},
                 broker_order_id : {0} \cup DOMAIN orders]

\* A client that polls QueryTrades with the same filter sees the trades it knows,
\* in the same order, and then the new ones.
PolledTradesOnlyGrow ==
  [][\A filter \in TradeFilters : IsPrefix(QueryTrades(filter), QueryTrades(filter)')]_vars
=============================================================================
