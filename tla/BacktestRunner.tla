--------------------------- MODULE BacktestRunner ---------------------------
(*****************************************************************************)
(* BacktestRunner::run_batch (core_engine/src/backtest.rs) with the state of *)
(* the SimBroker, RiskManager and MetricsEngine it owns.                     *)
(*                                                                           *)
(* The loop is cut where control leaves Rust: the strategy's on_bar returns  *)
(* a list of orders or raises, and on_trade returns or raises after every    *)
(* fill.  An exception leaves run_batch at once (the `?' operator) with the  *)
(* books as they are; the runner object survives and run_batch may be        *)
(* called again.  Between two bars nothing tells one batch from the next     *)
(* (finalize only reads), so a batch boundary is not a step of its own.      *)
(* Python cannot re-enter the runner from a callback: run_batch holds        *)
(* &mut self, and every other method would fail to borrow it.                *)
(*****************************************************************************)
EXTENDS SimBroker, RiskManager, Sequences, FiniteSets, Functions

CONSTANTS
    Symbols,       \* symbol ids
    Bars,          \* bars that may arrive: [symbol, day, open, high, low, close]
    Requests,      \* tuples a strategy may return: [symbol, direction, type, price, volume]
    MaxOrders      \* bound: orders the strategy returns during a behaviour

BarType == [symbol : Symbols, day : Nat, open : Nat, high : Nat, low : Nat, close : Nat]
RequestType == [symbol : Symbols, direction : Directions, type : OrderTypes,
                price : Nat, volume : Int]

ASSUME RunnerAssumption ==
    /\ IsFiniteSet(Symbols)
    /\ Bars \subseteq BarType
    /\ Requests \subseteq RequestType
    /\ MaxOrders \in Nat

VARIABLES
    phase,          \* where run_batch stands: idle, parsing, matching, notifying
    outcome,        \* "error" once the current bar was left by an exception
    bar,            \* the bar of the current iteration
    day,            \* datetime of the latest bar, as a day number
    parsed,         \* the orders of this bar that passed the risk check
    idx,            \* the order the matching loop is at
    trade,          \* the fill being reported to on_trade
    cash, positions, latestPrice, nextOrderId,            \* BacktestRunner
    nextTradeId,                                          \* SimBroker
    dailyPnl, riskPositions,                              \* RiskManager
    metrics,        \* MetricsEngine: trades, wins, gross profit and loss
    lastEquity      \* MetricsEngine: last entry of equity_curve

loopVars == <<phase, outcome, bar, day, parsed, idx, trade>>
moneyVars == <<cash, positions, dailyPnl, riskPositions, metrics, nextTradeId>>
vars == <<loopVars, moneyVars, latestPrice, nextOrderId, lastEquity>>

NoBar == [day |-> 0]
NoTrade == [volume |-> 0]

OrderType ==
    [id : Nat, symbol : Symbols, direction : Directions, type : OrderTypes,
     price : Nat, volume : Int, filled : Int, status : OrderStatuses]
TradeType ==
    [id : Nat, orderId : Nat, symbol : Symbols, direction : Directions,
     price : Int, volume : Int, commission : Int]
PositionType == [net : Int, avg : Int, upnl : Int, rpnl : Int]
MetricsType == [trades : Nat, wins : Nat, profit : Int, loss : Int]

Init ==
    /\ phase = "idle"
    /\ outcome = "ok"
    /\ bar = NoBar
    /\ day = 0
    /\ parsed = << >>
    /\ idx = 1
    /\ trade = NoTrade
    /\ cash = InitialCapital
    /\ positions = [s \in Symbols |-> FlatPosition]
    /\ latestPrice = [s \in Symbols |-> 0]
    /\ nextOrderId = 1
    /\ nextTradeId = 1
    /\ dailyPnl = 0
    /\ riskPositions = [s \in Symbols |-> 0]
    /\ metrics = [trades |-> 0, wins |-> 0, profit |-> 0, loss |-> 0]
    /\ lastEquity = InitialCapital

(* A symbol without a price contributes nothing: its price is 0 here. *)
MarketValue == [s \in Symbols |-> positions[s].net * latestPrice[s]]
Equity == cash + SumFunctionOnSet(MarketValue, Symbols)

-----------------------------------------------------------------------------
(* The next bar of the batch, or the first of a new batch.  Bars come sorted
   by datetime.                                                             *)
StartBar(b) ==
    /\ phase = "idle"
    /\ b.day >= day
    /\ phase' = "parsing"
    /\ outcome' = "ok"
    /\ bar' = b
    /\ day' = b.day
    /\ latestPrice' = [latestPrice EXCEPT ![b.symbol] = b.close]
    /\ UNCHANGED <<parsed, idx, trade, moneyVars, nextOrderId, lastEquity>>

(* run_batch gives up on this bar and on the rest of the batch. *)
Abort ==
    /\ phase' = "idle"
    /\ outcome' = "error"
    /\ bar' = NoBar
    /\ parsed' = << >>
    /\ idx' = 1
    /\ trade' = NoTrade
    /\ UNCHANGED <<day, moneyVars, latestPrice, nextOrderId, lastEquity>>

(* on_bar raised, did not return a list, or an item of the list is not a
   (symbol, long, limit, price, volume) tuple.                              *)
StrategyFails ==
    /\ phase = "parsing"
    /\ Abort

OrderFrom(r) ==
    [id |-> nextOrderId, symbol |-> r.symbol, direction |-> r.direction, type |-> r.type,
     price |-> r.price, volume |-> r.volume, filled |-> 0, status |-> "Submitted"]

(* One item of the strategy's list becomes an order and is checked against
   the risk limits at this bar's close, before any order of the bar is
   matched.                                                                 *)
ParseOrder(r) ==
    /\ phase = "parsing"
    /\ nextOrderId <= MaxOrders
    /\ nextOrderId' = nextOrderId + 1
    /\ parsed' = IF RiskCheck(OrderFrom(r), dailyPnl, riskPositions[r.symbol], bar.close)
                 THEN Append(parsed, OrderFrom(r))
                 ELSE parsed
    /\ UNCHANGED <<phase, outcome, bar, day, idx, trade, moneyVars, latestPrice, lastEquity>>

(* The list is exhausted. *)
StartMatching ==
    /\ phase = "parsing"
    /\ phase' = "matching"
    /\ UNCHANGED <<outcome, bar, day, parsed, idx, trade, moneyVars, latestPrice,
                   nextOrderId, lastEquity>>

(* match_order returns None: the order is refused at the price limit, has
   nothing left to fill, or is a limit order the bar did not reach.  It is
   dropped with the rest of `parsed' at the end of the bar.                 *)
MissOrder ==
    /\ phase = "matching"
    /\ idx <= Len(parsed)
    /\ ~Fills(parsed[idx], bar)
    /\ parsed' = [parsed EXCEPT ![idx] = Missed(@, bar)]
    /\ idx' = idx + 1
    /\ UNCHANGED <<phase, outcome, bar, day, trade, moneyVars, latestPrice, nextOrderId,
                   lastEquity>>

CashDelta_FeeRefunded(d, value, fee) == IF d = "Long" THEN -(value + fee) ELSE value + fee
CashDelta(d, value, fee) == IF d = "Long" THEN -(value + fee) ELSE value - fee

(* What update_position is told about a fill of volume v. *)
RiskDelta_WholeOrder(o, v) == Signed(o.direction, o.volume)
RiskDelta(o, v) == Signed(o.direction, v)

RecordTrade(m, pnl) ==
    [trades |-> m.trades + 1,
     wins   |-> IF pnl > 0 THEN m.wins + 1 ELSE m.wins,
     profit |-> IF pnl > 0 THEN m.profit + pnl ELSE m.profit,
     loss   |-> IF pnl < 0 THEN m.loss - pnl ELSE m.loss]

(* The books after order o filled volume v at price p.  The commission is
   taken from cash and counted against the daily P&L, never against the
   position's own realized P&L.                                             *)
BookFill(o, p, v) ==
    LET signed == Signed(o.direction, v)
        fee    == CommissionOn(p, v)
        pnl    == Realized(positions[o.symbol], signed, p) - fee
    IN  /\ cash' = cash + CashDelta(o.direction, p * v, fee)
        /\ positions' = [positions EXCEPT ![o.symbol] = ApplyTrade(@, signed, p)]
        /\ dailyPnl' = dailyPnl + pnl
        /\ riskPositions' = [riskPositions EXCEPT ![o.symbol] = @ + RiskDelta(o, v)]
        /\ metrics' = RecordTrade(metrics, pnl)
        /\ nextTradeId' = nextTradeId + 1
        /\ trade' = [id |-> nextTradeId, orderId |-> o.id, symbol |-> o.symbol,
                     direction |-> o.direction, price |-> p, volume |-> v,
                     commission |-> fee]

(* match_order returns a fill: every book is updated, then on_trade is called.
   The order is matched against the current bar whatever symbol it is for.  *)
FillOrder ==
    /\ phase = "matching"
    /\ idx <= Len(parsed)
    /\ Fills(parsed[idx], bar)
    /\ BookFill(parsed[idx], FillPrice(parsed[idx], bar), FillVolume(parsed[idx]))
    /\ parsed' = [parsed EXCEPT ![idx] = Filled(@)]
    /\ phase' = "notifying"
    /\ UNCHANGED <<outcome, bar, day, idx, latestPrice, nextOrderId, lastEquity>>

TradeCallbackReturns ==
    /\ phase = "notifying"
    /\ phase' = "matching"
    /\ idx' = idx + 1
    /\ trade' = NoTrade
    /\ UNCHANGED <<outcome, bar, day, parsed, moneyVars, latestPrice, nextOrderId, lastEquity>>

TradeCallbackRaises ==
    /\ phase = "notifying"
    /\ Abort

(* Every order of the bar was tried: mark the bar's symbol to market and
   record the bar's equity.                                                 *)
EndBar_EquityFromUnrealized ==
    /\ phase = "matching"
    /\ idx > Len(parsed)
    /\ phase' = "idle"
    /\ positions' = [positions EXCEPT ![bar.symbol] = MarkToMarket(@, bar.close)]
    /\ lastEquity' = lastEquity + positions'[bar.symbol].upnl - positions[bar.symbol].upnl
    /\ bar' = NoBar
    /\ parsed' = << >>
    /\ idx' = 1
    /\ UNCHANGED <<outcome, day, trade, cash, dailyPnl, riskPositions, metrics, nextTradeId,
                   latestPrice, nextOrderId>>
EndBar ==
    /\ phase = "matching"
    /\ idx > Len(parsed)
    /\ phase' = "idle"
    /\ positions' = [positions EXCEPT ![bar.symbol] = MarkToMarket(@, bar.close)]
    /\ lastEquity' = Equity
    /\ bar' = NoBar
    /\ parsed' = << >>
    /\ idx' = 1
    /\ UNCHANGED <<outcome, day, trade, cash, dailyPnl, riskPositions, metrics, nextTradeId,
                   latestPrice, nextOrderId>>

Next ==
    \/ \E b \in Bars : StartBar(b)
    \/ StrategyFails
    \/ \E r \in Requests : ParseOrder(r)
    \/ StartMatching
    \/ MissOrder
    \/ FillOrder
    \/ TradeCallbackReturns
    \/ TradeCallbackRaises
    \/ EndBar

Spec == Init /\ [][Next]_vars

-----------------------------------------------------------------------------
(* Every variable holds a value of its type; outside a bar nothing of the
   bar is left over.  lastEquity is pinned by EquityIsCurrent instead.      *)
TypeOK ==
    /\ phase \in {"idle", "parsing", "matching", "notifying"}
    /\ outcome \in {"ok", "error"}
    /\ IF phase = "idle" THEN bar = NoBar ELSE bar \in Bars
    /\ day \in Nat
    /\ parsed \in Seq(OrderType)
    /\ idx \in 1 .. Len(parsed) + 1
    /\ IF phase = "notifying" THEN trade \in TradeType ELSE trade = NoTrade
    /\ phase = "notifying" => idx <= Len(parsed)
    /\ phase \in {"idle", "parsing"} => idx = 1
    /\ cash \in Int
    /\ positions \in [Symbols -> PositionType]
    /\ latestPrice \in [Symbols -> Nat]
    /\ nextOrderId \in Nat \ {0}
    /\ nextTradeId \in Nat \ {0}
    /\ dailyPnl \in Int
    /\ riskPositions \in [Symbols -> Int]
    /\ metrics \in MetricsType

(* The risk manager's own copy of the positions and of the P&L agrees with
   the books at every point where control is in Python, also when a callback
   raises between two fills of a bar.  If they drifted apart the position cap
   would be enforced against a position nobody holds.                       *)
RiskMirrorsBooks ==
    /\ \A s \in Symbols : riskPositions[s] = positions[s].net
    /\ dailyPnl = metrics.profit - metrics.loss
    /\ metrics.trades = nextTradeId - 1

(* After a bar that completed, the equity curve ends with cash plus market
   value at the latest prices ("final_equity: cash + market value at last
   bar"), also when fills moved positions of several symbols in that bar.   *)
EquityIsCurrent == phase = "idle" /\ outcome = "ok" => lastEquity = Equity

NotOverfilled(o) ==
    /\ o.filled > 0 => /\ o.filled <= o.volume
                       /\ MaxFillVolumePerBar > 0 => o.filled <= MaxFillVolumePerBar
    /\ o.status = "Filled" => Remaining(o) <= 0
    /\ o.status = "PartiallyFilled" => o.filled > 0 /\ Remaining(o) > 0

(* No order fills more than its volume, nor more than the per-bar cap, and an
   order is Filled exactly when nothing of it remains.                      *)
OrdersNotOverfilled == \A i \in 1 .. Len(parsed) : NotOverfilled(parsed[i])

(* The first fill of a bar never leaves its symbol above the position cap,
   unless the position was above it before and the fill shrank it (a partial
   fill of a closing order).  Orders are checked one by one against the
   position before the bar, so later fills of the bar have no such guarantee. *)
FirstFillWithinCap ==
    [][ /\ phase = "matching" /\ phase' = "notifying"
        /\ \A i \in 1 .. Len(parsed) : parsed[i].filled = 0
        => LET s == trade'.symbol IN
           OverCap(positions'[s].net, bar.close)
               => Abs(positions'[s].net) <= Abs(positions[s].net) ]_vars

(* Every fill other than a partial close keeps the books in balance: what it
   takes from cash it adds to the position's cost or to the P&L.  Where the
   fill averages two prices, the quotient has to be exact.                  *)
AverageIsExact(pos, signed, price) ==
    pos.net # 0 /\ ~Closes(pos, signed)
        => (pos.avg * Abs(pos.net) + price * Abs(signed)) % (Abs(pos.net) + Abs(signed)) = 0
FillConservesBookValue ==
    [][ phase = "matching" /\ phase' = "notifying"
        => LET s == trade'.symbol
               signed == Signed(trade'.direction, trade'.volume)
           IN  ~ClosesPartly(positions[s], signed) /\ AverageIsExact(positions[s], signed, trade'.price)
               => cash' + BookValue(positions'[s]) - dailyPnl'
                    = cash + BookValue(positions[s]) - dailyPnl ]_vars

(* Cash and positions move only together, in fills: the runner implements the
   abstract ledger.                                                         *)
FillPrices == {FillPrice(r, b) : r \in Requests, b \in Bars}
Book == INSTANCE Ledger WITH
            Capital <- InitialCapital,
            Prices  <- FillPrices,
            Volumes <- 1 .. MaxOrderVolume,
            Fee     <- CommissionOn,
            net     <- [s \in Symbols |-> positions[s].net]
ImplementsLedger == Book!Spec

-----------------------------------------------------------------------------
(* Statements of the repository the code does not keep, each refuted by a run
   of its own.                                                              *)

(* object.rs: "flipped side: new avg = fill price".  The average price is
   reset to the fill price only by a fill that flips the side.              *)
PartialCloseKeepsAverage ==
    [][ phase = "matching" /\ phase' = "notifying"
        => LET s == trade'.symbol
               signed == Signed(trade'.direction, trade'.volume)
           IN  ClosesPartly(positions[s], signed) => positions'[s].avg = positions[s].avg ]_vars

(* "halt if intraday P&L < -2%", "daily loss limit", RiskManager::reset_daily:
   the losses of one day do not halt the next.                              *)
HaltEndsWithDay == [][ day' > day => ~DailyLossExceeded(dailyPnl') ]_vars
==============================================================================
