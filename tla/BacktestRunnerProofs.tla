------------------------- MODULE BacktestRunnerProofs -------------------------
(***************************************************************************)
(* Theorems about BacktestRunner for every set of symbols, bars and orders *)
(* and every configuration that meets the named assumptions.               *)
(***************************************************************************)
EXTENDS BacktestRunner, SumTheorems, TLAPS

(* Dividing by a positive number stays in the integers. *)
LEMMA QuotientInt ==
    ASSUME NEW a \in Int, NEW b \in Int, b > 0
    PROVE  a \div b \in Int
OBVIOUS

(* Slippage and commission of integer amounts are integers. *)
LEMMA ScaledInt ==
    ASSUME NEW x \in Int, NEW pct \in Int
    PROVE  Scaled(x, pct) \in Int
BY QuotientInt DEF Scaled

LEMMA CommissionInt ==
    ASSUME NEW p \in Int, NEW v \in Int
    PROVE  CommissionOn(p, v) \in Int
<1>1. p * v * CommissionPct \in Int
  BY BrokerAssumption
<1> QED
  BY <1>1, QuotientInt DEF CommissionOn

LEMMA SignedInt ==
    ASSUME NEW d \in Directions, NEW v \in Int
    PROVE  Signed(d, v) \in Int
BY DEF Signed

(* The profit a fill realizes is an integer. *)
LEMMA RealizedInt ==
    ASSUME NEW pos \in PositionType, NEW signed \in Int, NEW p \in Int
    PROVE  Realized(pos, signed, p) \in Int
BY DEF Realized, PositionType, Lesser, Abs, Signum

(* apply_trade yields a position again: the weighted average never divides by
   zero, because it is only taken over an open position.                    *)
LEMMA ApplyTradeType ==
    ASSUME NEW pos \in PositionType, NEW signed \in Int, NEW p \in Int
    PROVE  ApplyTrade(pos, signed, p) \in PositionType
<1>1. AverageAfter(pos, signed, p) \in Int
  <2>1. CASE pos.net = 0
    BY <2>1 DEF AverageAfter
  <2>2. CASE pos.net # 0 /\ ~Closes(pos, signed)
    <3>1. Abs(pos.net) \in Int /\ Abs(pos.net) > 0 /\ Abs(signed) \in Int /\ Abs(signed) >= 0
      BY <2>2 DEF Abs, PositionType
    <3>2. pos.avg * Abs(pos.net) + p * Abs(signed) \in Int
      BY <3>1 DEF PositionType
    <3>3. (pos.avg * Abs(pos.net) + p * Abs(signed)) \div (Abs(pos.net) + Abs(signed)) \in Int
      BY <3>1, <3>2, QuotientInt
    <3> QED
      BY <2>2, <3>3 DEF AverageAfter, Closes
  <2>3. CASE pos.net # 0 /\ Closes(pos, signed)
    BY <2>3 DEF AverageAfter, PositionType
  <2> QED
    BY <2>1, <2>2, <2>3
<1>2. /\ pos.net + signed \in Int
      /\ pos.rpnl + Realized(pos, signed, p) \in Int
  BY RealizedInt DEF PositionType
<1> QED
  BY <1>1, <1>2 DEF ApplyTrade, PositionType

LEMMA MarkToMarketType ==
    ASSUME NEW pos \in PositionType, NEW p \in Int
    PROVE  MarkToMarket(pos, p) \in PositionType
BY DEF MarkToMarket, PositionType

(* A fill has an integer price and volume; a volume that fills is positive
   and no larger than what remained.                                        *)
LEMMA FillPriceInt ==
    ASSUME NEW o \in OrderType, NEW b \in Bars
    PROVE  FillPrice(o, b) \in Int
<1>1. b \in BarType
  BY RunnerAssumption
<1>2. /\ Scaled(b.open, SlippagePct) \in Int
      /\ Scaled(b.open, -SlippagePct) \in Int
  <2>1. b.open \in Int /\ SlippagePct \in Int /\ -SlippagePct \in Int
    BY <1>1, BrokerAssumption DEF BarType
  <2> QED
    BY <2>1, ScaledInt
<1>3. /\ o.type = "Limit" \/ o.type = "Market"
      /\ o.direction = "Long" \/ o.direction = "Short"
      /\ o.price \in Int
  BY DEF OrderType, OrderTypes, Directions
<1> QED
  BY <1>2, <1>3 DEF FillPrice

LEMMA FillVolumeBounds ==
    ASSUME NEW o \in OrderType
    PROVE  /\ FillVolume(o) \in Int
           /\ FillVolume(o) <= Remaining(o)
           /\ Remaining(o) > 0 => FillVolume(o) > 0
BY BrokerAssumption DEF FillVolume, Remaining, OrderType, Lesser

LEMMA MatchedOrderType ==
    ASSUME NEW o \in OrderType, NEW b \in Bars
    PROVE  Filled(o) \in OrderType /\ Missed(o, b) \in OrderType
<1>1. Filled(o) \in OrderType
  <2>1. o.filled + FillVolume(o) \in Int
    BY FillVolumeBounds DEF OrderType
  <2> QED
    BY <2>1 DEF Filled, OrderType, OrderStatuses
<1>2. Missed(o, b) \in OrderType
  BY DEF Missed, OrderType, OrderStatuses
<1> QED
  BY <1>1, <1>2

-----------------------------------------------------------------------------
(* Booking a fill keeps the types of every book. *)
LEMMA BookFillType ==
    ASSUME TypeOK, NEW o \in OrderType, NEW p \in Int, NEW v \in Int, BookFill(o, p, v)
    PROVE  /\ cash' \in Int
           /\ positions' \in [Symbols -> PositionType]
           /\ dailyPnl' \in Int
           /\ riskPositions' \in [Symbols -> Int]
           /\ metrics' \in MetricsType
           /\ nextTradeId' \in Nat \ {0}
           /\ trade' \in TradeType
<1> DEFINE signed == Signed(o.direction, v)
           fee    == CommissionOn(p, v)
           pnl    == Realized(positions[o.symbol], signed, p) - fee
<1>1. /\ o.symbol \in Symbols
      /\ o.direction \in Directions
      /\ o.id \in Nat
  BY DEF OrderType
<1>2. positions[o.symbol] \in PositionType /\ riskPositions[o.symbol] \in Int
  BY <1>1 DEF TypeOK
<1>3. signed \in Int
  BY <1>1, SignedInt
<1>4. fee \in Int
  BY CommissionInt
<1>5. pnl \in Int
  BY <1>2, <1>3, <1>4, RealizedInt
<1>6. cash' \in Int
  <2>1. cash' = cash + CashDelta(o.direction, p * v, fee)
    BY DEF BookFill
  <2>2. p * v \in Int
    OBVIOUS
  <2> QED
    BY <1>4, <2>1, <2>2 DEF CashDelta, TypeOK
<1>7. positions' \in [Symbols -> PositionType]
  <2>1. positions' = [positions EXCEPT ![o.symbol] = ApplyTrade(positions[o.symbol], signed, p)]
    BY DEF BookFill
  <2>2. ApplyTrade(positions[o.symbol], signed, p) \in PositionType
    BY <1>2, <1>3, ApplyTradeType
  <2> QED
    BY <2>1, <2>2 DEF TypeOK
<1>8. dailyPnl' \in Int
  BY <1>5 DEF BookFill, TypeOK
<1>9. riskPositions' \in [Symbols -> Int]
  <2>1. RiskDelta(o, v) \in Int
    BY <1>1, SignedInt DEF RiskDelta
  <2>2. riskPositions' = [riskPositions EXCEPT ![o.symbol] =
                                riskPositions[o.symbol] + RiskDelta(o, v)]
    BY DEF BookFill
  <2>3. riskPositions[o.symbol] + RiskDelta(o, v) \in Int
    BY <1>2, <2>1
  <2> QED
    BY <2>2, <2>3 DEF TypeOK
<1>10. metrics' \in MetricsType
  <2>1. metrics' = RecordTrade(metrics, pnl)
    BY DEF BookFill
  <2> QED
    BY <1>5, <2>1 DEF RecordTrade, MetricsType, TypeOK
<1>11. nextTradeId' \in Nat \ {0}
  BY DEF BookFill, TypeOK
<1>12. trade' \in TradeType
  BY <1>1, <1>4 DEF BookFill, TradeType, TypeOK
<1> QED
  BY <1>6, <1>7, <1>8, <1>9, <1>10, <1>11, <1>12

LEMMA InitTypeOK == Init => TypeOK
BY RiskAssumption
   DEF Init, TypeOK, FlatPosition, PositionType, MetricsType

(* Every step of run_batch keeps the types. *)
LEMMA NextTypeOK == TypeOK /\ [Next]_vars => TypeOK'
<1> SUFFICES ASSUME TypeOK, [Next]_vars
             PROVE  TypeOK'
  OBVIOUS
<1> USE DEF loopVars, moneyVars
<1>1. ASSUME NEW b \in Bars, StartBar(b)
      PROVE  TypeOK'
  <2>1. b \in BarType
    BY RunnerAssumption
  <2>2. latestPrice' \in [Symbols -> Nat]
    BY <1>1, <2>1 DEF StartBar, TypeOK, BarType
  <2>3. day' \in Nat
    BY <1>1, <2>1 DEF StartBar, BarType
  <2> QED
    BY <1>1, <2>2, <2>3 DEF StartBar, TypeOK
<1>2. ASSUME Abort
      PROVE  TypeOK'
  BY <1>2 DEF Abort, TypeOK
<1>3. ASSUME NEW r \in Requests, ParseOrder(r)
      PROVE  TypeOK'
  <2>1. OrderFrom(r) \in OrderType
    <3>1. r \in RequestType
      BY RunnerAssumption
    <3>2. nextOrderId \in Nat
      BY DEF TypeOK
    <3> QED
      BY <3>1, <3>2 DEF OrderFrom, OrderType, RequestType, OrderStatuses
  <2>2. parsed' \in Seq(OrderType) /\ Len(parsed') \in Nat
    BY <1>3, <2>1 DEF ParseOrder, TypeOK
  <2>3. idx' = 1
    BY <1>3 DEF ParseOrder, TypeOK
  <2> QED
    BY <1>3, <2>2, <2>3 DEF ParseOrder, TypeOK
<1>4. CASE StartMatching
  BY <1>4 DEF StartMatching, TypeOK
<1>5. CASE MissOrder
  <2>1. parsed[idx] \in OrderType /\ bar \in Bars
    BY <1>5 DEF MissOrder, TypeOK
  <2>2. Missed(parsed[idx], bar) \in OrderType
    BY <2>1, MatchedOrderType
  <2>3. parsed' \in Seq(OrderType) /\ Len(parsed') = Len(parsed)
    BY <1>5, <2>2 DEF MissOrder, TypeOK
  <2>4. idx' \in 1 .. Len(parsed') + 1
    BY <1>5, <2>3 DEF MissOrder, TypeOK
  <2> QED
    BY <1>5, <2>3, <2>4 DEF MissOrder, TypeOK
<1>6. CASE FillOrder
  <2>1. parsed[idx] \in OrderType /\ bar \in Bars
    BY <1>6 DEF FillOrder, TypeOK
  <2>2. Filled(parsed[idx]) \in OrderType
    BY <2>1, MatchedOrderType
  <2>3. parsed' \in Seq(OrderType) /\ Len(parsed') = Len(parsed)
    BY <1>6, <2>2 DEF FillOrder, TypeOK
  <2>4. /\ FillPrice(parsed[idx], bar) \in Int
        /\ FillVolume(parsed[idx]) \in Int
    BY <2>1, FillPriceInt, FillVolumeBounds
  <2>5. BookFill(parsed[idx], FillPrice(parsed[idx], bar), FillVolume(parsed[idx]))
    BY <1>6 DEF FillOrder
  <2>6. /\ cash' \in Int
        /\ positions' \in [Symbols -> PositionType]
        /\ dailyPnl' \in Int
        /\ riskPositions' \in [Symbols -> Int]
        /\ metrics' \in MetricsType
        /\ nextTradeId' \in Nat \ {0}
        /\ trade' \in TradeType
    BY <2>1, <2>4, <2>5, BookFillType
  <2> QED
    BY <1>6, <2>3, <2>6 DEF FillOrder, TypeOK
<1>7. CASE TradeCallbackReturns
  BY <1>7 DEF TradeCallbackReturns, TypeOK
<1>8. CASE EndBar
  <2>1. bar \in BarType
    BY <1>8, RunnerAssumption DEF EndBar, TypeOK
  <2>2. MarkToMarket(positions[bar.symbol], bar.close) \in PositionType
    BY <2>1, MarkToMarketType DEF BarType, TypeOK
  <2>3. positions' \in [Symbols -> PositionType]
    BY <1>8, <2>2 DEF EndBar, TypeOK
  <2> QED
    BY <1>8, <2>3 DEF EndBar, TypeOK
<1>9. CASE UNCHANGED vars
  BY <1>9 DEF vars, TypeOK
<1> QED
  BY <1>1, <1>2, <1>3, <1>4, <1>5, <1>6, <1>7, <1>8, <1>9
     DEF Next, StrategyFails, TradeCallbackRaises

(* Type correctness of the runner: every book holds integers, every order the
   loop looks at exists, and nothing of a bar is left over once it ended or
   was aborted by an exception.                                             *)
THEOREM RunnerTypeCorrect == Spec => []TypeOK
BY InitTypeOK, NextTypeOK, PTL DEF Spec

-----------------------------------------------------------------------------
LEMMA InitRiskMirrors == Init => RiskMirrorsBooks
BY DEF Init, RiskMirrorsBooks, FlatPosition

(* Recording a trade moves gross profit minus gross loss by its P&L. *)
LEMMA RecordTradeBalance ==
    ASSUME NEW m \in MetricsType, NEW pnl \in Int
    PROVE  LET n == RecordTrade(m, pnl) IN
           /\ n.profit - n.loss = (m.profit - m.loss) + pnl
           /\ n.trades = m.trades + 1
BY DEF RecordTrade, MetricsType

(* apply_trade moves the net position by the signed volume in all its cases. *)
LEMMA ApplyTradeNet ==
    ASSUME NEW pos \in PositionType, NEW signed \in Int, NEW p \in Int
    PROVE  ApplyTrade(pos, signed, p).net = pos.net + signed
BY DEF ApplyTrade, PositionType

(* Only a fill moves the books the invariant relates; it moves all of them. *)
LEMMA BookFillMirrors ==
    ASSUME TypeOK, RiskMirrorsBooks,
           NEW o \in OrderType, NEW p \in Int, NEW v \in Int, BookFill(o, p, v)
    PROVE  RiskMirrorsBooks'
<1> DEFINE signed == Signed(o.direction, v)
           pnl == Realized(positions[o.symbol], signed, p) - CommissionOn(p, v)
<1>1. /\ o.symbol \in Symbols /\ o.direction \in Directions
      /\ positions[o.symbol] \in PositionType
  BY DEF OrderType, TypeOK
<1>2. signed \in Int
  BY <1>1, SignedInt
<1>3. pnl \in Int
  <2>1. Realized(positions[o.symbol], signed, p) \in Int
    BY <1>1, <1>2, RealizedInt
  <2>2. CommissionOn(p, v) \in Int
    BY CommissionInt
  <2> QED
    BY <2>1, <2>2
<1>4. ASSUME NEW s \in Symbols
      PROVE  riskPositions'[s] = positions'[s].net
  <2>1. riskPositions' = [riskPositions EXCEPT ![o.symbol] = riskPositions[o.symbol] + signed]
    BY DEF BookFill, RiskDelta
  <2>2. positions' = [positions EXCEPT ![o.symbol] = ApplyTrade(positions[o.symbol], signed, p)]
    BY DEF BookFill
  <2>3. CASE s = o.symbol
    <3>1. riskPositions'[s] = riskPositions[s] + signed
      BY <2>1, <2>3 DEF TypeOK
    <3>2. positions'[s].net = positions[s].net + signed
      BY <1>1, <1>2, <2>2, <2>3, ApplyTradeNet DEF TypeOK
    <3> QED
      BY <3>1, <3>2 DEF RiskMirrorsBooks
  <2>4. CASE s # o.symbol
    BY <2>1, <2>2, <2>4 DEF RiskMirrorsBooks, TypeOK
  <2> QED
    BY <2>3, <2>4
<1>5. /\ dailyPnl' = dailyPnl + pnl
      /\ metrics' = RecordTrade(metrics, pnl)
      /\ nextTradeId' = nextTradeId + 1
  BY DEF BookFill
<1>6. /\ metrics'.profit - metrics'.loss = (metrics.profit - metrics.loss) + pnl
      /\ metrics'.trades = metrics.trades + 1
  BY <1>3, <1>5, RecordTradeBalance DEF TypeOK
<1>7. /\ dailyPnl' = metrics'.profit - metrics'.loss
      /\ metrics'.trades = nextTradeId' - 1
  <2>1. metrics.trades \in Int /\ nextTradeId \in Int
    BY DEF TypeOK, MetricsType
  <2> QED
    BY <1>5, <1>6, <2>1 DEF RiskMirrorsBooks
<1> QED
  BY <1>4, <1>7 DEF RiskMirrorsBooks

(* The risk manager always works on the positions and the P&L that are really
   held, at every bar, fill and exception, whatever the strategy does.       *)
THEOREM RunnerRiskMirrorsBooks == Spec => []RiskMirrorsBooks
<1>1. TypeOK /\ RiskMirrorsBooks /\ [Next]_vars => RiskMirrorsBooks'
  <2> SUFFICES ASSUME TypeOK, RiskMirrorsBooks, [Next]_vars
               PROVE  RiskMirrorsBooks'
    OBVIOUS
  <2>1. CASE FillOrder
    <3>1. parsed[idx] \in OrderType /\ bar \in Bars
      BY <2>1 DEF FillOrder, TypeOK
    <3>2. /\ FillPrice(parsed[idx], bar) \in Int
          /\ FillVolume(parsed[idx]) \in Int
      BY <3>1, FillPriceInt, FillVolumeBounds
    <3> QED
      BY <2>1, <3>1, <3>2, BookFillMirrors DEF FillOrder
  <2>2. CASE EndBar
    <3>1. bar.symbol \in Symbols
      BY <2>2, RunnerAssumption DEF EndBar, TypeOK, BarType
    <3>2. \A s \in Symbols : positions'[s].net = positions[s].net
      BY <2>2, <3>1 DEF EndBar, MarkToMarket, TypeOK, PositionType
    <3> QED
      BY <2>2, <3>2 DEF EndBar, RiskMirrorsBooks
  <2>3. ASSUME UNCHANGED moneyVars
        PROVE  RiskMirrorsBooks'
    BY <2>3 DEF moneyVars, RiskMirrorsBooks
  <2> QED
    BY <2>1, <2>2, <2>3
       DEF Next, vars, StartBar, StrategyFails, Abort, ParseOrder, StartMatching, MissOrder,
           TradeCallbackReturns, TradeCallbackRaises
<1> QED
  BY <1>1, InitRiskMirrors, RunnerTypeCorrect, PTL DEF Spec

-----------------------------------------------------------------------------
(* Between bars no order is left over: the Vec of parsed orders is local to
   the iteration.                                                           *)
IdleParsed == phase = "idle" => parsed = << >>

LEMMA RunnerIdleParsed == Spec => []IdleParsed
<1>1. Init => IdleParsed
  BY DEF Init, IdleParsed
<1>2. IdleParsed /\ [Next]_vars => IdleParsed'
  BY DEF IdleParsed, Next, vars, loopVars, moneyVars, StartBar, StrategyFails, Abort, ParseOrder,
         StartMatching, MissOrder, FillOrder, TradeCallbackReturns, TradeCallbackRaises, EndBar
<1> QED
  BY <1>1, <1>2, PTL DEF Spec

-----------------------------------------------------------------------------
(* The orders of a bar.  Each comes from a request of the strategy that passed
   the volume check, and those the loop has not reached are untouched.  With
   this, no order can fill twice or beyond its volume.                       *)
FromRequest(o) ==
    \E r \in Requests : /\ o.direction = r.direction
                        /\ o.type = r.type
                        /\ o.price = r.price

Unreached(i) == i > idx \/ (i = idx /\ phase # "notifying")

OrderInv(i) ==
    /\ parsed[i].volume <= MaxOrderVolume
    /\ FromRequest(parsed[i])
    /\ Unreached(i) => parsed[i].filled = 0 /\ parsed[i].status = "Submitted"
    /\ NotOverfilled(parsed[i])

ParsedInv == \A i \in 1 .. Len(parsed) : OrderInv(i)

(* A fill or a miss of an untouched order leaves it within its volume. *)
LEMMA MatchedNotOverfilled ==
    ASSUME NEW o \in OrderType, NEW b \in Bars, o.filled = 0, o.status = "Submitted"
    PROVE  /\ Fills(o, b) => NotOverfilled(Filled(o))
           /\ NotOverfilled(Missed(o, b))
<1>1. ASSUME Fills(o, b)
      PROVE  NotOverfilled(Filled(o))
  <2>1. /\ FillVolume(o) \in Int /\ FillVolume(o) > 0 /\ FillVolume(o) <= o.volume
        /\ o.volume \in Int /\ Remaining(o) = o.volume
    BY <1>1, FillVolumeBounds DEF Fills, Remaining, OrderType
  <2>2. MaxFillVolumePerBar > 0 => FillVolume(o) <= MaxFillVolumePerBar
    BY <2>1, BrokerAssumption DEF FillVolume, Lesser
  <2>3. /\ Filled(o).filled = FillVolume(o)
        /\ Filled(o).volume = o.volume
        /\ Filled(o).status = IF FillVolume(o) < Remaining(o) THEN "PartiallyFilled"
                                                              ELSE "Filled"
    BY <2>1 DEF Filled, OrderType
  <2> QED
    BY <2>1, <2>2, <2>3 DEF NotOverfilled, Remaining
<1>2. NotOverfilled(Missed(o, b))
  <2>1. /\ Missed(o, b).filled = 0
        /\ Missed(o, b).volume = o.volume
        /\ Missed(o, b).status = "Filled" => Remaining(o) <= 0
        /\ Missed(o, b).status # "PartiallyFilled"
    BY DEF Missed, OrderType
  <2> QED
    BY <2>1 DEF NotOverfilled, Remaining, OrderType
<1> QED
  BY <1>1, <1>2

LEMMA ParsedStep == TypeOK /\ ParsedInv /\ [Next]_vars => ParsedInv'
<1> SUFFICES ASSUME TypeOK, ParsedInv, [Next]_vars
             PROVE  ParsedInv'
  OBVIOUS
<1> USE DEF loopVars, moneyVars
<1>1. ASSUME UNCHANGED <<parsed, idx, phase>>
      PROVE  ParsedInv'
  BY <1>1 DEF ParsedInv, OrderInv, Unreached
<1>2. ASSUME parsed' = << >>
      PROVE  ParsedInv'
  BY <1>2 DEF ParsedInv
<1>3. ASSUME NEW b \in Bars, StartBar(b)
      PROVE  ParsedInv'
  BY <1>3 DEF StartBar, ParsedInv, OrderInv, Unreached
<1>4. ASSUME NEW r \in Requests, ParseOrder(r)
      PROVE  ParsedInv'
  <2>1. CASE parsed' = parsed
    BY <1>4, <2>1 DEF ParseOrder, ParsedInv, OrderInv, Unreached
  <2>2. CASE /\ parsed' = Append(parsed, OrderFrom(r))
             /\ RiskCheck(OrderFrom(r), dailyPnl, riskPositions[r.symbol], bar.close)
    <3> SUFFICES ASSUME NEW i \in 1 .. Len(parsed')
                 PROVE  OrderInv(i)'
      BY DEF ParsedInv
    <3>1. r \in RequestType
      BY RunnerAssumption
    <3>2. /\ Len(parsed') = Len(parsed) + 1
          /\ parsed'[Len(parsed) + 1] = OrderFrom(r)
          /\ \A j \in 1 .. Len(parsed) : parsed'[j] = parsed[j]
      BY <2>2 DEF TypeOK
    <3>3. CASE i \in 1 .. Len(parsed)
      BY <1>4, <3>2, <3>3 DEF ParseOrder, ParsedInv, OrderInv, Unreached
    <3>4. CASE i = Len(parsed) + 1
      <4>1. parsed'[i] = OrderFrom(r)
        BY <3>2, <3>4
      <4>2. OrderFrom(r).volume <= MaxOrderVolume
        BY <2>2, <3>1, RiskAssumption DEF RiskCheck, VolumeTooLarge, OrderFrom, RequestType
      <4>3. FromRequest(OrderFrom(r))
        BY <1>4 DEF FromRequest, OrderFrom
      <4>4. NotOverfilled(OrderFrom(r)) /\ OrderFrom(r).filled = 0
                                       /\ OrderFrom(r).status = "Submitted"
        BY DEF NotOverfilled, OrderFrom
      <4> QED
        BY <4>1, <4>2, <4>3, <4>4 DEF OrderInv, FromRequest
    <3> QED
      BY <3>2, <3>3, <3>4 DEF TypeOK
  <2> QED
    BY <1>4, <2>1, <2>2 DEF ParseOrder
<1>5. CASE StartMatching
  BY <1>5 DEF StartMatching, ParsedInv, OrderInv, Unreached
<1>6. ASSUME NEW o, phase = "matching", idx <= Len(parsed),
             parsed' = [parsed EXCEPT ![idx] = o],
             o.volume <= MaxOrderVolume, FromRequest(o), NotOverfilled(o),
             \/ phase' = phase /\ idx' = idx + 1
             \/ phase' = "notifying" /\ idx' = idx
      PROVE  ParsedInv'
  <2> SUFFICES ASSUME NEW i \in 1 .. Len(parsed')
               PROVE  OrderInv(i)'
    BY DEF ParsedInv
  <2>1. Len(parsed') = Len(parsed) /\ idx \in 1 .. Len(parsed)
    BY <1>6 DEF TypeOK
  <2>2. CASE i = idx
    <3>1. parsed'[i] = o /\ ~Unreached(i)'
      BY <1>6, <2>1, <2>2 DEF Unreached, TypeOK
    <3> QED
      BY <1>6, <3>1 DEF OrderInv, FromRequest
  <2>3. CASE i # idx
    <3>1. parsed'[i] = parsed[i] /\ OrderInv(i)
      BY <1>6, <2>1, <2>3 DEF ParsedInv, TypeOK
    <3>2. Unreached(i)' => Unreached(i)
      BY <1>6, <2>1, <2>3 DEF Unreached
    <3> QED
      BY <3>1, <3>2 DEF OrderInv, FromRequest
  <2> QED
    BY <2>2, <2>3
<1>7. ASSUME phase = "matching", idx <= Len(parsed)
      PROVE  /\ parsed[idx] \in OrderType /\ bar \in Bars
             /\ OrderInv(idx)
             /\ parsed[idx].filled = 0 /\ parsed[idx].status = "Submitted"
  BY <1>7 DEF TypeOK, ParsedInv, OrderInv, Unreached
<1>8. CASE MissOrder
  <2>1. NotOverfilled(Missed(parsed[idx], bar))
    BY <1>7, <1>8, MatchedNotOverfilled DEF MissOrder
  <2>2. /\ Missed(parsed[idx], bar).volume <= MaxOrderVolume
        /\ FromRequest(Missed(parsed[idx], bar))
    BY <1>7, <1>8 DEF MissOrder, Missed, OrderInv, FromRequest, OrderType
  <2> QED
    BY <1>6, <1>8, <2>1, <2>2 DEF MissOrder
<1>9. CASE FillOrder
  <2>1. NotOverfilled(Filled(parsed[idx]))
    BY <1>7, <1>9, MatchedNotOverfilled DEF FillOrder
  <2>2. /\ Filled(parsed[idx]).volume <= MaxOrderVolume
        /\ FromRequest(Filled(parsed[idx]))
    BY <1>7, <1>9 DEF FillOrder, Filled, OrderInv, FromRequest, OrderType
  <2> QED
    BY <1>6, <1>9, <2>1, <2>2 DEF FillOrder
<1>10. CASE TradeCallbackReturns
  <2>1. ASSUME NEW i \in 1 .. Len(parsed)
        PROVE  Unreached(i)' => Unreached(i)
    BY <1>10 DEF TradeCallbackReturns, Unreached, TypeOK
  <2> QED
    BY <1>10, <2>1 DEF TradeCallbackReturns, ParsedInv, OrderInv
<1>11. CASE EndBar \/ StrategyFails \/ TradeCallbackRaises
  BY <1>2, <1>11 DEF EndBar, StrategyFails, TradeCallbackRaises, Abort
<1> QED
  BY <1>1, <1>3, <1>4, <1>5, <1>8, <1>9, <1>10, <1>11 DEF Next, vars

LEMMA RunnerParsedInv == Spec => []ParsedInv
<1>1. Init => ParsedInv
  BY DEF Init, ParsedInv
<1> QED
  BY <1>1, ParsedStep, RunnerTypeCorrect, PTL DEF Spec

(* No order fills more than its volume or than a bar may fill. *)
THEOREM RunnerOrdersNotOverfilled == Spec => []OrdersNotOverfilled
<1>1. ParsedInv => OrdersNotOverfilled
  BY DEF ParsedInv, OrderInv, OrdersNotOverfilled
<1> QED
  BY <1>1, RunnerParsedInv, PTL

-----------------------------------------------------------------------------
(* The position cap.  Until the first fill of the bar the positions are those
   the risk check saw, so every accepted order alone stays within the cap.   *)
NothingFilled == \A i \in 1 .. Len(parsed) : parsed[i].filled = 0

WithinCapAlone(o) == ~OverCap(positions[o.symbol].net + Signed(o.direction, o.volume), bar.close)

CapInv == NothingFilled => \A i \in 1 .. Len(parsed) : WithinCapAlone(parsed[i])

(* A part of a fill leaves the position between where it was and where the
   whole fill would have taken it.                                           *)
LEMMA PartOfFill ==
    ASSUME NEW n \in Int, NEW d \in Directions, NEW v \in Int, NEW whole \in Int,
           0 < v, v <= whole
    PROVE  \/ Abs(n + Signed(d, v)) <= Abs(n)
           \/ Abs(n + Signed(d, v)) <= Abs(n + Signed(d, whole))
BY DEF Abs, Signed, Directions

(* If a position is above the cap, so is a larger one at the same price. *)
LEMMA OverCapMonotone ==
    ASSUME NEW m \in Int, NEW n \in Int, NEW price \in Nat, Abs(m) <= Abs(n), OverCap(m, price)
    PROVE  OverCap(n, price)
<1> DEFINE a == Abs(m)
           b == Abs(n)
           cap == InitialCapital * MaxPositionPct
<1>1. a \in Int /\ b \in Int /\ a <= b /\ cap \in Int /\ a * price * 100 > cap
  BY RiskAssumption DEF Abs, OverCap
<1>2. b * price * 100 > cap
  <2> HIDE DEF a, b, cap
  <2>1. a * price <= b * price /\ a * price \in Int /\ b * price \in Int
    BY <1>1
  <2> QED
    BY <1>1, <2>1
<1> QED
  BY <1>2 DEF OverCap

LEMMA CapStep ==
    TypeOK /\ RiskMirrorsBooks /\ IdleParsed /\ ParsedInv /\ CapInv /\ [Next]_vars => CapInv'
<1> SUFFICES ASSUME TypeOK, RiskMirrorsBooks, IdleParsed, ParsedInv, CapInv, [Next]_vars
             PROVE  CapInv'
  OBVIOUS
<1> USE DEF loopVars, moneyVars
<1>1. ASSUME parsed' = << >>
      PROVE  CapInv'
  BY <1>1 DEF CapInv
<1>2. ASSUME UNCHANGED <<parsed, positions, bar>>
      PROVE  CapInv'
  BY <1>2 DEF CapInv, NothingFilled, WithinCapAlone
<1>3. ASSUME NEW b \in Bars, StartBar(b)
      PROVE  CapInv'
  BY <1>1, <1>3 DEF StartBar, IdleParsed
<1>4. ASSUME NEW r \in Requests, ParseOrder(r)
      PROVE  CapInv'
  <2>1. CASE parsed' = parsed
    BY <1>2, <1>4, <2>1 DEF ParseOrder
  <2>2. CASE /\ parsed' = Append(parsed, OrderFrom(r))
             /\ RiskCheck(OrderFrom(r), dailyPnl, riskPositions[r.symbol], bar.close)
    <3>1. /\ Len(parsed') = Len(parsed) + 1
          /\ parsed'[Len(parsed) + 1] = OrderFrom(r)
          /\ \A j \in 1 .. Len(parsed) : parsed'[j] = parsed[j]
      BY <2>2 DEF TypeOK
    <3>2. UNCHANGED <<positions, bar>>
      BY <1>4 DEF ParseOrder
    <3>3. NothingFilled' => NothingFilled
      BY <3>1 DEF NothingFilled, TypeOK
    <3>4. WithinCapAlone(OrderFrom(r))
      <4>1. r.symbol \in Symbols
        BY RunnerAssumption DEF RequestType
      <4>2. riskPositions[r.symbol] = positions[r.symbol].net
        BY <4>1 DEF RiskMirrorsBooks
      <4> QED
        BY <2>2, <4>2 DEF RiskCheck, PositionExceeded, WithinCapAlone, OrderFrom
    <3>5. ASSUME NothingFilled', NEW i \in 1 .. Len(parsed')
          PROVE  WithinCapAlone(parsed'[i])
      <4>1. CASE i \in 1 .. Len(parsed)
        BY <3>1, <3>3, <3>5, <4>1 DEF CapInv
      <4>2. CASE i = Len(parsed) + 1
        BY <3>1, <3>4, <4>2
      <4> QED
        BY <3>1, <3>5, <4>1, <4>2 DEF TypeOK
    <3> QED
      BY <3>2, <3>5 DEF CapInv, WithinCapAlone
  <2> QED
    BY <1>4, <2>1, <2>2 DEF ParseOrder
<1>5. CASE MissOrder
  <2>1. UNCHANGED <<positions, bar>> /\ Len(parsed') = Len(parsed)
    BY <1>5 DEF MissOrder, TypeOK
  <2>2. ASSUME NEW i \in 1 .. Len(parsed)
        PROVE  /\ parsed'[i].filled = parsed[i].filled
               /\ parsed'[i].symbol = parsed[i].symbol
               /\ parsed'[i].direction = parsed[i].direction
               /\ parsed'[i].volume = parsed[i].volume
    <3>1. parsed[i] \in OrderType /\ idx \in 1 .. Len(parsed)
      BY <1>5 DEF MissOrder, TypeOK
    <3>2. parsed'[i] = IF i = idx THEN Missed(parsed[i], bar) ELSE parsed[i]
      BY <1>5, <3>1 DEF MissOrder, TypeOK
    <3> QED
      BY <3>1, <3>2 DEF Missed, OrderType
  <2>3. NothingFilled' => NothingFilled
    BY <2>1, <2>2 DEF NothingFilled
  <2> QED
    BY <2>1, <2>2, <2>3 DEF CapInv, WithinCapAlone
<1>6. CASE FillOrder
  <2>1. parsed[idx] \in OrderType /\ idx \in 1 .. Len(parsed)
    BY <1>6 DEF FillOrder, TypeOK
  <2>2. parsed'[idx] = Filled(parsed[idx]) /\ Len(parsed') = Len(parsed)
    BY <1>6, <2>1 DEF FillOrder, TypeOK
  <2>3. FillVolume(parsed[idx]) > 0 /\ FillVolume(parsed[idx]) \in Int
    BY <1>6, <2>1, FillVolumeBounds DEF FillOrder, Fills
  <2>4. parsed'[idx].filled = parsed[idx].filled + FillVolume(parsed[idx])
    BY <2>1, <2>2 DEF Filled, OrderType
  <2>5. NothingFilled => ~NothingFilled'
    BY <2>1, <2>2, <2>3, <2>4 DEF NothingFilled, OrderType
  <2>6. ~NothingFilled => ~NothingFilled'
    <3> SUFFICES ASSUME NEW i \in 1 .. Len(parsed), parsed[i].filled # 0
                 PROVE  ~NothingFilled'
      BY DEF NothingFilled
    <3>1. CASE i # idx
      BY <1>6, <2>2, <3>1 DEF FillOrder, NothingFilled, TypeOK
    <3>2. CASE i = idx
      BY <1>6, <2>1, <3>2 DEF FillOrder, ParsedInv, OrderInv, Unreached, TypeOK
    <3> QED
      BY <3>1, <3>2
  <2> QED
    BY <2>5, <2>6 DEF CapInv
<1>7. CASE StartMatching \/ TradeCallbackReturns
  BY <1>2, <1>7 DEF StartMatching, TradeCallbackReturns
<1>8. CASE EndBar \/ StrategyFails \/ TradeCallbackRaises
  BY <1>1, <1>8 DEF EndBar, StrategyFails, TradeCallbackRaises, Abort
<1> QED
  BY <1>2, <1>3, <1>4, <1>5, <1>6, <1>7, <1>8 DEF Next, vars

LEMMA RunnerCapInv == Spec => []CapInv
<1>1. Init => CapInv
  BY DEF Init, CapInv
<1> QED
  BY <1>1, CapStep, RunnerTypeCorrect, RunnerRiskMirrorsBooks, RunnerIdleParsed, RunnerParsedInv,
     PTL DEF Spec

(* The first fill of a bar never leaves its symbol above the position cap
   unless the position was above it and the fill shrank it.                  *)
THEOREM RunnerFirstFillWithinCap == Spec => FirstFillWithinCap
<1> DEFINE A == /\ phase = "matching" /\ phase' = "notifying"
                /\ \A i \in 1 .. Len(parsed) : parsed[i].filled = 0
                => LET s == trade'.symbol IN
                   OverCap(positions'[s].net, bar.close)
                       => Abs(positions'[s].net) <= Abs(positions[s].net)
<1>1. TypeOK /\ CapInv /\ [Next]_vars => A
  <2> SUFFICES ASSUME TypeOK, CapInv, [Next]_vars,
                      phase = "matching", phase' = "notifying", NothingFilled,
                      OverCap(positions'[trade'.symbol].net, bar.close)
               PROVE  Abs(positions'[trade'.symbol].net) <= Abs(positions[trade'.symbol].net)
    BY DEF NothingFilled
  <2>1. FillOrder
    BY DEF Next, vars, loopVars, StartBar, StrategyFails, Abort, ParseOrder, StartMatching,
           MissOrder, TradeCallbackReturns, TradeCallbackRaises, EndBar
  <2> DEFINE o == parsed[idx]
             v == FillVolume(o)
             signed == Signed(o.direction, v)
  <2>2. /\ o \in OrderType /\ bar \in Bars /\ idx \in 1 .. Len(parsed)
    BY <2>1 DEF FillOrder, TypeOK
  <2>3. /\ o.symbol \in Symbols /\ o.direction \in Directions /\ o.volume \in Int
        /\ positions[o.symbol] \in PositionType /\ positions[o.symbol].net \in Int
        /\ bar.close \in Nat
    BY <2>2, RunnerAssumption DEF OrderType, TypeOK, PositionType, BarType
  <2>4. /\ v \in Int /\ 0 < v /\ v <= o.volume
    <3>1. o.filled = 0
      BY <2>2 DEF NothingFilled
    <3> QED
      BY <2>1, <2>2, <3>1, FillVolumeBounds DEF FillOrder, Fills, Remaining, OrderType
  <2>5. signed \in Int /\ FillPrice(o, bar) \in Int
    BY <2>2, <2>3, <2>4, SignedInt, FillPriceInt
  <2>6. BookFill(o, FillPrice(o, bar), v)
    BY <2>1 DEF FillOrder
  <2>7. trade'.symbol = o.symbol
    BY <2>6 DEF BookFill
  <2>8. positions'[o.symbol].net = positions[o.symbol].net + signed
    <3>1. positions' = [positions EXCEPT ![o.symbol] =
                           ApplyTrade(positions[o.symbol], signed, FillPrice(o, bar))]
      BY <2>6 DEF BookFill
    <3> QED
      BY <2>3, <2>5, <3>1, ApplyTradeNet DEF TypeOK
  <2>9. ~OverCap(positions[o.symbol].net + Signed(o.direction, o.volume), bar.close)
    BY <2>2 DEF CapInv, WithinCapAlone
  <2> DEFINE n == positions[o.symbol].net
             whole == n + Signed(o.direction, o.volume)
  <2>10. n + signed \in Int /\ whole \in Int
    BY <2>3, <2>5, SignedInt
  <2>11. ~(Abs(n + signed) <= Abs(whole))
    BY <2>3, <2>7, <2>8, <2>9, <2>10, OverCapMonotone
  <2>12. Abs(n + signed) <= Abs(n)
    BY <2>3, <2>4, <2>11, PartOfFill
  <2> QED
    BY <2>7, <2>8, <2>12
<1> QED
  BY <1>1, RunnerTypeCorrect, RunnerCapInv, PTL DEF Spec, FirstFillWithinCap

-----------------------------------------------------------------------------
(* The refinement.  A fill is a Buy or a Sell of the ledger at a price and a
   volume of its sets, and nothing else moves cash or a net position.        *)
HoldingNet == [s \in Symbols |-> positions[s].net]

LEMMA FillIsLedgerStep == TypeOK /\ ParsedInv /\ FillOrder => Book!Next
<1> SUFFICES ASSUME TypeOK, ParsedInv, FillOrder
             PROVE  Book!Next
  OBVIOUS
<1> DEFINE o == parsed[idx]
           p == FillPrice(o, bar)
           v == FillVolume(o)
           signed == Signed(o.direction, v)
<1>1. /\ o \in OrderType /\ bar \in Bars /\ idx \in 1 .. Len(parsed)
      /\ OrderInv(idx) /\ o.filled = 0
  BY DEF FillOrder, TypeOK, ParsedInv, OrderInv, Unreached
<1>2. /\ o.symbol \in Symbols /\ o.direction \in Directions /\ o.volume \in Int
      /\ positions[o.symbol] \in PositionType
  BY <1>1 DEF OrderType, TypeOK
<1>3. v \in 1 .. MaxOrderVolume
  <2>1. v \in Int /\ v > 0 /\ v <= o.volume
    BY <1>1, FillVolumeBounds DEF FillOrder, Fills, Remaining, OrderType
  <2>2. o.volume <= MaxOrderVolume /\ MaxOrderVolume \in Int
    BY <1>1, RiskAssumption DEF OrderInv
  <2> QED
    BY <1>2, <2>1, <2>2
<1>4. p \in FillPrices /\ p \in Int
  <2>1. PICK r \in Requests : o.direction = r.direction /\ o.type = r.type /\ o.price = r.price
    BY <1>1 DEF OrderInv, FromRequest
  <2>2. p = FillPrice(r, bar)
    BY <2>1 DEF FillPrice
  <2> QED
    BY <1>1, <2>2, FillPriceInt DEF FillPrices
<1>5. signed \in Int
  BY <1>2, <1>3, SignedInt
<1>6. BookFill(o, p, v)
  BY DEF FillOrder
<1>7. cash' = cash + CashDelta(o.direction, p * v, CommissionOn(p, v))
  BY <1>6 DEF BookFill
<1>8. positions' = [positions EXCEPT ![o.symbol] = ApplyTrade(positions[o.symbol], signed, p)]
  BY <1>6 DEF BookFill
<1>9. HoldingNet' = [HoldingNet EXCEPT ![o.symbol] = @ + signed]
  <2>1. positions'[o.symbol].net = positions[o.symbol].net + signed
    BY <1>2, <1>4, <1>5, <1>8, ApplyTradeNet DEF TypeOK
  <2>2. \A s \in Symbols \ {o.symbol} : positions'[s] = positions[s]
    BY <1>8 DEF TypeOK
  <2> QED
    BY <1>2, <2>1, <2>2 DEF HoldingNet
<1>10. CommissionOn(p, v) \in Int /\ p * v \in Int /\ cash \in Int
  <2>1. v \in Int /\ cash \in Int
    BY <1>3, RiskAssumption DEF TypeOK
  <2> HIDE DEF p, v
  <2> QED
    BY <1>4, <2>1, CommissionInt
<1>11. CASE o.direction = "Long"
  <2>1. cash' = cash - (p * v + CommissionOn(p, v))
    BY <1>7, <1>10, <1>11 DEF CashDelta
  <2>2. HoldingNet' = [HoldingNet EXCEPT ![o.symbol] = @ + v]
    BY <1>9, <1>11 DEF Signed
  <2> HIDE DEF p, v
  <2> QED
    BY <1>2, <1>3, <1>4, <2>1, <2>2 DEF Book!Next, Book!Buy, HoldingNet
<1>12. CASE o.direction = "Short"
  <2>1. cash' = cash + (p * v - CommissionOn(p, v))
    BY <1>7, <1>10, <1>12 DEF CashDelta
  <2>2. HoldingNet' = [HoldingNet EXCEPT ![o.symbol] = @ - v]
    <3>1. HoldingNet[o.symbol] + signed = HoldingNet[o.symbol] - v
      BY <1>2, <1>3, <1>12 DEF Signed, HoldingNet, PositionType
    <3> QED
      BY <1>9, <3>1
  <2> HIDE DEF p, v
  <2> QED
    BY <1>2, <1>3, <1>4, <2>1, <2>2 DEF Book!Next, Book!Sell, HoldingNet
<1> QED
  BY <1>2, <1>11, <1>12 DEF Directions

(* The runner implements the ledger: whatever the strategy returns or raises,
   cash and positions move only together, in fills the price and the
   commission of which are those of the matching rules.                      *)
THEOREM RunnerImplementsLedger == Spec => ImplementsLedger
<1>1. Init => Book!Init
  BY DEF Init, Book!Init, FlatPosition
<1>2. TypeOK /\ ParsedInv /\ [Next]_vars => [Book!Next]_(Book!ledgerVars)
  <2> SUFFICES ASSUME TypeOK, ParsedInv, [Next]_vars
               PROVE  [Book!Next]_(Book!ledgerVars)
    OBVIOUS
  <2>1. CASE FillOrder
    BY <2>1, FillIsLedgerStep
  <2>2. CASE EndBar
    <3>1. bar.symbol \in Symbols
      BY <2>2, RunnerAssumption DEF EndBar, TypeOK, BarType
    <3>2. \A s \in Symbols : positions'[s].net = positions[s].net
      BY <2>2, <3>1 DEF EndBar, MarkToMarket, TypeOK, PositionType
    <3> QED
      BY <2>2, <3>2 DEF EndBar, Book!ledgerVars
  <2>3. ASSUME UNCHANGED moneyVars
        PROVE  UNCHANGED Book!ledgerVars
    BY <2>3 DEF moneyVars, Book!ledgerVars
  <2> QED
    BY <2>1, <2>2, <2>3
       DEF Next, vars, StartBar, StrategyFails, Abort, ParseOrder, StartMatching, MissOrder,
           TradeCallbackReturns, TradeCallbackRaises
<1> QED
  BY <1>1, <1>2, RunnerTypeCorrect, RunnerParsedInv, PTL DEF Spec, ImplementsLedger, Book!Spec

-----------------------------------------------------------------------------
(* The equity curve.  Fills and a new price move the equity away from its last
   entry; the end of a bar, which marks one symbol to market and so changes no
   net position, records it.                                                  *)
LEMMA InitEquity == Init => EquityIsCurrent
<1> SUFFICES ASSUME Init
             PROVE  Equity = InitialCapital
  BY DEF Init, EquityIsCurrent
<1>1. \A s \in Symbols : MarketValue[s] = 0
  BY DEF Init, MarketValue, FlatPosition
<1>2. SumFunctionOnSet(MarketValue, Symbols) = 0
  BY <1>1, SumZero, RunnerAssumption
<1> QED
  BY <1>2, RiskAssumption DEF Init, Equity

LEMMA EndBarKeepsEquity ==
    ASSUME TypeOK, EndBar
    PROVE  Equity' = Equity
<1>1. bar.symbol \in Symbols /\ positions \in [Symbols -> PositionType]
  BY RunnerAssumption DEF EndBar, TypeOK, BarType
<1>2. positions' = [positions EXCEPT ![bar.symbol] = MarkToMarket(@, bar.close)]
  BY DEF EndBar
<1>3. MarkToMarket(positions[bar.symbol], bar.close).net = positions[bar.symbol].net
  BY <1>1 DEF MarkToMarket, PositionType
<1>4. \A s \in Symbols : positions'[s].net = positions[s].net
  BY <1>1, <1>2, <1>3
<1>5. MarketValue' = MarketValue
  BY <1>4 DEF EndBar, MarketValue
<1> QED
  BY <1>5 DEF EndBar, Equity

LEMMA StepEquity == TypeOK /\ EquityIsCurrent /\ [Next]_vars => EquityIsCurrent'
<1> SUFFICES ASSUME TypeOK, EquityIsCurrent, [Next]_vars, phase' = "idle", outcome' = "ok"
             PROVE  lastEquity' = Equity'
  BY DEF EquityIsCurrent
<1>1. CASE EndBar
  BY <1>1, EndBarKeepsEquity DEF EndBar
<1>2. CASE UNCHANGED vars
  <2>1. MarketValue' = MarketValue /\ cash' = cash
    BY <1>2 DEF MarketValue, vars, moneyVars
  <2>2. Equity' = Equity
    BY <2>1 DEF Equity
  <2> QED
    BY <1>2, <2>2 DEF EquityIsCurrent, vars, loopVars
<1> QED
  BY <1>1, <1>2 DEF Next, StartBar, StrategyFails, Abort, ParseOrder, StartMatching, MissOrder,
     FillOrder, TradeCallbackReturns, TradeCallbackRaises

(* A bar that completed leaves the equity curve with cash plus the market value of
   all positions at the latest prices as its last entry, for any symbols, bars and
   orders and after any batches that were left by an exception.                   *)
THEOREM RunnerEquityIsCurrent == Spec => []EquityIsCurrent
BY InitEquity, StepEquity, RunnerTypeCorrect, PTL DEF Spec

-----------------------------------------------------------------------------
(* The balance of a fill. *)
LEMMA ExactQuotient ==
    ASSUME NEW a \in Int, NEW b \in Int, b > 0, a % b = 0
    PROVE  (a \div b) * b = a
OBVIOUS

(* What a fill adds to the cost of its position is what it paid, less the profit
   it took out.                                                                *)
LEMMA ApplyTradeConserves ==
    ASSUME NEW pos \in PositionType, NEW signed \in Int, NEW p \in Int,
           ~ClosesPartly(pos, signed), AverageIsExact(pos, signed, p)
    PROVE  BookValue(ApplyTrade(pos, signed, p))
               = BookValue(pos) + p * signed + Realized(pos, signed, p)
<1> DEFINE n == pos.net
           a == pos.avg
<1>1. n \in Int /\ a \in Int
  BY DEF PositionType
<1>2. BookValue(ApplyTrade(pos, signed, p)) = AverageAfter(pos, signed, p) * (n + signed)
  BY DEF BookValue, ApplyTrade, PositionType
<1>3. BookValue(pos) = a * n
  BY DEF BookValue
<1>4. CASE n = 0
  <2>1. AverageAfter(pos, signed, p) = p
    BY <1>4 DEF AverageAfter, Closes
  <2>2. Realized(pos, signed, p) = 0
    BY <1>4 DEF Realized, Closes
  <2>3. a * n = 0 /\ n + signed = signed
    BY <1>1, <1>4
  <2> QED
    BY <1>1, <1>2, <1>3, <2>1, <2>2, <2>3
<1>5. CASE n # 0 /\ ~Closes(pos, signed)
  <2> DEFINE total == a * Abs(n) + p * Abs(signed)
             size == Abs(n) + Abs(signed)
             q == total \div size
  <2>1. Abs(n) \in Int /\ Abs(signed) \in Int /\ size \in Int /\ size > 0 /\ total \in Int
    BY <1>1, <1>5 DEF Abs
  <2>2. q * size = total /\ q \in Int
    <3>1. total % size = 0
      BY <1>5 DEF AverageIsExact
    <3> HIDE DEF total, size
    <3> QED
      BY <2>1, <3>1, ExactQuotient, QuotientInt
  <2>3. AverageAfter(pos, signed, p) = q
    BY <1>5 DEF AverageAfter
  <2>4. Realized(pos, signed, p) = 0
    BY <1>5 DEF Realized
  <2>5. \/ n > 0 /\ signed >= 0 /\ Abs(n) = n /\ Abs(signed) = signed
        \/ n < 0 /\ signed < 0 /\ Abs(n) = -n /\ Abs(signed) = -signed
    <3>1. Signum(n) = Signum(signed)
      BY <1>5 DEF Closes
    <3> HIDE DEF n
    <3>2. CASE n > 0
      BY <1>1, <3>1, <3>2 DEF Signum, Abs
    <3>3. CASE n < 0
      BY <1>1, <3>1, <3>3 DEF Signum, Abs
    <3> QED
      BY <1>1, <1>5, <3>2, <3>3
  <2> HIDE DEF q, n, a
  <2>6. q * (n + signed) = a * n + p * signed
    <3>1. CASE Abs(n) = n /\ Abs(signed) = signed
      BY <2>2, <3>1
    <3>2. CASE Abs(n) = -n /\ Abs(signed) = -signed
      <4>1. q * ((-n) + (-signed)) = a * (-n) + p * (-signed)
        BY <2>2, <3>2
      <4>2. q * (n + signed) = -(q * ((-n) + (-signed)))
        BY <1>1, <2>2
      <4>3. a * n + p * signed = -(a * (-n) + p * (-signed))
        BY <1>1
      <4> QED
        BY <4>1, <4>2, <4>3
    <3> QED
      BY <2>5, <3>1, <3>2
  <2>7. a * n + p * signed \in Int
    BY <1>1
  <2>8. (a * n + p * signed) + 0 = a * n + p * signed
    BY <2>7
  <2> QED
    BY <1>2, <1>3, <2>3, <2>4, <2>6, <2>8
<1>6. CASE n # 0 /\ Closes(pos, signed)
  <2>1. ~(Abs(signed) < Abs(n))
    BY <1>6 DEF ClosesPartly
  <2>2. Lesser(Abs(n), Abs(signed)) = Abs(n) /\ Abs(n) * Signum(n) = n
    BY <1>1, <2>1 DEF Abs, Lesser, Signum
  <2>3. Realized(pos, signed, p) = (p - a) * n
    <3>1. Realized(pos, signed, p) = (p - a) * Abs(n) * Signum(n)
      BY <1>6, <2>2 DEF Realized
    <3>2. Abs(n) \in Int /\ Signum(n) \in Int /\ p - a \in Int
      BY <1>1 DEF Abs, Signum
    <3>3. (p - a) * Abs(n) * Signum(n) = (p - a) * (Abs(n) * Signum(n))
      <4> DEFINE x == p - a
                 y == Abs(n)
                 z == Signum(n)
      <4>1. x \in Int /\ y \in Int /\ z \in Int
        BY <3>2
      <4> HIDE DEF x, y, z
      <4>2. x * y * z = x * (y * z)
        BY <4>1
      <4> QED
        BY <4>2 DEF x, y, z
    <3> QED
      BY <2>2, <3>1, <3>3
  <2>4. AverageAfter(pos, signed, p) * (n + signed) = p * (n + signed)
    <3>1. AverageAfter(pos, signed, p) = IF n + signed = 0 THEN 0 ELSE p
      BY <1>6 DEF AverageAfter
    <3> HIDE DEF n
    <3>2. CASE n + signed = 0
      BY <3>1, <3>2
    <3>3. CASE n + signed # 0
      BY <3>1, <3>3
    <3> QED
      BY <3>2, <3>3
  <2> HIDE DEF n, a
  <2>5. p * (n + signed) = a * n + p * signed + (p - a) * n
    BY <1>1
  <2> QED
    BY <1>2, <1>3, <2>3, <2>4, <2>5
<1> QED
  BY <1>4, <1>5, <1>6

(* Every fill that is no partial close, and whose average is exact, keeps cash plus
   the cost of the positions minus the daily P&L: no money appears or gets lost in
   fills that open, enlarge, close or flip a position, fees included.             *)
THEOREM RunnerFillConservesBookValue == Spec => FillConservesBookValue
<1> DEFINE A == phase = "matching" /\ phase' = "notifying"
                => LET s == trade'.symbol
                       signed == Signed(trade'.direction, trade'.volume)
                   IN  ~ClosesPartly(positions[s], signed)
                       /\ AverageIsExact(positions[s], signed, trade'.price)
                       => cash' + BookValue(positions'[s]) - dailyPnl'
                            = cash + BookValue(positions[s]) - dailyPnl
<1>1. TypeOK /\ [Next]_vars => A
  <2> SUFFICES ASSUME TypeOK, [Next]_vars, phase = "matching", phase' = "notifying"
               PROVE  A
    OBVIOUS
  <2>1. FillOrder
    BY DEF Next, vars, loopVars, StartBar, StrategyFails, Abort, ParseOrder, StartMatching,
           MissOrder, TradeCallbackReturns, TradeCallbackRaises, EndBar
  <2> DEFINE o == parsed[idx]
  <2>2. o \in OrderType /\ bar \in Bars
    BY <2>1 DEF FillOrder, TypeOK
  <2>3. PICK s \in Symbols, d \in Directions : s = o.symbol /\ d = o.direction
    BY <2>2 DEF OrderType
  <2>4. PICK v \in Int : v = FillVolume(o)
    BY <2>1, <2>2, FillVolumeBounds DEF FillOrder, Fills, Remaining, OrderType
  <2>5. PICK p \in Int : p = FillPrice(o, bar)
    BY <2>2, FillPriceInt
  <2>6. BookFill(o, p, v)
    BY <2>1, <2>4, <2>5 DEF FillOrder
  <2> HIDE DEF o
  <2> DEFINE pos == positions[s]
  <2>7. pos \in PositionType /\ cash \in Int /\ dailyPnl \in Int
    BY <2>3 DEF TypeOK
  <2>8. PICK signed \in Int : signed = Signed(d, v)
    BY SignedInt
  <2>9. PICK fee \in Int : fee = CommissionOn(p, v)
    BY CommissionInt
  <2>10. PICK r \in Int : r = Realized(pos, signed, p)
    BY <2>7, RealizedInt
  <2>11. /\ cash' = cash + CashDelta(d, p * v, fee)
         /\ positions'[s] = ApplyTrade(pos, signed, p)
         /\ dailyPnl' = dailyPnl + (r - fee)
         /\ trade'.symbol = s /\ Signed(trade'.direction, trade'.volume) = signed
         /\ trade'.price = p
    BY <2>3, <2>6, <2>8, <2>9, <2>10 DEF BookFill, TypeOK
  <2>12. SUFFICES ASSUME ~ClosesPartly(pos, signed), AverageIsExact(pos, signed, p)
                  PROVE  cash' + BookValue(positions'[s]) - dailyPnl'
                            = cash + BookValue(pos) - dailyPnl
    BY <2>11
  <2>13. BookValue(positions'[s]) = BookValue(pos) + p * signed + r
    BY <2>7, <2>10, <2>11, <2>12, ApplyTradeConserves
  <2>14. PICK bv \in Int : bv = BookValue(pos)
    BY <2>7 DEF BookValue, PositionType
  <2>15. PICK pv \in Int : pv = p * signed
    OBVIOUS
  <2>16. CashDelta(d, p * v, fee) = -pv - fee
    <3>1. CASE d = "Long"
      BY <2>8, <2>15, <3>1 DEF CashDelta, Signed
    <3>2. CASE d # "Long"
      <4>1. pv = -(p * v)
        BY <2>8, <2>15, <3>2 DEF Signed
      <4> QED
        BY <3>2, <4>1 DEF CashDelta
    <3> QED
      BY <3>1, <3>2
  <2>17. (cash + (-pv - fee)) + (bv + pv + r) - (dailyPnl + (r - fee)) = cash + bv - dailyPnl
    BY <2>7
  <2> QED
    BY <2>11, <2>13, <2>14, <2>15, <2>16, <2>17
<1> QED
  BY <1>1, RunnerTypeCorrect, PTL DEF Spec, FillConservesBookValue
=============================================================================
