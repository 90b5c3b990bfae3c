------------------------------ MODULE SimBroker ------------------------------
(***************************************************************************)
(* The matching rules of core_engine/src/broker.rs as pure operators of an *)
(* order and a bar.  SimBroker's one piece of state, next_trade_id, is a   *)
(* variable of BacktestRunner.                                             *)
(***************************************************************************)
EXTENDS Objects

CONSTANTS
    SlippagePct,          \* slippage, in percent of the bar's open
    CommissionPct,        \* commission_rate, in percent of the traded value
    PriceLimitPct,        \* price_limit_pct
    MaxFillVolumePerBar   \* most one order may fill in one bar; 0 = no cap

ASSUME BrokerAssumption ==
    /\ SlippagePct \in 0 .. 99
    /\ CommissionPct \in Nat
    /\ PriceLimitPct \in 0 .. 99
    /\ MaxFillVolumePerBar \in Nat

Remaining(o) == o.volume - o.filled

(* The bar closed at or beyond the daily price limit in the order's direction:
   match_order rejects the order.  The band is taken around the bar's open.   *)
LimitLocked(o, bar) ==
    \/ /\ o.direction = "Long"
       /\ bar.close * 100 >= bar.open * (100 + PriceLimitPct)
    \/ /\ o.direction = "Short"
       /\ bar.close * 100 <= bar.open * (100 - PriceLimitPct)

(* A limit order is triggered when the bar traded through its price. *)
Triggered(o, bar) ==
    \/ o.type = "Market"
    \/ o.direction = "Long"  /\ o.price >= bar.low
    \/ o.direction = "Short" /\ o.price <= bar.high

Fills(o, bar) ==
    /\ ~LimitLocked(o, bar)
    /\ Remaining(o) > 0
    /\ Triggered(o, bar)

FillPrice(o, bar) ==
    CASE o.type = "Limit" -> o.price
      [] o.type = "Market" /\ o.direction = "Long"  -> Scaled(bar.open, SlippagePct)
      [] o.type = "Market" /\ o.direction = "Short" -> Scaled(bar.open, -SlippagePct)

FillVolume_Uncapped(o) == Remaining(o)
FillVolume(o) ==
    IF MaxFillVolumePerBar > 0
    THEN Lesser(Remaining(o), MaxFillVolumePerBar)
    ELSE Remaining(o)

CommissionOn(price, volume) == (price * volume * CommissionPct) \div 100

(* The order as match_order leaves it when it returns Some(fill) ... *)
Filled(o) ==
    [o EXCEPT !.filled = @ + FillVolume(o),
              !.status = IF FillVolume(o) < Remaining(o) THEN "PartiallyFilled"
                                                         ELSE "Filled"]

(* ... and when it returns None. *)
Missed(o, bar) ==
    [o EXCEPT !.status = CASE LimitLocked(o, bar) -> "Rejected"
                           [] ~LimitLocked(o, bar) /\ Remaining(o) <= 0 -> "Filled"
                           [] OTHER -> @]
==============================================================================
