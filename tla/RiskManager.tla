----------------------------- MODULE RiskManager -----------------------------
(****************************************************************************)
(* The pre-trade checks of core_engine/src/risk.rs.  Its state (daily_pnl   *)
(* and the signed position of every symbol) is passed in as arguments and   *)
(* held by BacktestRunner.  Percentages are compared after multiplying both *)
(* sides by 100, so nothing is rounded.                                     *)
(****************************************************************************)
EXTENDS Objects

CONSTANTS
    InitialCapital,    \* total_capital
    MaxPositionPct,    \* largest position value, in percent of the capital
    DailyLossPct,      \* daily_loss_limit, in percent of the capital
    MaxOrderVolume     \* largest volume of a single order

ASSUME RiskAssumption ==
    /\ InitialCapital \in Nat \ {0}
    /\ MaxPositionPct \in Nat
    /\ DailyLossPct \in Nat
    /\ MaxOrderVolume \in Nat

VolumeTooLarge(o) == o.volume > MaxOrderVolume

DailyLossExceeded(dailyPnl) == dailyPnl * 100 < -(InitialCapital * DailyLossPct)

(* A position of `net' valued at `price' is larger than the cap. *)
OverCap(net, price) == Abs(net) * price * 100 > InitialCapital * MaxPositionPct

PositionExceeded_OrderAlone(o, net, price) == OverCap(Signed(o.direction, o.volume), price)
PositionExceeded(o, net, price) == OverCap(net + Signed(o.direction, o.volume), price)

(* RiskManager.check: the order is accepted at the current price. *)
RiskCheck(o, dailyPnl, net, price) ==
    /\ ~VolumeTooLarge(o)
    /\ ~DailyLossExceeded(dailyPnl)
    /\ ~PositionExceeded(o, net, price)
==============================================================================
