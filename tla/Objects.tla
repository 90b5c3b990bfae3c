------------------------------- MODULE Objects -------------------------------
(***************************************************************************)
(* The value types of the Rust core and the position arithmetic            *)
(* (core_engine/src/object.rs).  Prices, volumes and money are integers:   *)
(* a run picks ticks and volumes for which every quotient below is exact,  *)
(* so \div stands for the f64 division of the code.                        *)
(***************************************************************************)
EXTENDS Integers

Directions == {"Long", "Short"}
OrderTypes == {"Limit", "Market"}
OrderStatuses ==
    {"Submitted", "Accepted", "PartiallyFilled", "Filled", "Cancelled", "Rejected"}

Abs(x)     == IF x < 0 THEN -x ELSE x
Lesser(x, y) == IF x <= y THEN x ELSE y
Signum(x)  == IF x < 0 THEN -1 ELSE 1

(* The signed volume by which a fill in direction d moves a net position.  *)
Signed(d, volume) == IF d = "Long" THEN volume ELSE -volume

(* x * (1 + pct/100), the shape of every slippage and price-limit formula. *)
Scaled(x, pct) == (x * (100 + pct)) \div 100

-----------------------------------------------------------------------------
FlatPosition == [net |-> 0, avg |-> 0, upnl |-> 0, rpnl |-> 0]

(* The fill is on the other side of the open position: it closes it partly,
   wholly, or flips it.                                                     *)
Closes(pos, signed) == pos.net # 0 /\ Signum(pos.net) # Signum(signed)

(* It closes only a part: the position keeps its side. *)
ClosesPartly(pos, signed) == Closes(pos, signed) /\ Abs(signed) < Abs(pos.net)

(* Profit realized by a fill of `signed' at `price': what apply_trade returns. *)
Realized(pos, signed, price) ==
    IF Closes(pos, signed)
    THEN (price - pos.avg) * Lesser(Abs(pos.net), Abs(signed)) * Signum(pos.net)
    ELSE 0

(* The average price after the fill.  A closing fill that leaves anything
   open sets it to the fill price, whether or not the side flipped.         *)
AverageAfter_KeptOnFlip(pos, signed, price) ==
    CASE pos.net = 0 -> price
      [] pos.net # 0 /\ ~Closes(pos, signed) ->
            (pos.avg * Abs(pos.net) + price * Abs(signed))
                \div (Abs(pos.net) + Abs(signed))
      [] Closes(pos, signed) -> IF pos.net + signed = 0 THEN 0 ELSE pos.avg
AverageAfter(pos, signed, price) ==
    CASE pos.net = 0 -> price
      [] pos.net # 0 /\ ~Closes(pos, signed) ->
            (pos.avg * Abs(pos.net) + price * Abs(signed))
                \div (Abs(pos.net) + Abs(signed))
      [] Closes(pos, signed) -> IF pos.net + signed = 0 THEN 0 ELSE price

ApplyTrade(pos, signed, price) ==
    [pos EXCEPT !.net  = @ + signed,
                !.avg  = AverageAfter(pos, signed, price),
                !.rpnl = @ + Realized(pos, signed, price)]

MarkToMarket(pos, price) ==
    [pos EXCEPT !.upnl = IF pos.net = 0 THEN 0 ELSE (price - pos.avg) * pos.net]

(* What the position cost at its recorded average price. *)
BookValue(pos) == pos.avg * pos.net
==============================================================================
