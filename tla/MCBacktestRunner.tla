-------------------------- MODULE MCBacktestRunner --------------------------
(***************************************************************************)
(* Bars and strategy orders for checking BacktestRunner with TLC.  Opens   *)
(* are multiples of 60000 and limit prices of 6000: with slippage and      *)
(* commission of 1 or 2 percent every fill price is a multiple of 60 and   *)
(* every commission a whole number, so with positions of at most six units *)
(* every quotient of the model is exact.                                   *)
(***************************************************************************)
EXTENDS BacktestRunner

CONSTANTS s1, s2

OneSymbol  == {s1}
TwoSymbols == {s1, s2}

BarOf(s, d, o, h, l, c) ==
    [symbol |-> s, day |-> d, open |-> o, high |-> h, low |-> l, close |-> c]

Request(s, dir, type, price, volume) ==
    [symbol |-> s, direction |-> dir, type |-> type, price |-> price, volume |-> volume]

(* Two symbols at different prices; the first falls through the price limit
   and rises through it again.                                              *)
BarsTwoSymbols ==
    {BarOf(s1, 1, 600000, 612000, 588000, 600000),
     BarOf(s1, 1, 480000, 504000, 480000, 492000),
     BarOf(s2, 1, 240000, 252000, 228000, 252000)}

RequestsTwoSymbols ==
    {Request(s1, "Long", "Market", 0, 3), Request(s1, "Short", "Market", 0, 3),
     Request(s1, "Short", "Market", 0, 1), Request(s1, "Long", "Limit", 588000, 2),
     Request(s2, "Long", "Market", 0, 2), Request(s2, "Short", "Limit", 240000, 0)}

(* One symbol that trades between 480000 and 720000: a rise and a fall that
   lock the price limit in each direction, and losses of several sizes.     *)
BarsOneSymbol ==
    {BarOf(s1, 1, 600000, 612000, 588000, 600000),
     BarOf(s1, 1, 600000, 660000, 600000, 660000),
     BarOf(s1, 1, 600000, 600000, 540000, 540000),
     BarOf(s1, 1, 480000, 504000, 480000, 492000),
     BarOf(s1, 1, 720000, 720000, 696000, 708000)}

(* A fall on the first of two days. *)
BarsTwoDays ==
    {BarOf(s1, 1, 600000, 612000, 588000, 600000),
     BarOf(s1, 1, 480000, 504000, 480000, 492000),
     BarOf(s1, 2, 600000, 612000, 588000, 600000)}

RequestsOneSymbol ==
    {Request(s1, d, "Market", 0, v) : d \in Directions, v \in 1 .. 3}
        \cup {Request(s1, "Long", "Limit", 588000, 2), Request(s1, "Short", "Limit", 612000, 2)}
        \cup {Request(s1, "Long", "Market", 0, 0)}
==============================================================================
