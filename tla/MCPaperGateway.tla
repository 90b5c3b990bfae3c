---------------------------- MODULE MCPaperGateway ----------------------------
(****************************************************************************)
(* Bars and orders for checking PaperGateway with TLC.  Opens are multiples *)
(* of 60000, slippage is one percent and positions stay at most six units,  *)
(* so every quotient is exact.                                              *)
(****************************************************************************)
EXTENDS PaperGateway

CONSTANTS s1, s2

OneSymbol  == {s1}
TwoSymbols == {s1, s2}

BarOf(s, open, close) == [symbol |-> s, open |-> open, close |-> close]
Request(s, dir, type, price, volume) ==
    [symbol |-> s, direction |-> dir, type |-> type, price |-> price, volume |-> volume]

(* Closes that stay within, reach and pass the limit of ten percent. *)
BarsTwoSymbols ==
    {BarOf(s1, 600000, 600000), BarOf(s1, 600000, 660000), BarOf(s2, 240000, 216000)}
BarsOneSymbol ==
    {BarOf(s1, 600000, 600000), BarOf(s1, 600000, 660000), BarOf(s1, 540000, 540000)}

RequestsTwoSymbols ==
    {Request(s1, "LONG", "MARKET", 0, 1), Request(s1, "SHORT", "MARKET", 0, 2),
     Request(s2, "SHORT", "LIMIT", 240000, 1)}
RequestsOneSymbol ==
    {Request(s1, "LONG", "MARKET", 0, 1), Request(s1, "SHORT", "MARKET", 0, 2),
     Request(s1, "LONG", "LIMIT", 600000, 2)}
==============================================================================
