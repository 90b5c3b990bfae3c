-------------------------- MODULE MCExchangeGateways --------------------------
(* Symbols streamed and orders, for checking ExchangeGateways and RiskedExchange
   with TLC.                                                                  *)
EXTENDS RiskedExchange

MCStreamed == <<"BTC", "ETH">>
MCRequests ==
    {[direction |-> "LONG", type |-> "LIMIT", volume |-> 2],
     [direction |-> "LONG", type |-> "MARKET", volume |-> 1],
     [direction |-> "LONG", type |-> "LIMIT", volume |-> 4],
     [direction |-> "SHORT", type |-> "LIMIT", volume |-> 1]}
===============================================================================
