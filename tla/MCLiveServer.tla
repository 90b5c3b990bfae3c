----------------------------- MODULE MCLiveServer -----------------------------
(* Pages for checking LiveServer with TLC: one that comes back, one that does
   not.                                                                       *)
EXTENDS LiveServer

MCPages == {"p", "q"}
MCMaxConnections == [p |-> 2, q |-> 1]
===============================================================================
