------------------------------ MODULE OrderBook ------------------------------
(***************************************************************************)
(* The order management system embedded in every Python gateway            *)
(* (src/trading/base_gateway.py).  A book is a sequence of orders: ids are *)
(* positions in it, in the order the dict was filled.  Ids are fresh, as   *)
(* the uuid of send_order makes them.                                      *)
(***************************************************************************)
EXTENDS Integers, Sequences

GatewayStatuses ==
    {"SUBMITTED", "ACCEPTED", "PARTIAL", "FILLED", "CANCELLED", "REJECTED"}
OpenStatuses == {"SUBMITTED", "ACCEPTED", "PARTIAL"}

(* _TRANSITIONS: the statuses each status may move to. *)
Transitions ==
    [s \in GatewayStatuses |->
        CASE s = "SUBMITTED" -> {"ACCEPTED", "REJECTED"}
          [] s = "ACCEPTED"  -> {"PARTIAL", "FILLED", "CANCELLED"}
          [] s = "PARTIAL"   -> {"FILLED", "CANCELLED"}
          [] OTHER           -> {}]

(* transition(order_id, new_status, filled_vol) returns whether the move is
   allowed; only then is the order changed.                                 *)
MayMove(book, i, new) ==
    i \in DOMAIN book /\ new \in Transitions[book[i].status]

Moved(o, new, volume) == [o EXCEPT !.status = new, !.filled = @ + volume]

Move_Unchecked(book, i, new, volume) == [book EXCEPT ![i] = Moved(@, new, volume)]
Move(book, i, new, volume) ==
    IF MayMove(book, i, new) THEN [book EXCEPT ![i] = Moved(@, new, volume)] ELSE book

IsOpen(book, i) == book[i].status \in OpenStatuses

(* open_orders(): the ids of the open orders; a loop over the list visits them
   in increasing order.                                                     *)
OpenOrders(book) == {i \in DOMAIN book : IsOpen(book, i)}
==============================================================================
