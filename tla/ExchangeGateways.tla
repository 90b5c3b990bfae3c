--------------------------- MODULE ExchangeGateways ---------------------------
(*****************************************************************************)
(* The gateways to real exchanges (src/trading/crypto_gateway.py,            *)
(* xtp_gateway.py, ctp_gateway.py), each with the order book of its base     *)
(* class, against an external exchange that fills and cancels orders by      *)
(* itself.  A behaviour has one gateway, `kind'.                             *)
(*                                                                           *)
(* A call to the exchange may take effect although it raises: the answer is  *)
(* lost.  The book holds, under the exchange's number of the order, what the *)
(* gateway believes; no gateway listens to what the exchange does later.     *)
(*****************************************************************************)
EXTENDS OrderBook

CONSTANTS
    Kinds,         \* gateways looked at
    Streamed,      \* symbols given to start_ws, in order
    MaxOrders      \* bound: orders that reach the exchange

ASSUME GatewaysAssumption ==
    /\ Kinds \subseteq {"crypto", "xtp", "ctp"}
    /\ Streamed \in Seq(STRING)
    /\ MaxOrders \in Nat

VARIABLES
    kind,
    ready,         \* send_order finds the gateway connected
    exchange,      \* the exchange: status of every order it took
    book,          \* order_book: the gateway's belief, per exchange number
    reported,      \* per order: the status last passed to on_order
    lost,          \* orders the exchange took although send_order raised
    slot,          \* start_ws: the symbol awaited, 0 when it does not run
    fresh          \* symbols with an update that was not yet delivered

orderVars == <<ready, exchange, book, reported, lost>>
streamVars == <<slot, fresh>>
vars == <<kind, orderVars, streamVars>>

NoOrders == << >>
Numbers == 1 .. MaxOrders
FailedNumber == 0        \* InsertOrder's answer to an order it did not take
Symbols == {Streamed[k] : k \in DOMAIN Streamed}

Init ==
    /\ kind \in Kinds
    /\ ready = FALSE
    /\ exchange = << >>
    /\ book = NoOrders
    /\ reported = NoOrders
    /\ lost = {}
    /\ slot = 0
    /\ fresh = {}

-----------------------------------------------------------------------------
(* The exchange: it fills, and cancels by itself, the orders it has. *)
ExchangeMoves(i) ==
    /\ exchange[i] = "open"
    /\ \E s \in {"filled", "cancelled"} : exchange' = [exchange EXCEPT ![i] = s]
    /\ UNCHANGED <<kind, ready, book, reported, lost, streamVars>>

(* connect and disconnect.  The crypto gateway keeps the exchange object when
   load_markets raises, so orders may be sent all the same; an XTP login may
   fail; the CTP gateway never sets the flag send_order asks for.            *)
Connected(k, yes) ==
    /\ kind = k
    /\ ready' = yes
    /\ UNCHANGED <<kind, exchange, book, reported, lost, streamVars>>
CryptoConnect == Connected("crypto", TRUE)
XtpConnect == \E loggedIn \in BOOLEAN : Connected("xtp", loggedIn)
CtpConnect == Connected("ctp", FALSE)
CryptoDisconnect == Connected("crypto", FALSE)
XtpDisconnect == Connected("xtp", FALSE)
CtpDisconnect == Connected("ctp", FALSE)

Order(s) == [status |-> s, filled |-> 0]
With(f, i, value) == [j \in DOMAIN f \cup {i} |-> IF j = i THEN value ELSE f[j]]
Taken == Len(exchange) + 1

(* CryptoGateway.send_order: create_order answered, raised without effect (no
   step), or raised after the exchange took the order.                       *)
CryptoSend ==
    /\ kind = "crypto" /\ ready
    /\ Taken \in Numbers
    /\ exchange' = Append(exchange, "open")
    /\ \/ /\ book' = Move(With(book, Taken, Order("SUBMITTED")), Taken, "ACCEPTED", 0)
          /\ reported' = With(reported, Taken, "ACCEPTED")
          /\ UNCHANGED lost
       \/ /\ lost' = lost \cup {Taken}
          /\ UNCHANGED <<book, reported>>
    /\ UNCHANGED <<kind, ready, streamVars>>

(* CryptoGateway.cancel_order: only an order the exchange still has can be
   cancelled; whatever is raised is logged and forgotten.                    *)
CryptoCancel_Optimistic(i) ==
    /\ kind = "crypto" /\ ready
    /\ i \in DOMAIN book
    /\ \/ exchange[i] = "open" /\ exchange' = [exchange EXCEPT ![i] = "cancelled"]
       \/ UNCHANGED exchange
    /\ book' = Move(book, i, "CANCELLED", 0)
    /\ reported' = [reported EXCEPT ![i] = book'[i].status]
    /\ UNCHANGED <<kind, ready, lost, streamVars>>
CryptoCancel(i) ==
    /\ kind = "crypto" /\ ready
    /\ i \in DOMAIN book
    /\ exchange[i] = "open"
    /\ exchange' = [exchange EXCEPT ![i] = "cancelled"]
    /\ \/ /\ book' = Move(book, i, "CANCELLED", 0)
          /\ reported' = [reported EXCEPT ![i] = book'[i].status]
       \/ UNCHANGED <<book, reported>>
    /\ UNCHANGED <<kind, ready, lost, streamVars>>

(* XTPGateway.send_order: the number is not looked at, so an order that was not
   taken is put in the book under number 0, replacing the previous such one.  *)
XtpSend ==
    /\ kind = "xtp" /\ ready
    /\ \/ /\ Taken \in Numbers
          /\ exchange' = Append(exchange, "open")
          /\ book' = With(book, Taken, Order("SUBMITTED"))
       \/ /\ book' = With(book, FailedNumber, Order("SUBMITTED"))
          /\ UNCHANGED exchange
    /\ UNCHANGED <<kind, ready, reported, lost, streamVars>>

(* XTPGateway.cancel_order is a request that the exchange follows if it still
   can; nothing is noted in the book.                                        *)
XtpCancel(i) ==
    /\ kind = "xtp" /\ ready
    /\ i \in DOMAIN book \cap Numbers
    /\ exchange[i] = "open"
    /\ exchange' = [exchange EXCEPT ![i] = "cancelled"]
    /\ UNCHANGED <<kind, ready, book, reported, lost, streamVars>>

-----------------------------------------------------------------------------
(* CryptoGateway.start_ws: the symbols are awaited in turn, for ever; it owns a
   connection of its own, and disconnect, whose task is never set, leaves it.  *)
StartStream ==
    /\ kind = "crypto" /\ slot = 0 /\ Streamed # << >>
    /\ slot' = 1
    /\ UNCHANGED <<kind, orderVars, fresh>>

Ticks(s) ==
    /\ kind = "crypto"
    /\ fresh' = fresh \cup {s}
    /\ UNCHANGED <<kind, orderVars, slot>>

(* watch_ticker returns or raises; on_tick too. *)
Await_StaysOnSymbol ==
    /\ slot # 0
    /\ Streamed[slot] \in fresh
    /\ fresh' = fresh \ {Streamed[slot]}
    /\ UNCHANGED <<kind, orderVars, slot>>
Await ==
    /\ slot # 0
    /\ Streamed[slot] \in fresh
    /\ fresh' = fresh \ {Streamed[slot]}
    /\ slot' = IF slot = Len(Streamed) THEN 1 ELSE slot + 1
    /\ UNCHANGED <<kind, orderVars>>

NextButSend ==
    \/ CryptoConnect \/ XtpConnect \/ CtpConnect
    \/ CryptoDisconnect \/ XtpDisconnect \/ CtpDisconnect
    \/ \E i \in DOMAIN exchange : ExchangeMoves(i)
    \/ \E i \in DOMAIN book : CryptoCancel(i) \/ XtpCancel(i)
    \/ StartStream \/ Await \/ \E s \in Symbols : Ticks(s)
Next == NextButSend \/ CryptoSend \/ XtpSend
Spec == Init /\ [][Next]_vars

(* The event loop runs the stream; symbols tick when the market likes. *)
FairSpec == Spec /\ WF_vars(Await)

-----------------------------------------------------------------------------
TypeOK ==
    /\ kind \in Kinds
    /\ ready \in BOOLEAN
    /\ exchange \in Seq({"open", "filled", "cancelled"})
    /\ DOMAIN book \subseteq DOMAIN exchange \cup {FailedNumber}
    /\ \A i \in DOMAIN book : book[i] \in [status : GatewayStatuses, filled : {0}]
    /\ FailedNumber \in DOMAIN book => kind = "xtp"
    /\ DOMAIN reported \subseteq DOMAIN book
    /\ lost \subseteq DOMAIN exchange \ DOMAIN book
    /\ slot \in 0 .. Len(Streamed)
    /\ fresh \subseteq Symbols
    /\ kind = "ctp" => exchange = << >>

(* No order that lives at the exchange is forgotten: the book has it open, or
   its send_order raised.                                                    *)
NoLiveOrderForgotten ==
    \A i \in DOMAIN exchange :
        exchange[i] = "open" => i \in lost \/ (i \in DOMAIN book /\ IsOpen(book, i))

(* An order the book calls cancelled was cancelled at the exchange, and was not
   filled while the request was under way.                                   *)
CancelledIsCancelled ==
    \A i \in DOMAIN book : book[i].status = "CANCELLED" => exchange[i] = "cancelled"

(* Whoever follows on_order of the crypto gateway knows what its book says. *)
BookIsReported ==
    kind = "crypto" => \A i \in DOMAIN book : i \in DOMAIN reported /\ reported[i] = book[i].status

(* When all symbols keep ticking, updates of each keep being delivered.  One
   that falls silent keeps the others waiting.                               *)
TicksFlowIfAllTick ==
    <>(slot # 0) /\ (\A s \in Symbols : []<>(s \in fresh))
        => \A s \in Symbols : []<><<s \in fresh /\ s \notin fresh'>>_vars
===============================================================================
