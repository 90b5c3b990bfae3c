---------------------------- MODULE ExchangeProofs ----------------------------
(*****************************************************************************)
(* Theorems about the exchange gateways, alone and behind the Python risk    *)
(* rules, for any streamed symbols, any requests and any number of orders.   *)
(*****************************************************************************)
EXTENDS RiskedExchange, SumTheorems, TLAPS

Books == {"open", "filled", "cancelled"}

-----------------------------------------------------------------------------
(* The two ways a gateway changes its book. *)
LEMMA WithIs ==
    ASSUME NEW f, NEW i, NEW value
    PROVE  /\ DOMAIN With(f, i, value) = DOMAIN f \cup {i}
           /\ With(f, i, value)[i] = value
           /\ \A j \in DOMAIN f : j # i => With(f, i, value)[j] = f[j]
BY DEF With

LEMMA SubmittedMoves ==
    "ACCEPTED" \in Transitions["SUBMITTED"]
BY DEF Transitions, GatewayStatuses

(* An order that was answered enters the book as ACCEPTED. *)
LEMMA AcceptedIs ==
    ASSUME NEW f, NEW i
    PROVE  LET new == Move(With(f, i, Order("SUBMITTED")), i, "ACCEPTED", 0) IN
           /\ DOMAIN new = DOMAIN f \cup {i}
           /\ new[i] = Order("ACCEPTED")
           /\ \A j \in DOMAIN f : j # i => new[j] = f[j]
<1> DEFINE w == With(f, i, Order("SUBMITTED"))
<1>1. /\ DOMAIN w = DOMAIN f \cup {i}
      /\ w[i] = Order("SUBMITTED")
      /\ \A j \in DOMAIN f : j # i => w[j] = f[j]
  BY DEF With
<1>2. w[i].status = "SUBMITTED" /\ w[i].filled = 0
  BY <1>1 DEF Order
<1>3. MayMove(w, i, "ACCEPTED")
  BY <1>1, <1>2, SubmittedMoves DEF MayMove
<1>4. Moved(w[i], "ACCEPTED", 0) = Order("ACCEPTED")
  <2>1. Moved(w[i], "ACCEPTED", 0) = Moved(Order("SUBMITTED"), "ACCEPTED", 0)
    BY <1>1
  <2> DEFINE o == Order("SUBMITTED")
             p == [o EXCEPT !.status = "ACCEPTED"]
  <2>2. p = Order("ACCEPTED") /\ p.filled = 0 /\ o.filled = 0
    BY DEF Order
  <2>3. Moved(o, "ACCEPTED", 0) = [p EXCEPT !.filled = 0]
    <3> HIDE DEF o
    <3>1. o.filled + 0 = 0
      BY <2>2
    <3> QED
      BY <3>1 DEF Moved
  <2>4. [Order("ACCEPTED") EXCEPT !.filled = 0] = Order("ACCEPTED")
    BY DEF Order
  <2> QED
    BY <2>1, <2>2, <2>3, <2>4
<1>5. Move(w, i, "ACCEPTED", 0) = [w EXCEPT ![i] = Moved(w[i], "ACCEPTED", 0)]
  BY <1>3 DEF Move
<1> HIDE DEF w
<1>6. /\ DOMAIN [w EXCEPT ![i] = Order("ACCEPTED")] = DOMAIN w
      /\ [w EXCEPT ![i] = Order("ACCEPTED")][i] = Order("ACCEPTED")
      /\ \A j \in DOMAIN w : j # i => [w EXCEPT ![i] = Order("ACCEPTED")][j] = w[j]
  BY <1>1
<1> QED
  BY <1>1, <1>4, <1>5, <1>6 DEF w

(* A cancellation touches the status of one order of the book. *)
LEMMA CancelIs ==
    ASSUME NEW f, NEW i \in DOMAIN f,
           \A j \in DOMAIN f : f[j] \in [status : GatewayStatuses, filled : {0}]
    PROVE  LET new == Move(f, i, "CANCELLED", 0) IN
           /\ DOMAIN new = DOMAIN f
           /\ new[i] \in [status : GatewayStatuses, filled : {0}]
           /\ \A j \in DOMAIN f : j # i => new[j] = f[j]
<1>1. CASE ~MayMove(f, i, "CANCELLED")
  BY <1>1 DEF Move
<1>2. CASE MayMove(f, i, "CANCELLED")
  <2>1. Move(f, i, "CANCELLED", 0) = [f EXCEPT ![i] = Moved(f[i], "CANCELLED", 0)]
    BY <1>2 DEF Move
  <2>2. Moved(f[i], "CANCELLED", 0) \in [status : GatewayStatuses, filled : {0}]
    <3> DEFINE o == f[i]
    <3>1. o \in [status : GatewayStatuses, filled : {0}] /\ "CANCELLED" \in GatewayStatuses
      BY DEF GatewayStatuses
    <3> HIDE DEF o
    <3>2. o.filled = 0 /\ o.filled + 0 = 0
      BY <3>1
    <3> DEFINE p == [o EXCEPT !.status = "CANCELLED"]
    <3>3. p \in [status : GatewayStatuses, filled : {0}]
      BY <3>1
    <3> HIDE DEF p
    <3>4. [p EXCEPT !.filled = 0] \in [status : GatewayStatuses, filled : {0}]
      BY <3>3
    <3>5. Moved(o, "CANCELLED", 0) = [p EXCEPT !.filled = 0]
      BY <3>2 DEF Moved, p
    <3> QED
      BY <3>4, <3>5 DEF o
  <2> QED
    BY <2>1, <2>2
<1> QED
  BY <1>1, <1>2

-----------------------------------------------------------------------------
(* The invariant: besides the properties, only the crypto gateway moves an order
   that is in its book, so the order number 0 of XTP, which is no order of the
   exchange, is never called cancelled.                                        *)
NeverMoved ==
    kind # "crypto" => \A i \in DOMAIN book : book[i].status = "SUBMITTED"
GatewayInv ==
    TypeOK /\ NeverMoved /\ NoLiveOrderForgotten /\ CancelledIsCancelled /\ BookIsReported

LEMMA InitGateway == Init => GatewayInv
<1> SUFFICES ASSUME Init
             PROVE  GatewayInv
  OBVIOUS
<1>1. /\ kind \in Kinds /\ ready = FALSE /\ exchange = << >> /\ book = << >>
      /\ reported = << >> /\ lost = {} /\ slot = 0 /\ fresh = {}
  BY DEF Init, NoOrders
<1>2. DOMAIN book = {} /\ DOMAIN reported = {} /\ DOMAIN exchange = {}
  BY <1>1
<1>3. Len(Streamed) \in Nat
  BY GatewaysAssumption
<1>4. /\ ready \in BOOLEAN /\ slot \in 0 .. Len(Streamed)
      /\ exchange \in Seq({"open", "filled", "cancelled"})
  <2>1. slot \in 0 .. Len(Streamed)
    BY <1>1, <1>3
  <2>2. << >> \in Seq({"open", "filled", "cancelled"})
    OBVIOUS
  <2> QED
    BY <1>1, <2>1, <2>2
<1>5. /\ kind \in Kinds /\ fresh \subseteq Symbols
      /\ DOMAIN book \subseteq DOMAIN exchange \cup {FailedNumber}
      /\ DOMAIN reported \subseteq DOMAIN book
      /\ lost \subseteq DOMAIN exchange \ DOMAIN book
  BY <1>1, <1>2
<1>6. TypeOK
  BY <1>1, <1>2, <1>4, <1>5 DEF TypeOK
<1> QED
  BY <1>1, <1>2, <1>6 DEF GatewayInv, NeverMoved, NoLiveOrderForgotten, CancelledIsCancelled,
     BookIsReported

(* Steps that leave the orders alone. *)
OrdersUnchanged == UNCHANGED <<kind, exchange, book, reported, lost>>

LEMMA KeepsOrders ==
    ASSUME GatewayInv, OrdersUnchanged,
           ready' \in BOOLEAN, slot' \in 0 .. Len(Streamed), fresh' \subseteq Symbols
    PROVE  GatewayInv'
BY DEF GatewayInv, OrdersUnchanged, TypeOK, NeverMoved, NoLiveOrderForgotten,
   CancelledIsCancelled, BookIsReported, IsOpen, Symbols

(* The exchange gets one more order. *)
LEMMA TakesOrder ==
    ASSUME exchange \in Seq(Books)
    PROVE  LET new == Append(exchange, "open") IN
           /\ new \in Seq(Books)
           /\ DOMAIN new = DOMAIN exchange \cup {Taken}
           /\ Taken \notin DOMAIN exchange
           /\ new[Taken] = "open"
           /\ \A j \in DOMAIN exchange : new[j] = exchange[j]
           /\ Taken \in Nat \ {0}
BY DEF Taken, Books

(* An order at the exchange comes to its end. *)
LEMMA EndsOrder ==
    ASSUME exchange \in Seq(Books), NEW i \in DOMAIN exchange, NEW s \in Books
    PROVE  LET new == [exchange EXCEPT ![i] = s] IN
           /\ new \in Seq(Books)
           /\ DOMAIN new = DOMAIN exchange
           /\ new[i] = s
           /\ \A j \in DOMAIN exchange : j # i => new[j] = exchange[j]
OBVIOUS

LEMMA StepGateway == GatewayInv /\ [Next]_vars => GatewayInv'
<1> SUFFICES ASSUME GatewayInv, [Next]_vars
             PROVE  GatewayInv'
  OBVIOUS
<1>1. /\ kind \in Kinds /\ ready \in BOOLEAN
      /\ exchange \in Seq(Books)
      /\ DOMAIN book \subseteq DOMAIN exchange \cup {FailedNumber}
      /\ \A i \in DOMAIN book : book[i] \in [status : GatewayStatuses, filled : {0}]
      /\ FailedNumber \in DOMAIN book => kind = "xtp"
      /\ DOMAIN reported \subseteq DOMAIN book
      /\ lost \subseteq DOMAIN exchange \ DOMAIN book
      /\ slot \in 0 .. Len(Streamed) /\ fresh \subseteq Symbols
      /\ kind = "ctp" => exchange = << >>
  BY DEF GatewayInv, TypeOK, Books
<1>2. FailedNumber \notin DOMAIN exchange
  BY <1>1 DEF FailedNumber
<1>3. ASSUME NEW k, NEW yes \in BOOLEAN, Connected(k, yes)
      PROVE  GatewayInv'
  BY <1>1, <1>3, KeepsOrders DEF Connected, OrdersUnchanged, streamVars
<1>4. ASSUME NEW i \in DOMAIN exchange, ExchangeMoves(i)
      PROVE  GatewayInv'
  <2>1. PICK s \in {"filled", "cancelled"} : exchange' = [exchange EXCEPT ![i] = s]
    BY <1>4 DEF ExchangeMoves
  <2>2. /\ exchange[i] = "open"
        /\ UNCHANGED <<kind, ready, book, reported, lost, slot, fresh>>
    BY <1>4 DEF ExchangeMoves, streamVars
  <2>3. /\ exchange' \in Seq(Books) /\ DOMAIN exchange' = DOMAIN exchange
        /\ exchange'[i] = s
        /\ \A j \in DOMAIN exchange : j # i => exchange'[j] = exchange[j]
    BY <1>1, <2>1, EndsOrder DEF Books
  <2>4. TypeOK'
    BY <1>1, <2>2, <2>3 DEF TypeOK, Books, Symbols
  <2>5. NeverMoved' /\ BookIsReported'
    BY <2>2 DEF GatewayInv, NeverMoved, BookIsReported
  <2>6. NoLiveOrderForgotten'
    BY <2>1, <2>2, <2>3 DEF GatewayInv, NoLiveOrderForgotten, IsOpen
  <2>7. CancelledIsCancelled'
    <3> SUFFICES ASSUME NEW j \in DOMAIN book, book[j].status = "CANCELLED"
                 PROVE  exchange'[j] = "cancelled"
      BY <2>2 DEF CancelledIsCancelled
    <3>1. exchange[j] = "cancelled"
      BY DEF GatewayInv, CancelledIsCancelled
    <3>2. j # FailedNumber
      BY <1>1 DEF GatewayInv, NeverMoved
    <3> QED
      BY <1>1, <2>2, <2>3, <3>1, <3>2
  <2> QED
    BY <2>4, <2>5, <2>6, <2>7 DEF GatewayInv
<1>5. ASSUME NEW i \in DOMAIN book, CryptoCancel(i)
      PROVE  GatewayInv'
  <2>1. /\ kind = "crypto" /\ exchange[i] = "open"
        /\ exchange' = [exchange EXCEPT ![i] = "cancelled"]
        /\ UNCHANGED <<kind, ready, lost, slot, fresh>>
    BY <1>5 DEF CryptoCancel, streamVars
  <2>2. i \in DOMAIN exchange
    BY <1>1, <2>1
  <2>3. /\ exchange' \in Seq(Books) /\ DOMAIN exchange' = DOMAIN exchange
        /\ exchange'[i] = "cancelled"
        /\ \A j \in DOMAIN exchange : j # i => exchange'[j] = exchange[j]
    BY <1>1, <2>1, <2>2, EndsOrder DEF Books
  <2>4. i \in DOMAIN reported
    BY <2>1 DEF GatewayInv, BookIsReported
  <2>5. /\ DOMAIN book' = DOMAIN book
        /\ \A j \in DOMAIN book : book'[j] \in [status : GatewayStatuses, filled : {0}]
        /\ \A j \in DOMAIN book : j # i => book'[j] = book[j]
        /\ DOMAIN reported' = DOMAIN reported
        /\ \A j \in DOMAIN book : reported'[j] = book'[j].status
    <3>1. CASE UNCHANGED <<book, reported>>
      BY <1>1, <2>1, <3>1 DEF GatewayInv, BookIsReported
    <3>2. CASE /\ book' = Move(book, i, "CANCELLED", 0)
               /\ reported' = [reported EXCEPT ![i] = book'[i].status]
      <4>1. /\ DOMAIN book' = DOMAIN book
            /\ book'[i] \in [status : GatewayStatuses, filled : {0}]
            /\ \A j \in DOMAIN book : j # i => book'[j] = book[j]
        BY <1>1, <3>2, CancelIs
      <4> QED
        BY <1>1, <2>1, <2>4, <3>2, <4>1 DEF GatewayInv, BookIsReported
    <3> QED
      BY <1>5, <3>1, <3>2 DEF CryptoCancel
  <2>6. TypeOK'
    BY <1>1, <2>1, <2>3, <2>5 DEF TypeOK, Books, Symbols
  <2>7. NeverMoved'
    BY <2>1 DEF NeverMoved
  <2>8. NoLiveOrderForgotten'
    BY <2>1, <2>3, <2>5 DEF GatewayInv, NoLiveOrderForgotten, IsOpen
  <2>9. CancelledIsCancelled'
    <3> SUFFICES ASSUME NEW j \in DOMAIN book, book'[j].status = "CANCELLED"
                 PROVE  exchange'[j] = "cancelled"
      BY <2>5 DEF CancelledIsCancelled
    <3> QED
      BY <1>1, <2>1, <2>3, <2>5 DEF GatewayInv, CancelledIsCancelled
  <2>10. BookIsReported'
    BY <2>1, <2>5 DEF GatewayInv, BookIsReported
  <2> QED
    BY <2>6, <2>7, <2>8, <2>9, <2>10 DEF GatewayInv
<1>6. ASSUME NEW i \in DOMAIN book, XtpCancel(i)
      PROVE  GatewayInv'
  <2>1. /\ kind = "xtp" /\ exchange[i] = "open" /\ i \in Numbers
        /\ exchange' = [exchange EXCEPT ![i] = "cancelled"]
        /\ UNCHANGED <<kind, ready, book, reported, lost, slot, fresh>>
    BY <1>6 DEF XtpCancel, streamVars
  <2>2. i \in DOMAIN exchange
    BY <1>1, <2>1 DEF Numbers, FailedNumber
  <2>3. /\ exchange' \in Seq(Books) /\ DOMAIN exchange' = DOMAIN exchange
        /\ exchange'[i] = "cancelled"
        /\ \A j \in DOMAIN exchange : j # i => exchange'[j] = exchange[j]
    BY <1>1, <2>1, <2>2, EndsOrder DEF Books
  <2>4. TypeOK'
    BY <1>1, <2>1, <2>3 DEF TypeOK, Books, Symbols
  <2>5. NeverMoved' /\ BookIsReported' /\ CancelledIsCancelled'
    BY <2>1 DEF GatewayInv, NeverMoved, BookIsReported, CancelledIsCancelled
  <2>6. NoLiveOrderForgotten'
    BY <2>1, <2>3 DEF GatewayInv, NoLiveOrderForgotten, IsOpen
  <2> QED
    BY <2>4, <2>5, <2>6 DEF GatewayInv
<1>7. CASE CryptoSend
  <2>1. /\ kind = "crypto" /\ exchange' = Append(exchange, "open")
        /\ UNCHANGED <<kind, ready, slot, fresh>>
    BY <1>7 DEF CryptoSend, streamVars
  <2>2. /\ exchange' \in Seq(Books) /\ DOMAIN exchange' = DOMAIN exchange \cup {Taken}
        /\ Taken \notin DOMAIN exchange
        /\ \A j \in DOMAIN exchange : exchange'[j] = exchange[j]
        /\ Taken \in Nat \ {0}
    BY <1>1, <2>1, TakesOrder
  <2>3. Taken \notin DOMAIN book /\ FailedNumber \notin DOMAIN book
    BY <1>1, <2>1, <2>2 DEF FailedNumber
  <2>4. NeverMoved'
    BY <2>1 DEF NeverMoved
  <2>5. CASE UNCHANGED <<book, reported>> /\ lost' = lost \cup {Taken}
    <3>1. TypeOK'
      BY <1>1, <2>1, <2>2, <2>3, <2>5 DEF TypeOK, Books, Symbols
    <3>2. NoLiveOrderForgotten' /\ CancelledIsCancelled' /\ BookIsReported'
      BY <1>1, <2>1, <2>2, <2>3, <2>5 DEF GatewayInv, NoLiveOrderForgotten,
         CancelledIsCancelled, BookIsReported, IsOpen
    <3> QED
      BY <2>4, <3>1, <3>2 DEF GatewayInv
  <2>6. CASE /\ book' = Move(With(book, Taken, Order("SUBMITTED")), Taken, "ACCEPTED", 0)
             /\ reported' = With(reported, Taken, "ACCEPTED")
             /\ UNCHANGED lost
    <3>1. /\ DOMAIN book' = DOMAIN book \cup {Taken}
          /\ book'[Taken] = Order("ACCEPTED")
          /\ \A j \in DOMAIN book : book'[j] = book[j]
      <4>1. PICK n : n = Taken
        OBVIOUS
      <4>2. book' = Move(With(book, n, Order("SUBMITTED")), n, "ACCEPTED", 0)
        BY <2>6, <4>1
      <4>3. /\ DOMAIN book' = DOMAIN book \cup {n}
            /\ book'[n] = Order("ACCEPTED")
            /\ \A j \in DOMAIN book : j # n => book'[j] = book[j]
        BY <4>2, AcceptedIs
      <4> QED
        BY <2>3, <4>1, <4>3
    <3>2. /\ DOMAIN reported' = DOMAIN reported \cup {Taken}
          /\ reported'[Taken] = "ACCEPTED"
          /\ \A j \in DOMAIN reported : j # Taken => reported'[j] = reported[j]
      BY <2>6 DEF With
    <3>3. /\ Order("ACCEPTED") \in [status : GatewayStatuses, filled : {0}]
          /\ Order("ACCEPTED").status = "ACCEPTED"
      BY DEF Order, GatewayStatuses
    <3>4. TypeOK'
      <4>1. \A j \in DOMAIN book' : book'[j] \in [status : GatewayStatuses, filled : {0}]
        BY <1>1, <3>1, <3>3
      <4>2. /\ DOMAIN book' \subseteq DOMAIN exchange' \cup {FailedNumber}
            /\ DOMAIN reported' \subseteq DOMAIN book'
            /\ lost' \subseteq DOMAIN exchange' \ DOMAIN book'
        BY <1>1, <2>2, <2>6, <3>1, <3>2
      <4>3. FailedNumber \notin DOMAIN book' /\ kind' # "ctp"
        BY <2>1, <2>2, <2>3, <3>1 DEF FailedNumber
      <4> QED
        BY <1>1, <2>1, <2>2, <4>1, <4>2, <4>3 DEF TypeOK, Books, Symbols
    <3>5. NoLiveOrderForgotten'
      BY <1>1, <2>2, <2>6, <3>1, <3>3 DEF GatewayInv, NoLiveOrderForgotten, IsOpen, OpenStatuses
    <3>6. CancelledIsCancelled'
      BY <1>1, <2>1, <2>2, <2>3, <3>1, <3>3 DEF GatewayInv, CancelledIsCancelled
    <3>7. BookIsReported'
      BY <2>1, <2>3, <3>1, <3>2, <3>3 DEF GatewayInv, BookIsReported
    <3> QED
      BY <2>4, <3>4, <3>5, <3>6, <3>7 DEF GatewayInv
  <2> QED
    BY <1>7, <2>5, <2>6 DEF CryptoSend
<1>8. CASE XtpSend
  <2>1. /\ kind = "xtp" /\ UNCHANGED <<kind, ready, reported, lost, slot, fresh>>
    BY <1>8 DEF XtpSend, streamVars
  <2>2. /\ Order("SUBMITTED") \in [status : GatewayStatuses, filled : {0}]
        /\ Order("SUBMITTED").status = "SUBMITTED"
    BY DEF Order, GatewayStatuses
  <2>3. BookIsReported'
    BY <2>1 DEF BookIsReported
  <2>4. \A i \in DOMAIN book : book[i].status = "SUBMITTED"
    BY <2>1 DEF GatewayInv, NeverMoved
  <2>5. CASE /\ exchange' = Append(exchange, "open")
             /\ book' = With(book, Taken, Order("SUBMITTED"))
    <3>1. /\ exchange' \in Seq(Books) /\ DOMAIN exchange' = DOMAIN exchange \cup {Taken}
          /\ Taken \notin DOMAIN exchange
          /\ \A j \in DOMAIN exchange : exchange'[j] = exchange[j]
          /\ Taken \in Nat \ {0}
      BY <1>1, <2>5, TakesOrder
    <3>2. /\ DOMAIN book' = DOMAIN book \cup {Taken}
          /\ book'[Taken] = Order("SUBMITTED")
          /\ \A j \in DOMAIN book : j # Taken => book'[j] = book[j]
      BY <2>5 DEF With
    <3>3. Taken \notin DOMAIN book
      BY <1>1, <3>1 DEF FailedNumber
    <3>4. TypeOK'
      BY <1>1, <2>1, <2>2, <3>1, <3>2, <3>3 DEF TypeOK, Books, Symbols
    <3>5. NeverMoved' /\ CancelledIsCancelled'
      BY <2>2, <2>4, <3>2 DEF NeverMoved, CancelledIsCancelled
    <3>6. NoLiveOrderForgotten'
      BY <1>1, <2>1, <2>2, <3>1, <3>2, <3>3
         DEF GatewayInv, NoLiveOrderForgotten, IsOpen, OpenStatuses
    <3> QED
      BY <2>3, <3>4, <3>5, <3>6 DEF GatewayInv
  <2>6. CASE /\ UNCHANGED exchange
             /\ book' = With(book, FailedNumber, Order("SUBMITTED"))
    <3>1. /\ DOMAIN book' = DOMAIN book \cup {FailedNumber}
          /\ book'[FailedNumber] = Order("SUBMITTED")
          /\ \A j \in DOMAIN book : j # FailedNumber => book'[j] = book[j]
      BY <2>6, WithIs
    <3>2. TypeOK'
      BY <1>1, <1>2, <2>1, <2>2, <2>6, <3>1 DEF TypeOK, Books, Symbols
    <3>3. NeverMoved' /\ CancelledIsCancelled'
      BY <2>2, <2>4, <3>1 DEF NeverMoved, CancelledIsCancelled
    <3>4. NoLiveOrderForgotten'
      BY <1>1, <1>2, <2>1, <2>6, <3>1 DEF GatewayInv, NoLiveOrderForgotten, IsOpen
    <3> QED
      BY <2>3, <3>2, <3>3, <3>4 DEF GatewayInv
  <2> QED
    BY <1>8, <2>5, <2>6 DEF XtpSend
<1>9. CASE StartStream
  <2>1. Len(Streamed) >= 1
    BY <1>9, GatewaysAssumption DEF StartStream
  <2> QED
    BY <1>1, <1>9, <2>1, KeepsOrders, GatewaysAssumption DEF StartStream, OrdersUnchanged, orderVars
<1>10. ASSUME NEW s \in Symbols, Ticks(s)
       PROVE  GatewayInv'
  BY <1>1, <1>10, KeepsOrders DEF Ticks, OrdersUnchanged, orderVars
<1>11. CASE Await
  <2>1. Len(Streamed) \in Nat
    BY GatewaysAssumption
  <2>2. slot' \in 0 .. Len(Streamed)
    BY <1>1, <1>11, <2>1 DEF Await
  <2> QED
    BY <1>1, <1>11, <2>2, KeepsOrders DEF Await, OrdersUnchanged, orderVars
<1>12. CASE UNCHANGED vars
  BY <1>1, <1>12, KeepsOrders DEF vars, OrdersUnchanged, orderVars, streamVars
<1> QED
  BY <1>3, <1>4, <1>5, <1>6, <1>7, <1>8, <1>9, <1>10, <1>11, <1>12
     DEF Next, NextButSend, CryptoConnect, XtpConnect, CtpConnect, CryptoDisconnect,
         XtpDisconnect, CtpDisconnect

LEMMA GatewayInvariant == Spec => []GatewayInv
BY InitGateway, StepGateway, PTL DEF Spec

-----------------------------------------------------------------------------
(* Whatever the exchange does by itself and whichever answers are lost, the state
   of a gateway keeps its type: what is in the book is an order of the exchange
   or the order number 0 of XTP, and CTP sends nothing.                          *)
THEOREM GatewaysTypeCorrect == Spec => []TypeOK
<1>1. GatewayInv => TypeOK
  BY DEF GatewayInv
<1> QED
  BY <1>1, GatewayInvariant, PTL

(* Who follows on_order of the crypto gateway knows what its book says. *)
THEOREM CryptoBookIsReported == Spec => []BookIsReported
<1>1. GatewayInv => BookIsReported
  BY DEF GatewayInv
<1> QED
  BY <1>1, GatewayInvariant, PTL

(* Behind the risk rules the gateways do what they do alone. *)
LEMMA RiskedStep == RiskedNext => [Next]_vars
BY DEF RiskedNext, SetBlacklist, QueryAccount, QueryPosition, CheckOrder, SendApproved,
   SendRaises, Next, NextButSend, vars

LEMMA RiskedIsGateways == RiskedSpec => Spec
<1>1. RiskedInit => Init
  BY DEF RiskedInit
<1>2. [RiskedNext]_allVars => [Next]_vars
  BY RiskedStep DEF allVars, vars
<1> QED
  BY <1>1, <1>2, PTL DEF RiskedSpec, Spec

(* No order that lives at the exchange is missing from the book's open orders,
   but for those whose send_order raised: behind the risk rules, for any number
   of orders.                                                                  *)
THEOREM ExchangeNoLiveOrderForgotten == RiskedSpec => []NoLiveOrderForgotten
<1>1. GatewayInv => NoLiveOrderForgotten
  BY DEF GatewayInv
<1> QED
  BY <1>1, GatewayInvariant, RiskedIsGateways, PTL

(* What the book calls cancelled was cancelled, and not filled meanwhile: behind
   the risk rules, for any number of orders.                                   *)
THEOREM ExchangeCancelledIsCancelled == RiskedSpec => []CancelledIsCancelled
<1>1. GatewayInv => CancelledIsCancelled
  BY DEF GatewayInv
<1> QED
  BY <1>1, GatewayInvariant, RiskedIsGateways, PTL

-----------------------------------------------------------------------------
(* The position limit.  What is checked and not yet at the exchange, and what is
   alive there, is at most one order for who waits for each to end; the invariant
   keeps room for it.  A position that was answered while nothing was alive stays
   what is held until an order is sent.                                         *)
RequestsTyped ==
    /\ approved \in Requests \cup {NoRequest}
    /\ sent \in Seq(Requests) /\ Len(sent) = Len(exchange)
OneAtATime ==
    ~misled => /\ approved # NoRequest => Alive = {}
               /\ \A i, j \in Alive : i = j
LimitsOnly == \A i \in DOMAIN sent : sent[i].type = "LIMIT"
Fits(r) == r.direction = "LONG" /\ r.type = "LIMIT" => Held + r.volume <= MaxUnits
RoomKept ==
    kind = "crypto" /\ ~misled /\ LimitsOnly =>
        /\ Held <= MaxUnits
        /\ approved # NoRequest => Fits(approved)
        /\ \A i \in Alive : Fits(sent[i])
AnswerType == [balance : 0 .. MaxUnits, position : Int, current : BOOLEAN]
AnswersHold ==
    /\ queried # "nothing" => approved = NoRequest
    /\ answered \in AnswerType
    /\ answered.current => kind = "crypto" /\ answered.balance > 0
    /\ queried = "position" /\ answered.current => Alive = {} /\ answered.position = Held
RiskInv == TypeOK /\ RequestsTyped /\ OneAtATime /\ AnswersHold /\ RoomKept

Signed(orders) == [i \in DOMAIN orders |-> SignedVolume(orders[i])]
LEMMA HeldIs == Held = SumFunctionOnSet(Signed(sent), Fills)
BY DEF Held, Signed

LEMMA RequestIs ==
    ASSUME NEW r \in Requests
    PROVE  /\ r.volume \in Int /\ r.volume > 0 /\ SignedVolume(r) \in Int
           /\ SignedVolume(r) = IF r.direction = "LONG" THEN r.volume ELSE -r.volume
           /\ r.type \in {"LIMIT", "MARKET"}
           /\ r # NoRequest
BY RiskedAssumption DEF SignedVolume, NoRequest

(* What is summed up is finite, and integers. *)
LEMMA HeldSummands ==
    ASSUME TypeOK, RequestsTyped
    PROVE  /\ DOMAIN sent = DOMAIN exchange
           /\ Fills \subseteq DOMAIN sent
           /\ IsFiniteSet(Fills)
           /\ \A i \in DOMAIN sent : Signed(sent)[i] \in Int
           /\ Held \in Int
<1>1. /\ Len(exchange) \in Nat
      /\ DOMAIN exchange = 1 .. Len(exchange) /\ DOMAIN sent = 1 .. Len(exchange)
  BY DEF TypeOK, RequestsTyped
<1>2. IsFiniteSet(1 .. Len(exchange))
  BY <1>1, FS_Interval
<1>3. Fills \subseteq DOMAIN sent /\ IsFiniteSet(Fills)
  BY <1>1, <1>2, FS_Subset DEF Fills
<1>4. \A i \in DOMAIN sent : Signed(sent)[i] \in Int
  BY RequestIs DEF Signed, RequestsTyped
<1>5. SumFunctionOnSet(Signed(sent), Fills) \in Int
  BY <1>3, <1>4, SumInt
<1> QED
  BY <1>1, <1>3, <1>4, <1>5, HeldIs

-----------------------------------------------------------------------------
(* What a step does to what is held, alive and approved. *)
NothingMoves == UNCHANGED <<exchange, sent, kind>>
KeepsAnswers == UNCHANGED <<queried, answered>>
Clears == approved' = NoRequest /\ misled' = misled /\ KeepsAnswers
KeepsOrder == UNCHANGED <<approved, misled>>
Ends(i) ==
    /\ exchange[i] = "open"
    /\ \E s \in {"filled", "cancelled"} : exchange' = [exchange EXCEPT ![i] = s]
    /\ UNCHANGED <<kind, sent, approved, misled>>
    /\ KeepsAnswers
Enters ==
    /\ approved # NoRequest
    /\ exchange' = Append(exchange, "open")
    /\ sent' = Append(sent, approved)
    /\ kind' = kind
    /\ Clears

LEMMA RiskedMoves ==
    ASSUME TypeOK, [RiskedNext]_allVars
    PROVE  \/ NothingMoves /\ KeepsOrder /\ KeepsAnswers
           \/ NothingMoves /\ Clears
           \/ QueryAccount \/ QueryPosition
           \/ \E r \in Requests : CheckOrder(r)
           \/ \E i \in DOMAIN exchange : Ends(i)
           \/ Enters
<1> DEFINE Goal == \/ NothingMoves /\ KeepsOrder /\ KeepsAnswers
                   \/ NothingMoves /\ Clears
                   \/ QueryAccount \/ QueryPosition
                   \/ \E r \in Requests : CheckOrder(r)
                   \/ \E i \in DOMAIN exchange : Ends(i)
                   \/ Enters
<1>1. CASE SetBlacklist
  BY <1>1 DEF SetBlacklist, vars, orderVars, NothingMoves, KeepsOrder, KeepsAnswers
<1>2. CASE \E r \in Requests : CheckOrder(r)
  BY <1>2
<1>3. CASE SendApproved
  <2>1. exchange \in Seq(Books)
    BY DEF TypeOK, Books
  <2>2. Append(exchange, "open") # exchange
    BY <2>1
  <2>3. CASE CryptoSend
    BY <1>3, <2>2, <2>3 DEF SendApproved, CryptoSend, Enters, Clears, KeepsAnswers
  <2>4. CASE XtpSend /\ exchange' = Append(exchange, "open")
    BY <1>3, <2>2, <2>4 DEF SendApproved, XtpSend, Enters, Clears, KeepsAnswers
  <2>5. CASE XtpSend /\ exchange' = exchange
    BY <1>3, <2>5 DEF SendApproved, XtpSend, NothingMoves, Clears, KeepsAnswers
  <2> QED
    BY <1>3, <2>3, <2>4, <2>5 DEF SendApproved, XtpSend
<1>4. CASE SendRaises
  BY <1>4 DEF SendRaises, vars, orderVars, NothingMoves, Clears, KeepsAnswers
<1>5. CASE NextButSend /\ UNCHANGED riskVars
  <2>1. UNCHANGED <<approved, sent, misled>> /\ KeepsOrder /\ KeepsAnswers
    BY <1>5 DEF riskVars, KeepsOrder, KeepsAnswers
  <2>2. CASE \E i \in DOMAIN exchange : ExchangeMoves(i)
    BY <2>1, <2>2 DEF ExchangeMoves, Ends
  <2>3. ASSUME NEW i \in DOMAIN book, CryptoCancel(i)
        PROVE  Goal
    <3>1. kind = "crypto" /\ exchange[i] = "open" /\ kind' = kind
          /\ exchange' = [exchange EXCEPT ![i] = "cancelled"]
      BY <2>3 DEF CryptoCancel
    <3>2. i \in DOMAIN exchange
      BY <3>1 DEF TypeOK
    <3> QED
      BY <2>1, <3>1, <3>2 DEF Ends
  <2>4. ASSUME NEW i \in DOMAIN book, XtpCancel(i)
        PROVE  Goal
    <3>1. i \in Numbers /\ exchange[i] = "open" /\ kind' = kind
          /\ exchange' = [exchange EXCEPT ![i] = "cancelled"]
      BY <2>4 DEF XtpCancel
    <3>2. i \in DOMAIN exchange
      BY <3>1, GatewaysAssumption DEF TypeOK, Numbers, FailedNumber
    <3> QED
      BY <2>1, <3>1, <3>2 DEF Ends
  <2>5. CASE \/ CryptoConnect \/ XtpConnect \/ CtpConnect
             \/ CryptoDisconnect \/ XtpDisconnect \/ CtpDisconnect
    BY <2>1, <2>5 DEF CryptoConnect, XtpConnect, CtpConnect, CryptoDisconnect, XtpDisconnect,
       CtpDisconnect, Connected, NothingMoves
  <2>6. CASE StartStream \/ Await \/ \E s \in Symbols : Ticks(s)
    BY <2>1, <2>6 DEF StartStream, Await, Ticks, orderVars, NothingMoves
  <2> QED
    BY <1>5, <2>2, <2>3, <2>4, <2>5, <2>6 DEF NextButSend
<1>6. CASE UNCHANGED allVars
  BY <1>6 DEF allVars, vars, orderVars, riskVars, NothingMoves, KeepsOrder, KeepsAnswers
<1> QED
  BY <1>1, <1>2, <1>3, <1>4, <1>5, <1>6 DEF RiskedNext

(* Where nothing moves at the exchange, what is held stays. *)
LEMMA NothingMovesKeeps ==
    ASSUME NothingMoves
    PROVE  /\ Held' = Held /\ Alive' = Alive /\ (LimitsOnly <=> LimitsOnly')
           /\ \A r : Fits(r) <=> Fits(r)'
<1>1. Held' = Held
  BY DEF NothingMoves, Held, Fills
<1> QED
  BY <1>1 DEF NothingMoves, Alive, LimitsOnly, Fits

(* An order that is filled adds its volume, one that is cancelled nothing. *)
LEMMA EndsHeld ==
    ASSUME TypeOK, RequestsTyped, NEW i \in DOMAIN exchange, Ends(i)
    PROVE  /\ Alive' = Alive \ {i}
           /\ Held' = Held \/ Held' = Held + SignedVolume(sent[i])
<1>1. PICK s \in {"filled", "cancelled"} : exchange' = [exchange EXCEPT ![i] = s]
  BY DEF Ends
<1>2. exchange \in Seq(Books) /\ exchange[i] = "open" /\ sent' = sent
  BY DEF Ends, TypeOK, Books
<1>3. /\ DOMAIN exchange' = DOMAIN exchange
      /\ exchange'[i] = s
      /\ \A j \in DOMAIN exchange : j # i => exchange'[j] = exchange[j]
  BY <1>1, <1>2, EndsOrder DEF Books
<1>4. Alive' = Alive \ {i}
  BY <1>2, <1>3 DEF Alive
<1>5. CASE s = "cancelled"
  <2>1. Fills' = Fills
    BY <1>2, <1>3, <1>5 DEF Fills
  <2>2. Held' = Held
    BY <1>2, <2>1 DEF Held
  <2> QED
    BY <1>4, <2>2
<1>6. CASE s = "filled"
  <2>1. Fills' = Fills \cup {i} /\ i \notin Fills
    BY <1>2, <1>3, <1>6 DEF Fills
  <2>2. Held' = SumFunctionOnSet(Signed(sent), Fills \cup {i})
    BY <1>2, <2>1 DEF Held, Signed
  <2>3. /\ IsFiniteSet(Fills) /\ i \in DOMAIN sent
        /\ \A x \in Fills \cup {i} : Signed(sent)[x] \in Int
    BY HeldSummands
  <2>4. SumFunctionOnSet(Signed(sent), Fills \cup {i})
            = SumFunctionOnSet(Signed(sent), Fills) + Signed(sent)[i]
    BY <2>1, <2>3, SumAdd
  <2>5. Signed(sent)[i] = SignedVolume(sent[i])
    BY <2>3 DEF Signed
  <2> QED
    BY <1>4, <2>2, <2>4, <2>5, HeldIs
<1> QED
  BY <1>5, <1>6

(* An order that enters is alive, and adds nothing yet. *)
LEMMA EntersHeld ==
    ASSUME TypeOK, RequestsTyped, Enters
    PROVE  /\ Alive' = Alive \cup {Taken}
           /\ Held' = Held
           /\ sent' \in Seq(Requests) /\ Len(sent') = Len(exchange')
           /\ DOMAIN sent' = DOMAIN sent \cup {Taken}
           /\ sent'[Taken] = approved
           /\ \A i \in DOMAIN sent : sent'[i] = sent[i]
<1>1. exchange \in Seq(Books) /\ exchange' = Append(exchange, "open")
  BY DEF Enters, TypeOK, Books
<1>2. /\ DOMAIN exchange' = DOMAIN exchange \cup {Taken} /\ Taken \notin DOMAIN exchange
      /\ exchange'[Taken] = "open"
      /\ \A j \in DOMAIN exchange : exchange'[j] = exchange[j]
  BY <1>1, TakesOrder
<1>3. Alive' = Alive \cup {Taken} /\ Fills' = Fills
  BY <1>2 DEF Alive, Fills
<1>4. sent \in Seq(Requests) /\ approved \in Requests /\ sent' = Append(sent, approved)
      /\ Len(sent) = Len(exchange)
  BY DEF Enters, RequestsTyped
<1>5. /\ sent' \in Seq(Requests) /\ Len(sent') = Len(exchange')
      /\ DOMAIN sent' = DOMAIN sent \cup {Taken}
      /\ sent'[Taken] = approved
      /\ \A i \in DOMAIN sent : sent'[i] = sent[i]
  BY <1>1, <1>4 DEF Taken
<1>6. IsFiniteSet(Fills) /\ Fills \subseteq DOMAIN sent
  BY HeldSummands
<1>7. \A i \in Fills : Signed(sent')[i] = Signed(sent)[i]
  BY <1>5, <1>6 DEF Signed
<1>8. SumFunctionOnSet(Signed(sent'), Fills) = SumFunctionOnSet(Signed(sent), Fills)
  BY <1>6, <1>7, SumSame
<1>9. Held' = SumFunctionOnSet(Signed(sent'), Fills)
  BY <1>3 DEF Held, Signed
<1> QED
  BY <1>3, <1>5, <1>8, <1>9, HeldIs

-----------------------------------------------------------------------------
LEMMA AnswerIs ==
    ASSUME NEW b \in 0 .. MaxUnits, NEW h \in Int, NEW c \in BOOLEAN
    PROVE  [balance |-> b, position |-> h, current |-> c] \in AnswerType
BY DEF AnswerType

LEMMA NoAnswersIs == NoAnswers \in AnswerType
<1>1. 0 \in 0 .. MaxUnits /\ 0 \in Int
  BY RiskedAssumption
<1>2. FALSE \in BOOLEAN
  OBVIOUS
<1> QED
  BY <1>1, <1>2, AnswerIs DEF NoAnswers

LEMMA InitRisk == RiskedInit => RiskInv
<1> SUFFICES ASSUME RiskedInit
             PROVE  RiskInv
  OBVIOUS
<1>1. TypeOK
  BY InitGateway DEF RiskedInit, GatewayInv
<1>2. /\ exchange = << >> /\ sent = << >> /\ approved = NoRequest
      /\ queried = "nothing" /\ answered = NoAnswers
  BY DEF RiskedInit, Init
<1>3. RequestsTyped
  BY <1>2 DEF RequestsTyped
<1>4. Alive = {} /\ Fills = {}
  BY <1>2 DEF Alive, Fills
<1>5. Held = 0
  BY <1>4, SumEmpty, HeldIs
<1>6. MaxUnits \in Nat
  BY RiskedAssumption
<1>7. AnswersHold
  BY <1>2, NoAnswersIs DEF AnswersHold, NoAnswers
<1> QED
  BY <1>1, <1>2, <1>3, <1>4, <1>5, <1>6, <1>7 DEF RiskInv, OneAtATime, RoomKept

LEMMA BalancesAre ==
    ASSUME NEW b \in Balances
    PROVE  b \in 0 .. MaxUnits /\ b \in Int /\ (b > 0 => kind = "crypto")
<1>1. 0 \in 0 .. MaxUnits /\ \A x \in 0 .. MaxUnits : x \in Int
  BY RiskedAssumption
<1>2. CASE Answers
  BY <1>1, <1>2 DEF Balances, Answers
<1>3. CASE ~Answers
  BY <1>1, <1>3 DEF Balances
<1> QED
  BY <1>2, <1>3

(* Where nothing moves and no order is approved, an approved one may be dropped. *)
LEMMA OrderKeptStep ==
    ASSUME RiskInv, NothingMoves, misled' = misled,
           approved' = approved \/ approved' = NoRequest
    PROVE  RequestsTyped' /\ OneAtATime' /\ RoomKept'
<1>1. /\ Held' = Held /\ Alive' = Alive /\ (LimitsOnly <=> LimitsOnly')
      /\ \A r : Fits(r) <=> Fits(r)'
  BY NothingMovesKeeps
<1>2. exchange' = exchange /\ sent' = sent /\ kind' = kind
  BY DEF NothingMoves
<1>3. RequestsTyped'
  BY <1>2 DEF RiskInv, RequestsTyped
<1>4. OneAtATime'
  BY <1>1 DEF RiskInv, OneAtATime
<1>5. RoomKept'
  BY <1>1, <1>2 DEF RiskInv, RoomKept, Fits, LimitsOnly
<1> QED
  BY <1>3, <1>4, <1>5

(* An account answered has no position yet. *)
LEMMA QueryAccountStep ==
    ASSUME RiskInv, QueryAccount
    PROVE  RequestsTyped' /\ OneAtATime' /\ AnswersHold' /\ RoomKept'
<1>1. /\ NothingMoves /\ KeepsOrder /\ queried' = "account" /\ approved = NoRequest
      /\ \E b \in Balances : answered' = [balance |-> b, position |-> 0, current |-> b > 0]
  BY DEF QueryAccount, vars, orderVars, NothingMoves, KeepsOrder
<1>2. PICK b \in Balances : answered' = [balance |-> b, position |-> 0, current |-> b > 0]
  BY <1>1
<1>3. b \in 0 .. MaxUnits /\ b \in Int /\ (b > 0 => kind = "crypto")
  BY BalancesAre
<1>4. (b > 0) \in BOOLEAN /\ 0 \in Int
  OBVIOUS
<1>5. answered' \in AnswerType
  BY <1>2, <1>3, <1>4, AnswerIs
<1>6. answered'.balance = b /\ (answered'.current <=> b > 0)
  BY <1>2
<1>7. kind' = kind /\ approved' = NoRequest
  BY <1>1 DEF NothingMoves, KeepsOrder
<1>8. AnswersHold'
  BY <1>1, <1>3, <1>5, <1>6, <1>7 DEF AnswersHold
<1>9. misled' = misled /\ approved' = approved
  BY <1>1 DEF KeepsOrder
<1> QED
  BY <1>1, <1>8, <1>9, OrderKeptStep

(* A position answered while nothing is alive is what is held. *)
LEMMA QueryPositionStep ==
    ASSUME RiskInv, QueryPosition
    PROVE  RequestsTyped' /\ OneAtATime' /\ AnswersHold' /\ RoomKept'
<1>1. /\ NothingMoves /\ KeepsOrder /\ queried = "account" /\ queried' = "position"
      /\ answered' = [answered EXCEPT !.position = Position,
                                      !.current = @ /\ ready /\ Alive = {}]
  BY DEF QueryPosition, vars, orderVars, NothingMoves, KeepsOrder
<1>2. Held' = Held /\ Alive' = Alive
  BY <1>1, NothingMovesKeeps
<1>3. ready \in BOOLEAN /\ Held \in Int
  BY HeldSummands DEF RiskInv, TypeOK
<1>4. Position \in Int /\ (kind = "crypto" /\ ready => Position = Held)
  BY <1>3 DEF Position, Answers
<1>5. answered \in AnswerType /\ ready \in BOOLEAN /\ (Alive = {}) \in BOOLEAN
  BY <1>3 DEF RiskInv, AnswersHold
<1>6. /\ answered' \in AnswerType
      /\ answered'.balance = answered.balance
      /\ answered'.position = Position
      /\ answered'.current <=> answered.current /\ ready /\ Alive = {}
  BY <1>1, <1>4, <1>5, Zenon DEF AnswerType
<1>7. /\ queried # "nothing" => approved = NoRequest
      /\ answered.current => kind = "crypto" /\ answered.balance > 0
  BY DEF RiskInv, AnswersHold
<1>8. kind' = kind /\ approved' = approved /\ misled' = misled
  BY <1>1 DEF NothingMoves, KeepsOrder
<1>9. AnswersHold'
  <2>1. queried' # "nothing" => approved' = NoRequest
    BY <1>1, <1>7, <1>8
  <2>2. answered'.current => kind' = "crypto" /\ answered'.balance > 0
    BY <1>6, <1>7, <1>8
  <2>3. answered'.current => Alive' = {} /\ answered'.position = Held'
    BY <1>2, <1>4, <1>6, <1>7
  <2> QED
    BY <1>6, <2>1, <2>2, <2>3 DEF AnswersHold
<1> QED
  BY <1>1, <1>8, <1>9, OrderKeptStep

(* The check of one order: what it approves on answers that are current fits. *)
LEMMA CheckStep ==
    ASSUME RiskInv, NEW r \in Requests, CheckOrder(r)
    PROVE  RequestsTyped' /\ OneAtATime' /\ AnswersHold' /\ RoomKept'
<1>1. /\ NothingMoves /\ queried = "position" /\ queried' = "nothing" /\ answered' = NoAnswers
      /\ \/ Check(r) /\ approved' = r /\ misled' = (misled \/ ~answered.current)
         \/ KeepsOrder
  BY DEF CheckOrder, vars, orderVars, NothingMoves, KeepsOrder
<1>2. AnswersHold'
  BY <1>1, NoAnswersIs DEF AnswersHold, NoAnswers
<1>3. CASE KeepsOrder
  <2>1. misled' = misled /\ approved' = approved
    BY <1>3 DEF KeepsOrder
  <2> QED
    BY <1>1, <1>2, <2>1, OrderKeptStep
<1>4. CASE Check(r) /\ approved' = r /\ misled' = (misled \/ ~answered.current)
  <2>1. RequestsTyped'
    BY <1>1, <1>4 DEF RiskInv, RequestsTyped, NothingMoves
  <2>2. /\ Held' = Held /\ Alive' = Alive /\ (LimitsOnly <=> LimitsOnly')
        /\ \A q : Fits(q) <=> Fits(q)'
    BY <1>1, NothingMovesKeeps
  <2>3. ~misled' => ~misled /\ answered.current /\ Alive = {} /\ answered.position = Held
                    /\ answered.balance > 0
    BY <1>1, <1>4 DEF RiskInv, AnswersHold
  <2>4. OneAtATime'
    BY <2>2, <2>3 DEF OneAtATime
  <2>5. ASSUME ~misled'
        PROVE  Fits(r)
    <3>1. Held \in Int
      BY HeldSummands DEF RiskInv
    <3>2. r.volume \in Int
      BY RequestIs
    <3> SUFFICES ASSUME r.direction = "LONG", r.type = "LIMIT"
                 PROVE  Held + r.volume <= MaxUnits
      BY DEF Fits
    <3>3. Value(answered.position, r) = Held /\ Value(r.volume, r) = r.volume
      BY <2>3, <2>5 DEF Value
    <3>4. Held + r.volume <= answered.balance
      BY <1>4, <2>3, <2>5, <3>3 DEF Check, MaxPositionRule
    <3>5. answered.balance \in 0 .. MaxUnits /\ MaxUnits \in Nat
      BY RiskedAssumption DEF RiskInv, AnswersHold, AnswerType
    <3> QED
      BY <3>1, <3>2, <3>4, <3>5
  <2>6. RoomKept'
    <3> SUFFICES ASSUME kind' = "crypto", ~misled', LimitsOnly'
                 PROVE  (Held <= MaxUnits)' /\ Fits(approved)' /\ Alive' = {}
      BY DEF RoomKept
    <3>1. kind = "crypto" /\ ~misled /\ LimitsOnly /\ Alive' = {}
      BY <1>1, <2>2, <2>3 DEF NothingMoves
    <3>2. (Held <= MaxUnits)'
      BY <2>2, <3>1 DEF RiskInv, RoomKept
    <3>3. Fits(approved)'
      BY <1>4, <2>2, <2>5 DEF Fits
    <3> QED
      BY <3>1, <3>2, <3>3
  <2> QED
    BY <1>2, <2>1, <2>4, <2>6
<1> QED
  BY <1>1, <1>3, <1>4

(* The only order alive comes to its end: there was room for it. *)
LEMMA EndsStep ==
    ASSUME RiskInv, NEW i \in DOMAIN exchange, Ends(i)
    PROVE  RequestsTyped' /\ OneAtATime' /\ AnswersHold' /\ RoomKept'
<1>1. TypeOK /\ RequestsTyped
  BY DEF RiskInv
<1>2. Alive' = Alive \ {i} /\ (Held' = Held \/ Held' = Held + SignedVolume(sent[i]))
  BY <1>1, EndsHeld
<1>3. UNCHANGED <<kind, sent, approved, misled>> /\ i \in Alive
  BY DEF Ends, Alive
<1>4. Len(exchange') = Len(exchange)
  BY <1>1 DEF Ends, TypeOK
<1>5. RequestsTyped'
  BY <1>1, <1>3, <1>4 DEF RequestsTyped
<1>6. OneAtATime'
  BY <1>2, <1>3 DEF OneAtATime, RiskInv
<1>7. RoomKept'
  <2> SUFFICES ASSUME kind = "crypto", ~misled, LimitsOnly
               PROVE  /\ (Held <= MaxUnits)'
                      /\ approved' = NoRequest
                      /\ Alive' = {}
    BY <1>3 DEF RoomKept, LimitsOnly
  <2>1. Held <= MaxUnits /\ Fits(sent[i])
    BY <1>3 DEF RiskInv, RoomKept
  <2>2. approved = NoRequest /\ Alive' = {}
    BY <1>2, <1>3 DEF RiskInv, OneAtATime
  <2>3. Held \in Int /\ DOMAIN sent = DOMAIN exchange /\ sent[i] \in Requests
    BY <1>1, HeldSummands DEF RequestsTyped
  <2>4. PICK v \in Int : v = sent[i].volume
    BY <2>3, RequestIs
  <2>5. /\ v > 0 /\ sent[i].type = "LIMIT"
        /\ SignedVolume(sent[i]) = IF sent[i].direction = "LONG" THEN v ELSE -v
    BY <2>3, <2>4, RequestIs DEF LimitsOnly
  <2>6. MaxUnits \in Int
    BY RiskedAssumption
  <2>7. CASE Held' = Held
    BY <1>3, <2>1, <2>2, <2>7
  <2>8. CASE Held' = Held + SignedVolume(sent[i])
    <3>1. CASE sent[i].direction = "LONG"
      BY <1>3, <2>1, <2>2, <2>3, <2>4, <2>5, <2>8, <3>1 DEF Fits
    <3>2. CASE sent[i].direction # "LONG"
      <4>1. Held' = Held + (-v)
        BY <2>5, <2>8, <3>2
      <4>2. Held' <= MaxUnits
        BY <2>1, <2>3, <2>5, <2>6, <4>1
      <4> QED
        BY <1>3, <2>2, <4>2
    <3> QED
      BY <3>1, <3>2
  <2> QED
    BY <1>2, <2>7, <2>8
<1>8. AnswersHold'
  <2>1. queried' = queried /\ answered' = answered
    BY DEF Ends, KeepsAnswers
  <2>2. ~(queried = "position" /\ answered.current)
    BY <1>3 DEF RiskInv, AnswersHold
  <2> QED
    BY <1>3, <2>1, <2>2 DEF RiskInv, AnswersHold
<1> QED
  BY <1>5, <1>6, <1>7, <1>8

(* The order that was approved enters, with nothing else alive. *)
LEMMA EntersStep ==
    ASSUME RiskInv, Enters
    PROVE  RequestsTyped' /\ OneAtATime' /\ AnswersHold' /\ RoomKept'
<1>1. TypeOK /\ RequestsTyped
  BY DEF RiskInv
<1>2. /\ Alive' = Alive \cup {Taken}
      /\ Held' = Held
      /\ sent' \in Seq(Requests) /\ Len(sent') = Len(exchange')
      /\ DOMAIN sent' = DOMAIN sent \cup {Taken}
      /\ sent'[Taken] = approved
      /\ \A i \in DOMAIN sent : sent'[i] = sent[i]
  BY <1>1, EntersHeld
<1>3. approved # NoRequest /\ approved' = NoRequest /\ misled' = misled /\ kind' = kind
  BY DEF Enters, Clears
<1>4. RequestsTyped'
  BY <1>2, <1>3 DEF RequestsTyped
<1>5. OneAtATime'
  BY <1>2, <1>3 DEF OneAtATime, RiskInv
<1>6. RoomKept'
  <2> SUFFICES ASSUME kind = "crypto", ~misled, LimitsOnly'
               PROVE  (Held <= MaxUnits)' /\ \A i \in Alive' : Fits(sent[i])'
    BY <1>3 DEF RoomKept
  <2>1. LimitsOnly
    BY <1>2 DEF LimitsOnly
  <2>2. Held <= MaxUnits /\ Fits(approved) /\ Alive = {}
    BY <1>3, <2>1 DEF RiskInv, RoomKept, OneAtATime
  <2>3. ASSUME NEW i \in Alive'
        PROVE  Fits(sent[i])'
    <3>1. sent'[i] = approved
      BY <1>2, <2>2, <2>3
    <3> QED
      BY <1>2, <2>2, <3>1 DEF Fits
  <2> QED
    BY <1>2, <2>2, <2>3
<1>7. AnswersHold'
  <2>1. queried' = queried /\ answered' = answered /\ queried = "nothing"
    BY <1>3 DEF Enters, Clears, KeepsAnswers, RiskInv, AnswersHold
  <2> QED
    BY <1>3, <2>1 DEF RiskInv, AnswersHold
<1> QED
  BY <1>4, <1>5, <1>6, <1>7

LEMMA StepRisk == RiskInv /\ TypeOK' /\ [RiskedNext]_allVars => RiskInv'
<1> SUFFICES ASSUME RiskInv, TypeOK', [RiskedNext]_allVars
             PROVE  RequestsTyped' /\ OneAtATime' /\ AnswersHold' /\ RoomKept'
  BY DEF RiskInv
<1>1. CASE NothingMoves /\ (Clears \/ (KeepsOrder /\ KeepsAnswers))
  <2>1. misled' = misled /\ (approved' = approved \/ approved' = NoRequest)
    BY <1>1 DEF Clears, KeepsOrder
  <2>2. RequestsTyped' /\ OneAtATime' /\ RoomKept'
    BY <1>1, <2>1, OrderKeptStep
  <2>3. Held' = Held /\ Alive' = Alive
    BY <1>1, NothingMovesKeeps
  <2>4. queried' = queried /\ answered' = answered /\ kind' = kind
    BY <1>1 DEF Clears, KeepsAnswers, NothingMoves
  <2>5. AnswersHold'
    BY <2>1, <2>3, <2>4 DEF RiskInv, AnswersHold
  <2> QED
    BY <2>2, <2>5
<1>2. CASE \E r \in Requests : CheckOrder(r)
  BY <1>2, CheckStep
<1>3. CASE \E i \in DOMAIN exchange : Ends(i)
  BY <1>3, EndsStep
<1>4. CASE Enters
  BY <1>4, EntersStep
<1>5. TypeOK
  BY DEF RiskInv
<1>6. CASE QueryAccount \/ QueryPosition
  BY <1>6, QueryAccountStep, QueryPositionStep
<1> QED
  BY <1>1, <1>2, <1>3, <1>4, <1>5, <1>6, RiskedMoves

LEMMA RiskInvariant == RiskedSpec => []RiskInv
<1>1. GatewayInv => TypeOK
  BY DEF GatewayInv
<1>2. RiskedSpec => []TypeOK
  BY <1>1, GatewayInvariant, RiskedIsGateways, PTL
<1> QED
  BY <1>2, InitRisk, StepRisk, PTL DEF RiskedSpec

(* The position limit of the Python risk rules holds at the exchange of the crypto
   gateway for who sends limit orders one at a time and sends none that was approved
   on an account without a balance or on a position the gateway did not ask the
   exchange for: for any requests, any balances and any number of orders, whatever
   the exchange and the connection do between the queries, the check, the order
   and its fill, and whichever answers are lost.                                *)
THEOREM ExchangeCapHoldsOneByOne == RiskedSpec => []CapHoldsOneByOne
<1>1. RiskInv => CapHoldsOneByOne
  BY DEF RiskInv, RoomKept, LimitsOnly, CapHoldsOneByOne
<1> QED
  BY <1>1, RiskInvariant, PTL

(* Behind the risk rules the orders are numbered as they reach the exchange, and
   what is approved is an order or nothing.                                     *)
THEOREM RiskedTypeCorrect == RiskedSpec => []RiskedTypeOK
<1> DEFINE Flags == /\ blacklisted \in BOOLEAN /\ misled \in BOOLEAN
                    /\ queried \in {"nothing", "account", "position"}
                    /\ answered \in AnswerType
<1>1. RiskedInit => Flags
  BY NoAnswersIs DEF RiskedInit
<1>2. RiskInv' /\ Flags /\ [RiskedNext]_allVars => Flags'
  <2> SUFFICES ASSUME RiskInv', Flags, [RiskedNext]_allVars
               PROVE  Flags'
    OBVIOUS
  <2>0. answered' \in AnswerType
    BY DEF RiskInv, AnswersHold
  <2>1. CASE QueryAccount
    BY <2>0, <2>1 DEF QueryAccount
  <2>2. CASE QueryPosition
    BY <2>0, <2>2 DEF QueryPosition
  <2>3. CASE \E r \in Requests : CheckOrder(r)
    <3>1. PICK r \in Requests : CheckOrder(r)
      BY <2>3
    <3>2. answered' = NoAnswers /\ queried' = "nothing" /\ blacklisted' = blacklisted
      BY <3>1 DEF CheckOrder
    <3>3. misled' = misled \/ misled' = (misled \/ ~answered.current)
      BY <3>1 DEF CheckOrder
    <3> QED
      BY <3>2, <3>3, NoAnswersIs
  <2>4. CASE SetBlacklist \/ SendApproved \/ SendRaises
    BY <2>4 DEF SetBlacklist, SendApproved, SendRaises
  <2>5. CASE UNCHANGED riskVars
    BY <2>5 DEF riskVars
  <2> QED
    BY <2>1, <2>2, <2>3, <2>4, <2>5 DEF RiskedNext, allVars
<1>3. RiskInv /\ Flags => RiskedTypeOK
  BY DEF RiskInv, RequestsTyped, RiskedTypeOK, AnswerType
<1> QED
  BY <1>1, <1>2, <1>3, RiskInvariant, PTL DEF RiskedSpec
===============================================================================
