-------------------------- MODULE PaperGatewayProofs --------------------------
(***************************************************************************)
(* Theorems about PaperGateway for every set of symbols, bars and orders,  *)
(* any number of orders and any behaviour of the callbacks.                *)
(***************************************************************************)
EXTENDS PaperGateway, SumTheorems, TLAPS

LEMMA QuotientInt ==
    ASSUME NEW a \in Int, NEW b \in Int, b > 0
    PROVE  a \div b \in Int
OBVIOUS

(* A fill has an integer price and an integer commission. *)
LEMMA FillPriceInt ==
    ASSUME NEW o, NEW b \in Bars
    PROVE  FillPrice(o, b) \in Int
<1>1. b.open \in Int
  BY GatewayAssumption DEF GatewayBar
<1>2. b.open * (IF o.direction = "LONG" THEN 100 + SlippagePct ELSE 100 - SlippagePct) \in Int
  BY <1>1, GatewayAssumption
<1> QED
  BY <1>2, QuotientInt DEF FillPrice

LEMMA CommissionInt ==
    ASSUME NEW p \in Int, NEW v \in Int
    PROVE  CommissionOn(p, v) \in Int
<1>1. p * v * CommissionPct \in Int
  BY GatewayAssumption
<1> QED
  BY <1>1, QuotientInt DEF CommissionOn

(* _apply_fill yields a position again: the average is never divided by zero. *)
LEMMA PositionAfterType ==
    ASSUME NEW pos \in [net : Int, avg : Int], NEW o \in OrderData, NEW p \in Int
    PROVE  /\ PositionAfter(pos, o, p) \in [net : Int, avg : Int]
           /\ PositionAfter(pos, o, p).net = pos.net + Signed(o)
<1> DEFINE net == pos.net + Signed(o)
           cost == pos.avg * pos.net + p * o.volume
<1>1. net \in Int
  BY DEF Signed, OrderData
<1>2. cost \in Int /\ -cost \in Int
  BY DEF OrderData
<1>3. net > 0 => cost \div net \in Int
  <2> HIDE DEF net, cost
  <2> QED
    BY <1>1, <1>2, QuotientInt
<1>4. net < 0 => (-cost) \div (-net) \in Int
  <2> HIDE DEF net, cost
  <2> QED
    BY <1>1, <1>2, QuotientInt
<1> DEFINE avg == CASE net > 0 -> cost \div net
                    [] net < 0 -> (-cost) \div (-net)
                    [] OTHER   -> 0
<1>5. avg \in Int
  <2> HIDE DEF net, cost
  <2> QED
    BY <1>1, <1>3, <1>4
<1>6. CASE o.direction = "LONG"
  <2>1. PositionAfter(pos, o, p) = [net |-> net, avg |-> avg]
    BY <1>6 DEF PositionAfter
  <2> HIDE DEF net, avg
  <2>2. [net |-> net, avg |-> avg] \in [net : Int, avg : Int]
    BY <1>1, <1>5
  <2>3. [net |-> net, avg |-> avg].net = net
    OBVIOUS
  <2> QED
    BY <2>1, <2>2, <2>3 DEF net
<1>7. CASE o.direction # "LONG"
  BY <1>1, <1>7 DEF PositionAfter
<1> QED
  BY <1>6, <1>7

(* A transition of the OMS keeps the book a book, and touches one order. *)
MovedIfAllowed(o, new, v) ==
    IF new \in Transitions[o.status] THEN Moved(o, new, v) ELSE o

LEMMA MovedType ==
    ASSUME NEW o \in OrderData, NEW new \in GatewayStatuses, NEW v \in Int
    PROVE  MovedIfAllowed(o, new, v) \in OrderData
<1>1. o.filled + v \in Int
  BY DEF OrderData
<1>2. [o EXCEPT !.status = new] \in OrderData /\ [o EXCEPT !.status = new].filled = o.filled
  BY DEF OrderData
<1> DEFINE p == [o EXCEPT !.status = new]
<1>3. [p EXCEPT !.filled = o.filled + v] \in OrderData
  <2> HIDE DEF p
  <2>1. p \in OrderData
    BY <1>2 DEF p
  <2> QED
    BY <1>1, <2>1 DEF OrderData
<1>4. [p EXCEPT !.filled = o.filled + v] = [o EXCEPT !.status = new, !.filled = @ + v]
  BY <1>2
<1> QED
  BY <1>3, <1>4 DEF Moved, MovedIfAllowed

LEMMA MoveIsMoved ==
    ASSUME NEW bk \in Seq(OrderData), NEW i \in DOMAIN bk, NEW new \in GatewayStatuses, NEW v \in Int
    PROVE  Move(bk, i, new, v) = [bk EXCEPT ![i] = MovedIfAllowed(bk[i], new, v)]
<1>1. CASE new \in Transitions[bk[i].status]
  BY <1>1 DEF Move, MayMove, MovedIfAllowed
<1>2. CASE new \notin Transitions[bk[i].status]
  <2>1. bk = [bk EXCEPT ![i] = bk[i]]
    OBVIOUS
  <2> QED
    BY <1>2, <2>1 DEF Move, MayMove, MovedIfAllowed
<1> QED
  BY <1>1, <1>2

LEMMA MoveType ==
    ASSUME NEW bk \in Seq(OrderData), NEW i \in DOMAIN bk, NEW new \in GatewayStatuses, NEW v \in Int
    PROVE  /\ Move(bk, i, new, v) \in Seq(OrderData)
           /\ Len(Move(bk, i, new, v)) = Len(bk)
           /\ DOMAIN Move(bk, i, new, v) = DOMAIN bk
           /\ Move(bk, i, new, v)[i] = MovedIfAllowed(bk[i], new, v)
           /\ \A j \in DOMAIN bk : j # i => Move(bk, i, new, v)[j] = bk[j]
<1>1. bk[i] \in OrderData
  OBVIOUS
<1>2. MovedIfAllowed(bk[i], new, v) \in OrderData
  BY <1>1, MovedType
<1> QED
  BY <1>2, MoveIsMoved

-----------------------------------------------------------------------------
(* Type correctness. *)
LEMMA InitTypeOK == Init => TypeOK
<1> SUFFICES ASSUME Init
             PROVE  TypeOK
  OBVIOUS
<1>1. book \in Seq(OrderData) /\ reported \in Seq(GatewayStatuses) /\ tradedVol \in Seq(Nat)
  BY DEF Init
<1>2. Len(reported) = Len(book) /\ Len(tradedVol) = Len(book) /\ snapshot \subseteq DOMAIN book
  BY DEF Init
<1>3. cash \in Int /\ positions \in [Symbols -> [net : Int, avg : Int]]
  BY GatewayAssumption DEF Init
<1>4. latestPrice \in [Symbols -> Nat \cup {NoPrice}]
  BY DEF Init
<1>5. /\ pc = "user" /\ bar = NoBar /\ prevClose = 0 /\ snapshot = {} /\ next = 1
      /\ raised = FALSE
  BY DEF Init
<1>6. /\ pc \in Callbacks \cup {"user", "match"}
      /\ pc \in {"cancelled", "filled", "traded"} => next \in snapshot
  BY <1>5
<1>7. prevClose \in Nat /\ next \in Nat \ {0}
  BY <1>5
<1>8. raised \in BOOLEAN
  BY <1>5
<1>9. arrived \in 0 .. Len(book) /\ withdrawn \subseteq DOMAIN book /\ withdrawn = {}
  BY DEF Init
<1> QED
  BY <1>1, <1>2, <1>3, <1>4, <1>5, <1>6, <1>7, <1>8, <1>9 DEF TypeOK

(* What a number of an order stands for. *)
LEMMA BookTypes ==
    ASSUME TypeOK, NEW i \in DOMAIN book
    PROVE  /\ book[i] \in OrderData
           /\ book[i].symbol \in Symbols /\ book[i].volume \in Nat \ {0}
           /\ book[i].direction \in {"LONG", "SHORT"} /\ book[i].status \in GatewayStatuses
           /\ reported[i] \in GatewayStatuses /\ tradedVol[i] \in Nat
<1>1. /\ book \in Seq(OrderData) /\ reported \in Seq(GatewayStatuses) /\ tradedVol \in Seq(Nat)
      /\ Len(reported) = Len(book) /\ Len(tradedVol) = Len(book)
  BY DEF TypeOK
<1>2. book[i] \in OrderData /\ reported[i] \in GatewayStatuses /\ tradedVol[i] \in Nat
  BY <1>1
<1> QED
  BY <1>2 DEF OrderData

(* A transition of the loop on the current order, reported at once. *)
LEMMA MovedTypeOK ==
    ASSUME TypeOK, NEW i \in DOMAIN book, NEW new \in GatewayStatuses, NEW v \in Int,
           book' = Move(book, i, new, v),
           reported' = [reported EXCEPT ![i] = book'[i].status]
    PROVE  /\ book' \in Seq(OrderData)
           /\ DOMAIN book' = DOMAIN book
           /\ reported' \in Seq(GatewayStatuses)
           /\ Len(reported') = Len(book')
           /\ Len(book') = Len(book)
<1>1. book \in Seq(OrderData) /\ reported \in Seq(GatewayStatuses) /\ Len(reported) = Len(book)
  BY DEF TypeOK
<1> DEFINE moved == Move(book, i, new, v)
<1>a. moved \in Seq(OrderData) /\ Len(moved) = Len(book) /\ DOMAIN moved = DOMAIN book
  BY <1>1, MoveType
<1>2. /\ book' \in Seq(OrderData) /\ Len(book') = Len(book) /\ DOMAIN book' = DOMAIN book
  BY <1>a
<1>3. book'[i] \in OrderData
  BY <1>2
<1>4. book'[i].status \in GatewayStatuses
  BY <1>3 DEF OrderData
<1> QED
  BY <1>1, <1>2, <1>4

LEMMA NextTypeOK == TypeOK /\ [Next]_vars => TypeOK'
<1> SUFFICES ASSUME TypeOK, [Next]_vars
             PROVE  TypeOK'
  OBVIOUS
<1> USE DEF loopVars, moneyVars, historyVars, Callbacks
<1>1. ASSUME NEW s \in Symbols, Subscribe(s)
      PROVE  TypeOK'
  BY <1>1 DEF Subscribe, TypeOK
<1>2. ASSUME NEW r \in Requests, SendOrder(r)
      PROVE  TypeOK'
  <2> DEFINE o == [symbol |-> r.symbol, direction |-> r.direction, type |-> r.type,
                   price |-> r.price, volume |-> r.volume, filled |-> 0, status |-> "ACCEPTED"]
  <2>1. o \in OrderData
    BY GatewayAssumption DEF GatewayRequest, OrderData, GatewayStatuses
  <2>2. /\ book' = Append(book, o) /\ book \in Seq(OrderData)
        /\ reported' = Append(reported, "ACCEPTED") /\ reported \in Seq(GatewayStatuses)
        /\ tradedVol' = Append(tradedVol, 0) /\ tradedVol \in Seq(Nat)
        /\ Len(reported) = Len(book) /\ Len(tradedVol) = Len(book)
    BY <1>2 DEF SendOrder, TypeOK
  <2> HIDE DEF o
  <2>3. /\ book' \in Seq(OrderData) /\ Len(book') = Len(book) + 1
        /\ reported' \in Seq(GatewayStatuses) /\ Len(reported') = Len(book')
        /\ tradedVol' \in Seq(Nat) /\ Len(tradedVol') = Len(book')
    BY <2>1, <2>2 DEF GatewayStatuses
  <2>4. DOMAIN book \subseteq DOMAIN book' /\ 0 .. Len(book) \subseteq 0 .. Len(book')
    BY <2>2, <2>3
  <2> QED
    BY <1>2, <2>3, <2>4 DEF SendOrder, TypeOK
<1>3. ASSUME NEW i \in DOMAIN book, CancelOrder(i)
      PROVE  TypeOK'
  <2>1. "CANCELLED" \in GatewayStatuses /\ 0 \in Int
    BY DEF GatewayStatuses
  <2>2. book'[i].status = "CANCELLED"
    <3>1. /\ book \in Seq(OrderData) /\ book' = Move(book, i, "CANCELLED", 0)
          /\ "CANCELLED" \in Transitions[book[i].status]
      BY <1>3 DEF CancelOrder, MayMove, TypeOK
    <3>2. book'[i] = MovedIfAllowed(book[i], "CANCELLED", 0)
      BY <2>1, <3>1, MoveType
    <3> QED
      BY <3>1, <3>2, BookTypes DEF MovedIfAllowed, Moved, OrderData
  <2>3. book' = Move(book, i, "CANCELLED", 0) /\ reported' = [reported EXCEPT ![i] = book'[i].status]
    BY <1>3, <2>2 DEF CancelOrder
  <2>4. withdrawn' \subseteq DOMAIN book /\ (pc' = "user" => withdrawn' = {})
    BY <1>3 DEF CancelOrder, TypeOK
  <2> QED
    BY <1>3, <2>1, <2>3, <2>4, MovedTypeOK DEF CancelOrder, TypeOK
<1>4. ASSUME NEW b \in Bars, ProcessBar(b)
      PROVE  TypeOK'
  <2>1. b \in GatewayBar
    BY GatewayAssumption
  <2>2. prevClose' \in Nat /\ latestPrice' \in [Symbols -> Nat \cup {NoPrice}]
    BY <1>4, <2>1 DEF ProcessBar, TypeOK, GatewayBar
  <2>3. snapshot' \subseteq DOMAIN book /\ arrived' \in 0 .. Len(book)
    BY <1>4 DEF ProcessBar, OpenOrders, TypeOK
  <2> QED
    BY <1>4, <2>2, <2>3 DEF ProcessBar, TypeOK
<1>5. CASE SkipOrder
  BY <1>5 DEF SkipOrder, TypeOK
<1>6. CASE LimitCancel
  <2>1. next \in DOMAIN book /\ "CANCELLED" \in GatewayStatuses /\ 0 \in Int
    BY <1>6 DEF LimitCancel, Matching, TypeOK, GatewayStatuses
  <2>2. /\ book' = Move(book, next, "CANCELLED", 0)
        /\ reported' = [reported EXCEPT ![next] = book'[next].status]
    BY <1>6 DEF LimitCancel
  <2> QED
    BY <1>6, <2>1, <2>2, MovedTypeOK DEF LimitCancel, Matching, TypeOK
<1>7. CASE FillOrder
  <2> DEFINE p == FillPrice(Current, bar)
  <2>a. next \in DOMAIN book /\ bar \in Bars /\ "FILLED" \in GatewayStatuses
    BY <1>7 DEF FillOrder, Matching, TypeOK, GatewayStatuses
  <2>1. /\ next \in DOMAIN book /\ "FILLED" \in GatewayStatuses
        /\ Current \in OrderData /\ bar \in Bars /\ bar.symbol \in Symbols
    BY <1>7, <2>a, BookTypes DEF FillOrder, Current
  <2>2. /\ book' = Move(book, next, "FILLED", Current.volume)
        /\ reported' = [reported EXCEPT ![next] = book'[next].status]
        /\ Current.volume \in Int
    BY <1>7, <2>1 DEF FillOrder, OrderData
  <2>3. p \in Int
    BY <2>1, FillPriceInt
  <2>4. cash' \in Int
    <3>1. CommissionOn(p, Current.volume) \in Int /\ p * Current.volume \in Int /\ cash \in Int
      <4>1. cash \in Int
        BY DEF TypeOK
      <4> DEFINE v == Current.volume
      <4>2. v \in Int
        BY <2>2
      <4> HIDE DEF p, v
      <4>3. CommissionOn(p, v) \in Int /\ p * v \in Int
        BY <2>3, <4>2, CommissionInt
      <4> QED
        BY <4>1, <4>3 DEF v
    <3>2. cash' = CashAfter(Current, p)
      BY <1>7 DEF FillOrder
    <3> HIDE DEF p
    <3> QED
      BY <3>1, <3>2 DEF CashAfter
  <2>5. positions' \in [Symbols -> [net : Int, avg : Int]]
    <3>1. positions[bar.symbol] \in [net : Int, avg : Int]
      BY <2>1 DEF TypeOK
    <3>2. PositionAfter(positions[bar.symbol], Current, p) \in [net : Int, avg : Int]
      BY <2>1, <2>3, <3>1, PositionAfterType
    <3> QED
      BY <1>7, <3>2 DEF FillOrder, TypeOK
  <2>6. /\ book' \in Seq(OrderData) /\ DOMAIN book' = DOMAIN book
        /\ reported' \in Seq(GatewayStatuses)
        /\ Len(reported') = Len(book') /\ Len(book') = Len(book)
    <3> DEFINE v == Current.volume
    <3>1. v \in Int /\ book' = Move(book, next, "FILLED", v)
      BY <2>2
    <3> HIDE DEF v
    <3> QED
      BY <2>1, <2>2, <3>1, MovedTypeOK
  <2> QED
    BY <1>7, <2>1, <2>4, <2>5, <2>6 DEF FillOrder, Matching, TypeOK
<1>8. CASE ReportTrade
  <2>1. next \in DOMAIN book
    BY <1>8 DEF ReportTrade, TypeOK
  <2>2. tradedVol[next] \in Nat /\ Current.volume \in Nat
    BY <2>1, BookTypes DEF Current
  <2>3. tradedVol' \in Seq(Nat) /\ Len(tradedVol') = Len(tradedVol)
    BY <1>8, <2>2 DEF ReportTrade, TypeOK
  <2> QED
    BY <1>8, <2>3 DEF ReportTrade, TypeOK
<1>9. CASE NextOrder
  BY <1>9 DEF NextOrder, TypeOK
<1>10. CASE ReportBar
  BY <1>10 DEF ReportBar, TypeOK
<1>11. CASE Return
  BY <1>11 DEF Return, TypeOK
<1>12. CASE CallbackRaises
  BY <1>12 DEF CallbackRaises, TypeOK
<1>13. CASE UNCHANGED vars
  BY <1>13 DEF vars, TypeOK
<1> QED
  BY <1>1, <1>2, <1>3, <1>4, <1>5, <1>6, <1>7, <1>8, <1>9, <1>10, <1>11, <1>12, <1>13
     DEF Next, UserStep, LoopStep

(* Type correctness of the gateway: whatever user code does in the middle of a
   bar, the loop only looks at orders of the book, and nothing of a bar is
   left over when process_bar was left.                                     *)
THEOREM GatewayTypeCorrect == Spec => []TypeOK
BY InitTypeOK, NextTypeOK, PTL DEF Spec
-----------------------------------------------------------------------------
(* What holds of every order of the book, and of the orders of the snapshot
   before and after the loop reached them.                                  *)
FromRequest(o) ==
    \E r \in Requests : /\ o.symbol = r.symbol /\ o.direction = r.direction
                        /\ o.type = r.type /\ o.price = r.price /\ o.volume = r.volume

OrderInv(i) ==
    /\ reported[i] = book[i].status
    /\ book[i].status \in {"ACCEPTED", "FILLED", "CANCELLED"}
    /\ FromRequest(book[i])
    /\ tradedVol[i] \in {0, book[i].volume}
    /\ book[i].status = "ACCEPTED" => tradedVol[i] = 0
    /\ i \in withdrawn => book[i].status = "CANCELLED"

Reached(i) == i < next \/ (i = next /\ pc # "match")

(* The order was taken for filled and its trade is still to be reported. *)
BeingFilled(i) == pc = "filled" /\ i = next

SnapshotInv(i) ==
    /\ i <= arrived
    /\ ~Reached(i) => Untouched(i)
    /\ ~Reached(i) /\ ~CallbacksMayCancel => book[i].status = "ACCEPTED"
    /\ BeingFilled(i) => /\ tradedVol[i] = 0 /\ book[i].symbol = bar.symbol
                         /\ ~AtLimit(book[i]) /\ Tradable(book[i])
                         /\ i \in withdrawn \/ book[i].status = "FILLED"
    /\ Reached(i) /\ ~BeingFilled(i) =>
          IF book[i].symbol = bar.symbol THEN Settled(i) ELSE Untouched(i)
    /\ pc = "bar" => i < next

OrdersInv == \A i \in DOMAIN book : OrderInv(i)
LoopInv == \A i \in snapshot : SnapshotInv(i)

(* Orders sent since the bar arrived. *)
LateInv == pc # "user" => \A i \in DOMAIN book : i > arrived => Untouched(i)

(* A transition changes nothing of an order but its status and filled volume. *)
LEMMA MovedFields ==
    ASSUME NEW o \in OrderData, NEW new, NEW v, NEW p, p = MovedIfAllowed(o, new, v)
    PROVE  /\ p.symbol = o.symbol /\ p.direction = o.direction /\ p.type = o.type
           /\ p.price = o.price /\ p.volume = o.volume
           /\ p.status = IF new \in Transitions[o.status] THEN new ELSE o.status
BY DEF MovedIfAllowed, Moved, OrderData

LEMMA MovedBook ==
    ASSUME TypeOK, NEW i \in DOMAIN book, NEW new \in GatewayStatuses, NEW v \in Int,
           book' = Move(book, i, new, v),
           reported' = [reported EXCEPT ![i] = book'[i].status]
    PROVE  /\ DOMAIN book' = DOMAIN book
           /\ book'[i] = MovedIfAllowed(book[i], new, v)
           /\ reported'[i] = book'[i].status
           /\ \A j \in DOMAIN book : j # i => book'[j] = book[j] /\ reported'[j] = reported[j]
<1>1. book \in Seq(OrderData) /\ reported \in Seq(GatewayStatuses) /\ Len(reported) = Len(book)
  BY DEF TypeOK
<1>2. DOMAIN reported = DOMAIN book
  BY <1>1
<1> DEFINE m == Move(book, i, new, v)
<1>3. /\ DOMAIN m = DOMAIN book
      /\ m[i] = MovedIfAllowed(book[i], new, v)
      /\ \A j \in DOMAIN book : j # i => m[j] = book[j]
  BY <1>1, MoveType
<1>4. book' = m
  OBVIOUS
<1> HIDE DEF m
<1> QED
  BY <1>1, <1>2, <1>3, <1>4

(* A cancelled order is always reported as such: the transition was allowed. *)
LEMMA CancelIsMove ==
    ASSUME TypeOK, NEW i \in DOMAIN book, CancelOrder(i)
    PROVE  /\ book' = Move(book, i, "CANCELLED", 0)
           /\ reported' = [reported EXCEPT ![i] = book'[i].status]
<1>1. PICK v \in Int : v = 0
  OBVIOUS
<1>2. /\ book' = Move(book, i, "CANCELLED", v) /\ "CANCELLED" \in Transitions[book[i].status]
      /\ reported' = [reported EXCEPT ![i] = "CANCELLED"]
      /\ book \in Seq(OrderData) /\ "CANCELLED" \in GatewayStatuses
  BY <1>1 DEF CancelOrder, MayMove, TypeOK, GatewayStatuses
<1>3. book'[i] = MovedIfAllowed(book[i], "CANCELLED", v)
  BY <1>2, MoveType
<1>4. book'[i].status = "CANCELLED"
  BY <1>2, <1>3, BookTypes, MovedFields
<1> QED
  BY <1>1, <1>2, <1>4

(* What is true of an order stays true when nothing about it changes. *)
LEMMA OrderInvStable ==
    ASSUME NEW i, OrderInv(i),
           book'[i] = book[i], reported'[i] = reported[i], tradedVol'[i] = tradedVol[i],
           i \in withdrawn' => i \in withdrawn
    PROVE  OrderInv(i)'
BY DEF OrderInv, FromRequest

LEMMA InitOrders == Init => OrdersInv /\ LoopInv /\ LateInv
BY DEF Init, OrdersInv, LoopInv, LateInv

LEMMA MoveOrders ==
    ASSUME TypeOK, OrdersInv,
           NEW i \in DOMAIN book, NEW new \in {"FILLED", "CANCELLED"}, NEW v \in Int,
           book' = Move(book, i, new, v),
           reported' = [reported EXCEPT ![i] = book'[i].status],
           UNCHANGED tradedVol,
           withdrawn' = withdrawn \/ (new = "CANCELLED" /\ withdrawn' \subseteq withdrawn \cup {i}
                                      /\ "CANCELLED" \in Transitions[book[i].status])
    PROVE  OrdersInv'
<1>1. new \in GatewayStatuses
  BY DEF GatewayStatuses
<1>2. /\ DOMAIN book' = DOMAIN book
      /\ book'[i] = MovedIfAllowed(book[i], new, v)
      /\ reported'[i] = book'[i].status
      /\ \A j \in DOMAIN book : j # i => book'[j] = book[j] /\ reported'[j] = reported[j]
  BY <1>1, MovedBook
<1>3. OrderInv(i)'
  <2>1. book[i] \in OrderData
    BY BookTypes
  <2>2. /\ book'[i].symbol = book[i].symbol /\ book'[i].direction = book[i].direction
        /\ book'[i].type = book[i].type /\ book'[i].price = book[i].price
        /\ book'[i].volume = book[i].volume
        /\ book'[i].status = IF new \in Transitions[book[i].status] THEN new ELSE book[i].status
    BY <1>2, <2>1, MovedFields
  <2>3. OrderInv(i)
    BY DEF OrdersInv
  <2>4. i \in withdrawn' => book'[i].status = "CANCELLED"
    BY <2>2, <2>3 DEF OrderInv, Transitions, GatewayStatuses
  <2> QED
    BY <1>2, <2>2, <2>3, <2>4 DEF OrderInv, FromRequest
<1>4. ASSUME NEW j \in DOMAIN book, j # i
      PROVE  OrderInv(j)'
  BY <1>2, <1>4, OrderInvStable DEF OrdersInv
<1> QED
  BY <1>2, <1>3, <1>4 DEF OrdersInv

LEMMA StepOrders == TypeOK /\ OrdersInv /\ LoopInv /\ [Next]_vars => OrdersInv'
<1> SUFFICES ASSUME TypeOK, OrdersInv, LoopInv, [Next]_vars
             PROVE  OrdersInv'
  OBVIOUS
<1>1. ASSUME NEW r \in Requests, SendOrder(r)
      PROVE  OrdersInv'
  <2> DEFINE n == Len(book) + 1
             o == [symbol |-> r.symbol, direction |-> r.direction, type |-> r.type,
                   price |-> r.price, volume |-> r.volume, filled |-> 0, status |-> "ACCEPTED"]
  <2>1. /\ book \in Seq(OrderData) /\ reported \in Seq(GatewayStatuses) /\ tradedVol \in Seq(Nat)
        /\ Len(reported) = Len(book) /\ Len(tradedVol) = Len(book)
    BY DEF TypeOK
  <2>2. /\ book' = Append(book, o) /\ reported' = Append(reported, "ACCEPTED")
        /\ tradedVol' = Append(tradedVol, 0)
    BY <1>1 DEF SendOrder
  <2>3. /\ DOMAIN book' = DOMAIN book \cup {n}
        /\ \A j \in DOMAIN book : /\ book'[j] = book[j] /\ reported'[j] = reported[j]
                                  /\ tradedVol'[j] = tradedVol[j]
        /\ book'[n] = o /\ reported'[n] = "ACCEPTED" /\ tradedVol'[n] = 0
        /\ n \notin DOMAIN book
    <3> HIDE DEF o
    <3> QED
      BY <2>1, <2>2
  <2>a. withdrawn' = withdrawn /\ withdrawn \subseteq DOMAIN book
    BY <1>1 DEF SendOrder, TypeOK, historyVars
  <2>4. ASSUME NEW j, j = n
        PROVE  OrderInv(j)'
    <3>1. book'[j] = o /\ reported'[j] = "ACCEPTED" /\ tradedVol'[j] = 0 /\ j \notin withdrawn'
      BY <2>3, <2>4, <2>a
    <3> QED
      BY <3>1 DEF OrderInv, FromRequest
  <2>5. ASSUME NEW j \in DOMAIN book
        PROVE  OrderInv(j)'
    BY <2>3, <2>a, OrderInvStable DEF OrdersInv
  <2>6. \A j \in DOMAIN book' : j = n \/ j \in DOMAIN book
    BY <2>3
  <2> HIDE DEF n
  <2> QED
    BY <2>4, <2>5, <2>6 DEF OrdersInv
<1>2. ASSUME NEW i \in DOMAIN book, CancelOrder(i)
      PROVE  OrdersInv'
  <2>1. PICK v \in Int : v = 0
    OBVIOUS
  <2>2. /\ book' = Move(book, i, "CANCELLED", v)
        /\ reported' = [reported EXCEPT ![i] = book'[i].status]
    BY <1>2, <2>1, CancelIsMove
  <2>3. /\ UNCHANGED tradedVol /\ withdrawn' \subseteq withdrawn \cup {i}
        /\ "CANCELLED" \in Transitions[book[i].status]
    BY <1>2 DEF CancelOrder, MayMove
  <2> QED
    BY <2>2, <2>3, MoveOrders
<1>3. CASE LimitCancel
  <2>1. next \in DOMAIN book
    BY <1>3 DEF LimitCancel, Matching, TypeOK
  <2>2. PICK v \in Int : v = 0
    OBVIOUS
  <2>3. /\ book' = Move(book, next, "CANCELLED", v)
        /\ reported' = [reported EXCEPT ![next] = book'[next].status]
        /\ UNCHANGED <<tradedVol, withdrawn>>
    BY <1>3, <2>2 DEF LimitCancel, historyVars
  <2> QED
    BY <2>1, <2>3, MoveOrders
<1>4. CASE FillOrder
  <2>1. next \in DOMAIN book
    BY <1>4 DEF FillOrder, Matching, TypeOK
  <2>2. Current.volume \in Int
    BY <2>1, BookTypes DEF Current
  <2> QED
    BY <1>4, <2>1, <2>2, MoveOrders DEF FillOrder, historyVars
<1>5. CASE ReportTrade
  <2>1. next \in snapshot /\ next \in DOMAIN book /\ pc = "filled"
    BY <1>5 DEF ReportTrade, TypeOK
  <2>2. tradedVol[next] = 0 /\ book[next].status # "ACCEPTED" /\ OrderInv(next)
    BY <2>1 DEF LoopInv, SnapshotInv, BeingFilled, OrdersInv, OrderInv
  <2>3. book[next].volume \in Nat /\ DOMAIN tradedVol = DOMAIN book
    BY <2>1, BookTypes DEF TypeOK
  <2>4. /\ tradedVol'[next] = book[next].volume
        /\ \A j \in DOMAIN book : j # next => tradedVol'[j] = tradedVol[j]
        /\ book' = book /\ reported' = reported /\ withdrawn' = withdrawn
    BY <1>5, <2>1, <2>2, <2>3 DEF ReportTrade, Current, historyVars
  <2>5. ASSUME NEW j, j = next
        PROVE  OrderInv(j)'
    BY <2>2, <2>4, <2>5 DEF OrderInv, FromRequest
  <2>6. ASSUME NEW j \in DOMAIN book, j # next
        PROVE  OrderInv(j)'
    BY <2>4, <2>6, OrderInvStable DEF OrdersInv
  <2> QED
    BY <2>4, <2>5, <2>6 DEF OrdersInv
<1>6. ASSUME UNCHANGED <<book, reported, tradedVol>>, withdrawn' \subseteq withdrawn
      PROVE  OrdersInv'
  BY <1>6, OrderInvStable DEF OrdersInv
<1> QED
  BY <1>1, <1>2, <1>3, <1>4, <1>5, <1>6
     DEF Next, UserStep, LoopStep, vars, historyVars, Subscribe, ProcessBar, SkipOrder, NextOrder,
         ReportBar, Return, CallbackRaises

(* The matching rules, as the code writes them and as the property does. *)
LEMMA MatchingRules ==
    ASSUME NEW o, o.direction \in {"LONG", "SHORT"}
    PROVE  (LimitLocked(o) <=> AtLimit(o)) /\ (PriceMet(o) <=> Tradable(o))
BY DEF LimitLocked, AtLimit, PriceMet, Tradable

(* One transition, on the order the loop is at or, from a callback, on another
   one: the other orders of the snapshot are as they were.                  *)
LEMMA SnapshotInvStable ==
    ASSUME NEW i, SnapshotInv(i), Reached(i)' <=> Reached(i), BeingFilled(i)' <=> BeingFilled(i),
           book'[i] = book[i], tradedVol'[i] = tradedVol[i],
           bar' = bar, prevClose' = prevClose, arrived' = arrived,
           i \in withdrawn' <=> i \in withdrawn,
           pc' = "bar" => i < next'
    PROVE  SnapshotInv(i)'
<1>1. AtLimit(book[i])' <=> AtLimit(book[i])
  BY DEF AtLimit
<1>2. Tradable(book[i])' <=> Tradable(book[i])
  BY DEF Tradable
<1>3. Untouched(i)' <=> Untouched(i)
  BY DEF Untouched, IsOpen
<1>4. Settled(i)' <=> Settled(i)
  BY <1>1, <1>2, <1>3 DEF Settled
<1> QED
  BY <1>1, <1>2, <1>3, <1>4 DEF SnapshotInv

(* A callback withdraws the order. *)
LEMMA WithdrawnInSnapshot ==
    ASSUME TypeOK, NEW i \in snapshot, SnapshotInv(i), book[i].status = "ACCEPTED",
           CallbacksMayCancel,
           NEW v \in Int, book'[i] = MovedIfAllowed(book[i], "CANCELLED", v), i \in withdrawn',
           UNCHANGED <<loopVars, tradedVol, arrived>>
    PROVE  SnapshotInv(i)'
<1>1. i \in DOMAIN book
  BY DEF TypeOK
<1>2. /\ book'[i].symbol = book[i].symbol /\ book'[i].direction = book[i].direction
      /\ book'[i].type = book[i].type /\ book'[i].price = book[i].price
      /\ book'[i].volume = book[i].volume
  BY <1>1, BookTypes, MovedFields
<1>3. UNCHANGED <<pc, bar, prevClose, next>> /\ tradedVol'[i] = tradedVol[i]
  BY DEF loopVars
<1>4. AtLimit(book[i])' <=> AtLimit(book[i])
  BY <1>2, <1>3 DEF AtLimit
<1>5. Tradable(book[i])' <=> Tradable(book[i])
  BY <1>2, <1>3 DEF Tradable
<1>6. Untouched(i) => Untouched(i)'
  BY <1>3 DEF Untouched
<1>7. Settled(i) => Settled(i)'
  BY <1>4, <1>5, <1>6 DEF Settled
<1>8. (Reached(i)' <=> Reached(i)) /\ (BeingFilled(i)' <=> BeingFilled(i))
  BY <1>3 DEF Reached, BeingFilled
<1> QED
  BY <1>2, <1>3, <1>4, <1>5, <1>6, <1>7, <1>8 DEF SnapshotInv

LEMMA StepLoopOrder ==
    ASSUME TypeOK, OrdersInv, LoopInv, LimitCancel \/ FillOrder
    PROVE  LoopInv'
<1>1. /\ pc = "match" /\ next \in snapshot /\ next \in DOMAIN book /\ Current.symbol = bar.symbol
      /\ bar' = bar /\ prevClose' = prevClose /\ snapshot' = snapshot /\ next' = next
      /\ UNCHANGED <<tradedVol, arrived, withdrawn>>
      /\ pc' \in {"cancelled", "filled"}
  BY DEF LimitCancel, FillOrder, Matching, TypeOK, historyVars
<1>2. PICK n \in {"CANCELLED", "FILLED"}, v \in Int :
          /\ book' = Move(book, next, n, v)
          /\ reported' = [reported EXCEPT ![next] = book'[next].status]
          /\ n = "FILLED" => ~LimitLocked(Current) /\ PriceMet(Current) /\ pc' = "filled"
          /\ n = "CANCELLED" => LimitLocked(Current) /\ pc' = "cancelled"
  <2>1. CASE LimitCancel
    BY <2>1 DEF LimitCancel
  <2>2. CASE FillOrder
    <3>1. Current.volume \in Int
      BY <1>1, BookTypes DEF Current
    <3> QED
      BY <2>2, <3>1 DEF FillOrder
  <2> QED
    BY <2>1, <2>2
<1>3. n \in GatewayStatuses
  BY DEF GatewayStatuses
<1>4. /\ DOMAIN book' = DOMAIN book
      /\ book'[next] = MovedIfAllowed(book[next], n, v)
      /\ \A j \in DOMAIN book : j # next => book'[j] = book[j]
  BY <1>1, <1>2, <1>3, MovedBook
<1>5. SnapshotInv(next) /\ OrderInv(next) /\ ~Reached(next) /\ next \in Nat
  BY <1>1 DEF LoopInv, OrdersInv, Reached, TypeOK
<1>6. /\ tradedVol[next] = 0 /\ next <= arrived
      /\ book[next].status = "ACCEPTED" \/ (next \in withdrawn /\ book[next].status = "CANCELLED")
  BY <1>5 DEF SnapshotInv, OrderInv, Untouched, IsOpen, OpenStatuses
<1>7. /\ book'[next].symbol = book[next].symbol /\ book'[next].direction = book[next].direction
      /\ book'[next].type = book[next].type /\ book'[next].price = book[next].price
      /\ book'[next].status = IF n \in Transitions[book[next].status] THEN n ELSE book[next].status
  BY <1>1, <1>4, BookTypes, MovedFields
<1>8. book'[next].status = IF book[next].status = "ACCEPTED" THEN n ELSE "CANCELLED"
  BY <1>6, <1>7 DEF Transitions, GatewayStatuses
<1>9. /\ AtLimit(book[next])' <=> LimitLocked(Current)
      /\ Tradable(book[next])' <=> PriceMet(Current)
  <2>1. /\ AtLimit(book[next]) <=> LimitLocked(Current)
        /\ Tradable(book[next]) <=> PriceMet(Current)
    BY <1>1, BookTypes, MatchingRules DEF Current
  <2>2. AtLimit(book[next])' <=> AtLimit(book[next])
    BY <1>1, <1>7 DEF AtLimit
  <2>3. Tradable(book[next])' <=> Tradable(book[next])
    BY <1>1, <1>7 DEF Tradable
  <2> QED
    BY <2>1, <2>2, <2>3
<1>10. SnapshotInv(next)'
  <2>1. Reached(next)' /\ (BeingFilled(next)' <=> n = "FILLED")
    BY <1>1, <1>2 DEF Reached, BeingFilled
  <2>2. CASE n = "CANCELLED"
    <3>1. Settled(next)'
      BY <1>1, <1>2, <1>6, <1>8, <1>9, <2>2 DEF Settled
    <3> QED
      BY <1>1, <1>6, <1>7, <2>1, <2>2, <3>1 DEF SnapshotInv, Current
  <2>3. CASE n = "FILLED"
    <3>1. (next \in withdrawn \/ book[next].status = "FILLED")'
      BY <1>1, <1>6, <1>8, <2>3
    <3>2. (tradedVol[next] = 0 /\ book[next].symbol = bar.symbol /\ next <= arrived)'
      BY <1>1, <1>6, <1>7 DEF Current
    <3>3. ~AtLimit(book[next])' /\ Tradable(book[next])' /\ pc' # "bar"
      BY <1>2, <1>9, <2>3
    <3> QED
      BY <2>1, <2>3, <3>1, <3>2, <3>3 DEF SnapshotInv
  <2> QED
    BY <2>2, <2>3
<1>11. ASSUME NEW i \in snapshot, i # next
       PROVE  SnapshotInv(i)'
  <2>1. i \in DOMAIN book
    BY DEF TypeOK
  <2>2. (Reached(i)' <=> Reached(i)) /\ (BeingFilled(i)' <=> BeingFilled(i)) /\ pc' # "bar"
    BY <1>1, <1>11 DEF Reached, BeingFilled
  <2>3. SnapshotInv(i) /\ book'[i] = book[i] /\ tradedVol'[i] = tradedVol[i]
    BY <1>1, <1>4, <1>11, <2>1 DEF LoopInv
  <2> QED
    BY <1>1, <2>2, <2>3, SnapshotInvStable
<1>12. ASSUME NEW i, i = next
       PROVE  SnapshotInv(i)'
  <2>1. i = next'
    BY <1>1, <1>12
  <2> QED
    BY <1>1, <1>10, <1>12, <2>1 DEF SnapshotInv, Settled, Untouched, IsOpen, AtLimit, Tradable, Reached, BeingFilled
<1> QED
  BY <1>1, <1>11, <1>12 DEF LoopInv

(* The order just filled is settled when its trade is reported. *)
LEMMA StepReport ==
    ASSUME TypeOK, OrdersInv, LoopInv, ReportTrade
    PROVE  LoopInv'
<1>1. /\ pc = "filled" /\ pc' = "traded" /\ next \in snapshot /\ next \in DOMAIN book
      /\ UNCHANGED <<bar, prevClose, next, snapshot, book, arrived, withdrawn>>
      /\ tradedVol' = [tradedVol EXCEPT ![next] = @ + Current.volume]
  BY DEF ReportTrade, TypeOK, historyVars
<1>2. book[next].volume \in Nat /\ DOMAIN tradedVol = DOMAIN book
  BY <1>1, BookTypes DEF TypeOK
<1>3. SnapshotInv(next) /\ BeingFilled(next)
  BY <1>1 DEF LoopInv, BeingFilled
<1>4. tradedVol'[next] = book[next].volume /\ \A i \in DOMAIN book : i # next => tradedVol'[i] = tradedVol[i]
  BY <1>1, <1>2, <1>3 DEF SnapshotInv, Current
<1>5. ASSUME NEW i \in snapshot, i = next
      PROVE  SnapshotInv(i)'
  <2>1. (AtLimit(book[i])' <=> AtLimit(book[i])) /\ (Tradable(book[i])' <=> Tradable(book[i]))
    BY <1>1 DEF AtLimit, Tradable
  <2>2. Settled(i)'
    BY <1>1, <1>3, <1>4, <1>5, <2>1 DEF SnapshotInv, Settled
  <2>3. Reached(i)' /\ ~BeingFilled(i)'
    BY <1>1, <1>5 DEF Reached, BeingFilled
  <2> QED
    BY <1>1, <1>3, <1>5, <2>2, <2>3 DEF SnapshotInv
<1>6. ASSUME NEW i \in snapshot, i # next
      PROVE  SnapshotInv(i)'
  <2>1. (Reached(i)' <=> Reached(i)) /\ (BeingFilled(i)' <=> BeingFilled(i))
    BY <1>1, <1>6 DEF Reached, BeingFilled
  <2>2. i \in DOMAIN book /\ SnapshotInv(i)
    BY DEF TypeOK, LoopInv
  <2> QED
    BY <1>1, <1>4, <1>6, <2>1, <2>2, SnapshotInvStable
<1> QED
  BY <1>1, <1>5, <1>6 DEF LoopInv

LEMMA StepLoop == TypeOK /\ OrdersInv /\ LoopInv /\ [Next]_vars => LoopInv'
<1> SUFFICES ASSUME TypeOK, OrdersInv, LoopInv, [Next]_vars
             PROVE  LoopInv'
  OBVIOUS
<1> USE DEF loopVars, historyVars
<1>1. next \in Nat /\ snapshot \subseteq Nat /\ snapshot \subseteq DOMAIN book
  <2>1. DOMAIN book \subseteq Nat
    BY DEF TypeOK
  <2> QED
    BY <2>1 DEF TypeOK
<1>2. ASSUME UNCHANGED loopVars, UNCHANGED <<arrived, withdrawn>>,
             \A i \in snapshot : book'[i] = book[i] /\ tradedVol'[i] = tradedVol[i]
      PROVE  LoopInv'
  <2>1. ASSUME NEW i \in snapshot
        PROVE  SnapshotInv(i)'
    <3>1. (Reached(i)' <=> Reached(i)) /\ (BeingFilled(i)' <=> BeingFilled(i))
      BY <1>2 DEF Reached, BeingFilled
    <3>2. SnapshotInv(i) /\ (pc' = "bar" => i < next')
      BY <1>2 DEF LoopInv, SnapshotInv
    <3> QED
      BY <1>2, <3>1, <3>2, SnapshotInvStable
  <2> QED
    BY <1>2, <2>1 DEF LoopInv
<1>3. ASSUME NEW r \in Requests, SendOrder(r)
      PROVE  LoopInv'
  <2>1. \A j \in DOMAIN book : book'[j] = book[j] /\ tradedVol'[j] = tradedVol[j]
    <3>1. book \in Seq(OrderData) /\ tradedVol \in Seq(Nat) /\ Len(tradedVol) = Len(book)
      BY DEF TypeOK
    <3> QED
      BY <1>3, <3>1 DEF SendOrder
  <2> QED
    BY <1>1, <1>2, <1>3, <2>1 DEF SendOrder
<1>4. ASSUME NEW i \in DOMAIN book, CancelOrder(i)
      PROVE  LoopInv'
  <2>1. PICK v \in Int : v = 0
    OBVIOUS
  <2>2. /\ book' = Move(book, i, "CANCELLED", v) /\ "CANCELLED" \in GatewayStatuses
        /\ reported' = [reported EXCEPT ![i] = book'[i].status]
        /\ "CANCELLED" \in Transitions[book[i].status]
    BY <1>4, <2>1, CancelIsMove DEF GatewayStatuses, CancelOrder, MayMove
  <2>3. /\ \A j \in DOMAIN book : j # i => book'[j] = book[j]
        /\ book'[i] = MovedIfAllowed(book[i], "CANCELLED", v)
    BY <2>2, MovedBook
  <2>4. book[i].status = "ACCEPTED"
    BY <2>2 DEF OrdersInv, OrderInv, Transitions, GatewayStatuses
  <2>5. UNCHANGED loopVars /\ UNCHANGED <<tradedVol, arrived>>
    BY <1>4 DEF CancelOrder
  <2>6. CASE pc = "user"
    <3>1. snapshot = {} /\ snapshot' = {}
      BY <2>5, <2>6 DEF TypeOK
    <3> QED
      BY <3>1 DEF LoopInv
  <2>7. CASE pc # "user"
    <3>1. CallbacksMayCancel /\ withdrawn' = withdrawn \cup {i}
      BY <1>4, <2>7 DEF CancelOrder
    <3>2. ASSUME NEW j \in snapshot, j = i
          PROVE  SnapshotInv(j)'
      <4>1. SnapshotInv(j) /\ book[j].status = "ACCEPTED" /\ j \in withdrawn'
            /\ book'[j] = MovedIfAllowed(book[j], "CANCELLED", v)
        BY <2>3, <2>4, <3>1, <3>2 DEF LoopInv
      <4> QED
        BY <2>5, <3>1, <4>1, WithdrawnInSnapshot
    <3>3. ASSUME NEW j \in snapshot, j # i
          PROVE  SnapshotInv(j)'
      <4>1. SnapshotInv(j) /\ book'[j] = book[j] /\ (j \in withdrawn' <=> j \in withdrawn)
        BY <1>1, <2>3, <3>1, <3>3 DEF LoopInv
      <4>2. (Reached(j)' <=> Reached(j)) /\ (BeingFilled(j)' <=> BeingFilled(j))
            /\ (pc' = "bar" => j < next')
        BY <2>5, <4>1 DEF Reached, BeingFilled, SnapshotInv
      <4> QED
        BY <2>5, <4>1, <4>2, SnapshotInvStable
    <3> QED
      BY <2>5, <3>2, <3>3 DEF LoopInv
  <2> QED
    BY <2>6, <2>7
<1>5. ASSUME NEW b \in Bars, ProcessBar(b)
      PROVE  LoopInv'
  <2>1. /\ pc' = "match" /\ next' = 1 /\ snapshot' = OpenOrders(book)
        /\ book' = book /\ tradedVol' = tradedVol /\ arrived' = Len(book)
    BY <1>5 DEF ProcessBar, TypeOK
  <2>2. ASSUME NEW i \in OpenOrders(book)
        PROVE  SnapshotInv(i)'
    <3>1. i \in DOMAIN book /\ i \in Nat /\ i >= 1 /\ i <= Len(book) /\ IsOpen(book, i)
      BY DEF OpenOrders, TypeOK
    <3>2. book[i].status = "ACCEPTED" /\ tradedVol[i] = 0
      BY <3>1 DEF OrdersInv, OrderInv, IsOpen, OpenStatuses
    <3>3. ~Reached(i)' /\ ~BeingFilled(i)'
      BY <2>1, <3>1 DEF Reached, BeingFilled
    <3>4. Untouched(i)'
      BY <2>1, <3>1, <3>2 DEF Untouched, IsOpen
    <3> QED
      BY <2>1, <3>1, <3>2, <3>3, <3>4 DEF SnapshotInv
  <2> QED
    BY <2>1, <2>2 DEF LoopInv
<1>6. CASE SkipOrder
  <2>1. ASSUME NEW i \in snapshot
        PROVE  SnapshotInv(i)'
    <3>1. /\ SnapshotInv(i) /\ pc = "match" /\ pc' = "match" /\ next' = next + 1
          /\ UNCHANGED <<bar, prevClose, book, tradedVol, arrived, withdrawn>>
          /\ i \in Nat /\ i \in DOMAIN book
      BY <1>1, <1>6 DEF SkipOrder, LoopInv
    <3>2. (Reached(i)' <=> Reached(i) \/ i = next) /\ ~BeingFilled(i) /\ ~BeingFilled(i)'
      BY <1>1, <3>1 DEF Reached, BeingFilled
    <3>3. CASE i # next
      BY <3>1, <3>2, <3>3, SnapshotInvStable
    <3>4. CASE i = next
      <4>1. ~Reached(i) /\ Reached(i)' /\ Untouched(i) /\ i <= arrived
        BY <1>1, <3>1, <3>2, <3>4 DEF Reached, SnapshotInv
      <4>2. Untouched(i)'
        BY <3>1, <4>1 DEF Untouched, IsOpen
      <4>3. CASE book[i].symbol = bar.symbol
        <5>1. ~LimitLocked(book[i]) /\ ~PriceMet(book[i])
          BY <1>6, <3>4, <4>3 DEF SkipOrder, Current
        <5>2. ~AtLimit(book[i]) /\ ~Tradable(book[i])
          BY <3>1, <5>1, BookTypes, MatchingRules
        <5>3. ~AtLimit(book[i])' /\ ~Tradable(book[i])'
          BY <3>1, <5>2 DEF AtLimit, Tradable
        <5>4. Settled(i)'
          BY <4>2, <5>3 DEF Settled
        <5> QED
          BY <3>1, <3>2, <4>1, <4>3, <5>4 DEF SnapshotInv
      <4>4. CASE book[i].symbol # bar.symbol
        BY <3>1, <3>2, <4>1, <4>2, <4>4 DEF SnapshotInv
      <4> QED
        BY <4>3, <4>4
    <3> QED
      BY <3>3, <3>4
  <2> QED
    BY <1>6, <2>1 DEF SkipOrder, LoopInv
<1>7. CASE LimitCancel \/ FillOrder
  BY <1>7, StepLoopOrder
<1>8. CASE ReportTrade
  BY <1>8, StepReport
<1>9. CASE NextOrder
  <2>1. ASSUME NEW i \in snapshot
        PROVE  SnapshotInv(i)'
    <3>1. /\ SnapshotInv(i) /\ pc \in {"cancelled", "traded"} /\ pc' = "match" /\ next' = next + 1
          /\ UNCHANGED <<bar, prevClose, book, tradedVol, arrived, withdrawn>> /\ i \in Nat
      BY <1>1, <1>9 DEF NextOrder, LoopInv
    <3>2. (Reached(i)' <=> Reached(i)) /\ (BeingFilled(i)' <=> BeingFilled(i))
      BY <1>1, <3>1 DEF Reached, BeingFilled
    <3> QED
      BY <3>1, <3>2, SnapshotInvStable
  <2> QED
    BY <1>9, <2>1 DEF NextOrder, LoopInv
<1>10. CASE ReportBar
  <2>1. ASSUME NEW i \in snapshot
        PROVE  SnapshotInv(i)'
    <3>1. /\ SnapshotInv(i) /\ pc = "match" /\ pc' = "bar" /\ i \in Nat
          /\ UNCHANGED <<bar, prevClose, next, book, tradedVol, arrived, withdrawn>> /\ i < next
      BY <1>1, <1>10 DEF ReportBar, MoreToTry, LoopInv
    <3>2. (Reached(i)' <=> Reached(i)) /\ (BeingFilled(i)' <=> BeingFilled(i))
      BY <1>1, <3>1 DEF Reached, BeingFilled
    <3> QED
      BY <3>1, <3>2, SnapshotInvStable
  <2> QED
    BY <1>10, <2>1 DEF ReportBar, LoopInv
<1>11. CASE Return \/ CallbackRaises
  BY <1>11 DEF Return, CallbackRaises, LoopInv
<1>12. CASE UNCHANGED vars
  BY <1>2, <1>12 DEF vars
<1>13. ASSUME NEW s \in Symbols, Subscribe(s)
      PROVE  LoopInv'
  BY <1>2, <1>13 DEF Subscribe
<1> QED
  BY <1>3, <1>4, <1>5, <1>6, <1>7, <1>8, <1>9, <1>10, <1>11, <1>12, <1>13
     DEF Next, UserStep, LoopStep

(* What a bar finds after it arrived it leaves alone. *)
LEMMA StepLate == TypeOK /\ OrdersInv /\ LoopInv /\ LateInv /\ [Next]_vars => LateInv'
<1> SUFFICES ASSUME TypeOK, OrdersInv, LoopInv, LateInv, [Next]_vars
             PROVE  LateInv'
  OBVIOUS
<1> USE DEF loopVars, historyVars
<1>1. ASSUME pc # "user", UNCHANGED <<arrived, withdrawn>>, DOMAIN book' = DOMAIN book,
             \A i \in DOMAIN book : i > arrived => book'[i] = book[i] /\ tradedVol'[i] = tradedVol[i]
      PROVE  LateInv'
  BY <1>1 DEF LateInv, Untouched, IsOpen
<1>2. ASSUME pc' = "user"
      PROVE  LateInv'
  BY <1>2 DEF LateInv
<1>3. ASSUME pc' = pc, UNCHANGED <<book, tradedVol, arrived, withdrawn>>
      PROVE  LateInv'
  BY <1>3 DEF LateInv, Untouched, IsOpen
<1>4. ASSUME NEW r \in Requests, SendOrder(r)
      PROVE  LateInv'
  <2> DEFINE n == Len(book) + 1
  <2>1. /\ book \in Seq(OrderData) /\ tradedVol \in Seq(Nat) /\ Len(tradedVol) = Len(book)
        /\ tradedVol' = Append(tradedVol, 0)
        /\ book' = Append(book,
                     [symbol |-> r.symbol, direction |-> r.direction, type |-> r.type,
                      price |-> r.price, volume |-> r.volume, filled |-> 0,
                      status |-> "ACCEPTED"])
        /\ UNCHANGED <<pc, arrived, withdrawn>>
    BY <1>4 DEF TypeOK, SendOrder
  <2>2. /\ DOMAIN book' = DOMAIN book \cup {n} /\ book'[n].status = "ACCEPTED"
        /\ tradedVol'[n] = 0
        /\ \A j \in DOMAIN book : book'[j] = book[j] /\ tradedVol'[j] = tradedVol[j]
    BY <2>1
  <2> HIDE DEF n
  <2> QED
    BY <2>1, <2>2 DEF LateInv, Untouched, IsOpen, OpenStatuses
<1>5. ASSUME NEW i \in DOMAIN book, CancelOrder(i)
      PROVE  LateInv'
  <2>1. PICK v \in Int : v = 0
    OBVIOUS
  <2>2. /\ book' = Move(book, i, "CANCELLED", v) /\ "CANCELLED" \in GatewayStatuses
        /\ reported' = [reported EXCEPT ![i] = book'[i].status]
    BY <1>5, <2>1, CancelIsMove DEF GatewayStatuses
  <2>3. DOMAIN book' = DOMAIN book /\ \A j \in DOMAIN book : j # i => book'[j] = book[j]
    BY <2>2, MovedBook
  <2>4. /\ UNCHANGED <<pc, tradedVol, arrived>>
        /\ pc # "user" => withdrawn' = withdrawn \cup {i}
    BY <1>5 DEF CancelOrder
  <2> QED
    BY <2>3, <2>4 DEF LateInv, Untouched, IsOpen
<1>6. ASSUME NEW b \in Bars, ProcessBar(b)
      PROVE  LateInv'
  <2>1. DOMAIN book = 1 .. Len(book) /\ Len(book) \in Nat
    BY DEF TypeOK
  <2>2. arrived' = Len(book) /\ book' = book
    BY <1>6 DEF ProcessBar
  <2>3. \A i \in DOMAIN book : ~(i > Len(book))
    BY <2>1
  <2> QED
    BY <2>2, <2>3 DEF LateInv
<1>7. CASE LimitCancel \/ FillOrder
  <2>1. /\ pc = "match" /\ next \in snapshot /\ next \in DOMAIN book
        /\ UNCHANGED <<tradedVol, arrived, withdrawn>>
    BY <1>7 DEF LimitCancel, FillOrder, Matching, TypeOK
  <2>2. Current.volume \in Int
    BY <2>1, BookTypes DEF Current
  <2>3. PICK n \in GatewayStatuses, v \in Int :
            /\ book' = Move(book, next, n, v)
            /\ reported' = [reported EXCEPT ![next] = book'[next].status]
    BY <1>7, <2>2 DEF LimitCancel, FillOrder, GatewayStatuses
  <2>4. DOMAIN book' = DOMAIN book /\ \A j \in DOMAIN book : j # next => book'[j] = book[j]
    BY <2>1, <2>3, MovedBook
  <2>5. next <= arrived /\ next \in Nat /\ arrived \in Nat
    BY <2>1 DEF LoopInv, SnapshotInv, TypeOK
  <2> QED
    BY <1>1, <2>1, <2>4, <2>5
<1>8. CASE ReportTrade
  <2>1. /\ pc = "filled" /\ next \in snapshot /\ UNCHANGED <<book, arrived, withdrawn>>
        /\ tradedVol' = [tradedVol EXCEPT ![next] = @ + Current.volume]
    BY <1>8 DEF ReportTrade, TypeOK
  <2>2. next <= arrived /\ next \in Nat /\ arrived \in Nat
    BY <2>1 DEF LoopInv, SnapshotInv, TypeOK
  <2> QED
    BY <1>1, <2>1, <2>2
<1>9. CASE SkipOrder
  BY <1>3, <1>9 DEF SkipOrder
<1>10. CASE NextOrder \/ ReportBar
  BY <1>1, <1>10 DEF NextOrder, ReportBar
<1>11. CASE Return \/ CallbackRaises
  BY <1>2, <1>11 DEF Return, CallbackRaises
<1>12. CASE UNCHANGED vars
  BY <1>3, <1>12 DEF vars
<1>13. ASSUME NEW s \in Symbols, Subscribe(s)
       PROVE  LateInv'
  BY <1>3, <1>13 DEF Subscribe
<1> QED
  BY <1>4, <1>5, <1>6, <1>7, <1>8, <1>9, <1>10, <1>11, <1>12, <1>13
     DEF Next, UserStep, LoopStep

LEMMA GatewayOrdersInv == Spec => []OrdersInv /\ []LoopInv /\ []LateInv
BY InitOrders, StepOrders, StepLoop, StepLate, GatewayTypeCorrect, PTL DEF Spec

(* Whoever follows on_order knows the true status of every order. *)
THEOREM GatewayStatusIsReported == Spec => []StatusIsReported
<1>1. OrdersInv => StatusIsReported
  BY DEF OrdersInv, OrderInv, StatusIsReported
<1> QED
  BY <1>1, GatewayOrdersInv, PTL

(* No order trades more than once, even if a callback cancels it in the bar
   that fills it.                                                           *)
THEOREM GatewayNoOrderTradesTwice == Spec => []NoOrderTradesTwice
<1>1. TypeOK /\ OrdersInv => NoOrderTradesTwice
  <2> SUFFICES ASSUME TypeOK, OrdersInv, NEW i \in DOMAIN book
               PROVE  tradedVol[i] <= book[i].volume
    BY DEF NoOrderTradesTwice
  <2>1. book[i].volume \in Nat /\ tradedVol[i] \in {0, book[i].volume}
    BY BookTypes DEF OrdersInv, OrderInv
  <2> QED
    BY <2>1
<1> QED
  BY <1>1, GatewayTypeCorrect, GatewayOrdersInv, PTL

(* A bar settles every order of its symbol that was open when it arrived, as
   the matching rules say, and neither trades nor cancels any order of another
   symbol or sent meanwhile, for any callbacks and any number of orders.     *)
THEOREM GatewayBarSettlesOrders == Spec => []BarSettlesOrders
<1>1. TypeOK /\ LoopInv /\ LateInv => BarSettlesOrders
  <2> SUFFICES ASSUME TypeOK, LoopInv, LateInv, pc = "bar", NEW i \in DOMAIN book
               PROVE  IF i \in snapshot /\ book[i].symbol = bar.symbol THEN Settled(i)
                      ELSE i \in snapshot \/ i > arrived => Untouched(i)
    BY DEF BarSettlesOrders
  <2>1. i \in snapshot => SnapshotInv(i) /\ Reached(i) /\ ~BeingFilled(i)
    BY DEF LoopInv, SnapshotInv, Reached, BeingFilled
  <2> QED
    BY <2>1 DEF SnapshotInv, LateInv
<1> QED
  BY <1>1, GatewayTypeCorrect, GatewayOrdersInv, PTL

(* Only open orders are filled, if user code cancels no order from inside a
   callback: the hypothesis the run gateway_cancel_in_callback shows needed. *)
THEOREM GatewayOnlyOpenOrdersFill ==
    ASSUME ~CallbacksMayCancel
    PROVE  Spec => OnlyOpenOrdersFill
<1>1. TypeOK /\ LoopInv /\ [Next]_vars => [pc = "match" /\ pc' = "filled" => IsOpen(book, next)]_vars
  <2> SUFFICES ASSUME TypeOK, LoopInv, [Next]_vars, pc = "match", pc' = "filled"
               PROVE  IsOpen(book, next)
    OBVIOUS
  <2>1. FillOrder
    BY DEF Next, UserStep, LoopStep, vars, loopVars, Subscribe, SendOrder, CancelOrder, ProcessBar,
           SkipOrder, LimitCancel, ReportTrade, NextOrder, ReportBar, Return, CallbackRaises,
           InUserCode, Callbacks
  <2>2. next \in snapshot /\ ~Reached(next)
    BY <2>1 DEF FillOrder, Matching, Reached, TypeOK
  <2>3. book[next].status = "ACCEPTED"
    BY <2>2 DEF LoopInv, SnapshotInv
  <2> QED
    BY <2>3 DEF IsOpen, OpenStatuses
<1> QED
  BY <1>1, GatewayTypeCorrect, GatewayOrdersInv, PTL DEF Spec, OnlyOpenOrdersFill

-----------------------------------------------------------------------------
(* The refinement of the order lifecycle. *)
WithinBound == Len(book) <= MaxOrders

StatusOf == [i \in 1 .. MaxOrders |-> IF i \in DOMAIN book THEN book[i].status ELSE "NEW"]
FilledOf == [i \in 1 .. MaxOrders |-> IF i \in DOMAIN book THEN book[i].filled ELSE 0]

(* A transition of the OMS is a step of the lifecycle, or changes nothing. *)
LEMMA MoveIsAdvance ==
    ASSUME TypeOK, WithinBound,
           NEW i \in DOMAIN book, NEW new \in {"FILLED", "CANCELLED"}, NEW v \in Int,
           book' = Move(book, i, new, v), new = "CANCELLED" => v = 0,
           new = "FILLED" => v \in OrderVolumes
    PROVE  Lifecycle!Next \/ UNCHANGED Lifecycle!lifecycleVars
<1>1. book \in Seq(OrderData) /\ i \in 1 .. MaxOrders /\ new \in GatewayStatuses
  BY GatewayAssumption DEF TypeOK, WithinBound, GatewayStatuses
<1> DEFINE m == Move(book, i, new, v)
<1>2. /\ DOMAIN m = DOMAIN book /\ m[i] = MovedIfAllowed(book[i], new, v)
      /\ \A j \in DOMAIN book : j # i => m[j] = book[j]
  BY <1>1, MoveType
<1>3. book' = m
  OBVIOUS
<1> HIDE DEF m
<1>4. CASE new \in Transitions[book[i].status]
  <2>1. book'[i].status = new /\ book'[i].filled = book[i].filled + v
    <3>1. book[i] \in OrderData
      BY BookTypes
    <3>2. book'[i] = Moved(book[i], new, v)
      BY <1>2, <1>3, <1>4 DEF MovedIfAllowed
    <3> QED
      BY <3>1, <3>2 DEF Moved, OrderData
  <2>2. StatusOf' = [StatusOf EXCEPT ![i] = new]
    BY <1>1, <1>2, <1>3, <2>1 DEF StatusOf
  <2>3. FilledOf' = [FilledOf EXCEPT ![i] = @ + v]
    BY <1>1, <1>2, <1>3, <2>1 DEF FilledOf
  <2>4. StatusOf[i] # "NEW" /\ new \in Lifecycle!Transitions[StatusOf[i]] /\ new \in Lifecycle!GatewayStatuses
    <3>1. StatusOf[i] = book[i].status /\ book[i].status \in GatewayStatuses
      BY <1>1, BookTypes DEF StatusOf
    <3> QED
      BY <1>4, <3>1 DEF Lifecycle!Transitions, Transitions, Lifecycle!GatewayStatuses, GatewayStatuses
  <2>5. CASE new = "FILLED"
    BY <1>1, <2>2, <2>3, <2>4, <2>5
       DEF Lifecycle!Next, Lifecycle!Advance, StatusOf, FilledOf
  <2>6. CASE new = "CANCELLED"
    <3>1. FilledOf' = FilledOf
      <4>1. book[i].filled + v = book[i].filled
        BY <2>6, BookTypes DEF OrderData
      <4> QED
        BY <1>2, <1>3, <2>1, <4>1 DEF FilledOf
    <3> QED
      BY <1>1, <2>2, <2>4, <2>6, <3>1
         DEF Lifecycle!Next, Lifecycle!Advance, StatusOf, FilledOf
  <2> QED
    BY <2>5, <2>6
<1>5. CASE new \notin Transitions[book[i].status]
  <2>1. book' = book
    BY <1>5 DEF Move, MayMove
  <2> QED
    BY <2>1 DEF Lifecycle!lifecycleVars
<1> QED
  BY <1>4, <1>5

LEMMA SendIsSubmit ==
    ASSUME TypeOK, NEW r \in Requests, SendOrder(r)
    PROVE  Lifecycle!Next
<1> DEFINE o == [symbol |-> r.symbol, direction |-> r.direction, type |-> r.type,
                 price |-> r.price, volume |-> r.volume, filled |-> 0, status |-> "ACCEPTED"]
<1>1. book \in Seq(OrderData) /\ Len(book) < MaxOrders /\ book' = Append(book, o)
  BY DEF SendOrder, TypeOK
<1>2. PICK n \in 1 .. MaxOrders : n = Len(book) + 1
  BY <1>1, GatewayAssumption
<1>3. /\ n \notin DOMAIN book /\ DOMAIN book' = DOMAIN book \cup {n} /\ book'[n] = o
      /\ \A j \in DOMAIN book : book'[j] = book[j]
  <2> HIDE DEF o
  <2> QED
    BY <1>1, <1>2
<1>4. StatusOf[n] = "NEW" /\ StatusOf' = [StatusOf EXCEPT ![n] = "ACCEPTED"]
  <2>1. book'[n].status = "ACCEPTED" /\ n \in DOMAIN book'
    BY <1>3
  <2> HIDE DEF o
  <2> QED
    BY <1>2, <1>3, <2>1 DEF StatusOf
<1>5. FilledOf' = FilledOf
  BY <1>2, <1>3 DEF FilledOf
<1> QED
  BY <1>2, <1>4, <1>5 DEF Lifecycle!Next, Lifecycle!Submit, StatusOf, FilledOf

LEMMA StepLifecycle ==
    TypeOK /\ OrdersInv /\ WithinBound /\ [Next]_vars => [Lifecycle!Next]_(Lifecycle!lifecycleVars)
<1> SUFFICES ASSUME TypeOK, OrdersInv, WithinBound, [Next]_vars
             PROVE  Lifecycle!Next \/ UNCHANGED Lifecycle!lifecycleVars
  OBVIOUS
<1>1. ASSUME NEW r \in Requests, SendOrder(r)
      PROVE  Lifecycle!Next
  BY <1>1, SendIsSubmit
<1>2. ASSUME NEW i \in DOMAIN book, CancelOrder(i)
      PROVE  Lifecycle!Next \/ UNCHANGED Lifecycle!lifecycleVars
  <2>1. PICK v \in Int : v = 0
    OBVIOUS
  <2>2. book' = Move(book, i, "CANCELLED", v)
    BY <1>2, <2>1 DEF CancelOrder
  <2> QED
    BY <2>1, <2>2, MoveIsAdvance
<1>3. CASE LimitCancel
  <2>1. PICK v \in Int : v = 0
    OBVIOUS
  <2>2. book' = Move(book, next, "CANCELLED", v) /\ next \in DOMAIN book
    BY <1>3, <2>1 DEF LimitCancel, Matching, TypeOK
  <2> QED
    BY <2>1, <2>2, MoveIsAdvance
<1>4. CASE FillOrder
  <2>1. book' = Move(book, next, "FILLED", Current.volume) /\ next \in DOMAIN book
    BY <1>4 DEF FillOrder, Matching, TypeOK
  <2>2. Current.volume \in Int /\ Current.volume \in OrderVolumes
    BY <2>1, BookTypes DEF OrdersInv, OrderInv, FromRequest, Current, OrderVolumes
  <2> QED
    BY <2>1, <2>2, MoveIsAdvance
<1>5. ASSUME UNCHANGED book
      PROVE  UNCHANGED Lifecycle!lifecycleVars
  BY <1>5 DEF Lifecycle!lifecycleVars
<1> QED
  BY <1>1, <1>2, <1>3, <1>4, <1>5
     DEF Next, UserStep, LoopStep, vars, Subscribe, ProcessBar, SkipOrder, ReportTrade, NextOrder,
         ReportBar, Return, CallbackRaises

LEMMA StepWithinBound == TypeOK /\ WithinBound /\ [Next]_vars => WithinBound'
<1> SUFFICES ASSUME TypeOK, WithinBound, [Next]_vars
             PROVE  WithinBound'
  OBVIOUS
<1>1. book \in Seq(OrderData) /\ Len(book) \in Nat /\ MaxOrders \in Nat
  BY GatewayAssumption DEF TypeOK
<1>2. ASSUME NEW r \in Requests, SendOrder(r)
      PROVE  WithinBound'
  BY <1>1, <1>2 DEF SendOrder, WithinBound
<1>3. ASSUME NEW i \in DOMAIN book, NEW new, NEW v, book' = Move(book, i, new, v)
      PROVE  WithinBound'
  BY <1>1, <1>3 DEF Move, WithinBound
<1>4. ASSUME UNCHANGED book
      PROVE  WithinBound'
  BY <1>4 DEF WithinBound
<1>5. LimitCancel \/ FillOrder => next \in DOMAIN book
  BY DEF LimitCancel, FillOrder, Matching, TypeOK
<1> QED
  BY <1>2, <1>3, <1>4, <1>5
     DEF Next, UserStep, LoopStep, vars, Subscribe, CancelOrder, ProcessBar, SkipOrder, LimitCancel,
         FillOrder, ReportTrade, NextOrder, ReportBar, Return, CallbackRaises

(* The gateway implements the order lifecycle of the documentation, also when
   callbacks cancel orders that are then filled: the transition is refused.  *)
THEOREM GatewayImplementsLifecycle == Spec => ImplementsLifecycle
<1>1. Init => Lifecycle!Init /\ WithinBound
  BY GatewayAssumption DEF Init, Lifecycle!Init, WithinBound
<1> QED
  BY <1>1, StepWithinBound, StepLifecycle, GatewayTypeCorrect, GatewayOrdersInv, PTL
     DEF Spec, ImplementsLifecycle, Lifecycle!Spec

-----------------------------------------------------------------------------
(* The refinement of the ledger: a fill is a purchase or a sale, of the whole
   order, at a price of the matching rules.                                 *)
HoldingNet == [s \in Symbols |-> positions[s].net]

LEMMA FillIsLedgerStep == TypeOK /\ OrdersInv /\ FillOrder => Account!Next
<1> SUFFICES ASSUME TypeOK, OrdersInv, FillOrder
             PROVE  Account!Next
  OBVIOUS
<1> DEFINE s == bar.symbol
           p == FillPrice(Current, bar)
           v == Current.volume
<1>1. /\ next \in DOMAIN book /\ bar \in Bars /\ OrderInv(next)
      /\ Current \in OrderData /\ s \in Symbols
      /\ Current.direction \in {"LONG", "SHORT"} /\ v \in Nat
  <2>1. next \in DOMAIN book /\ bar \in Bars /\ Current.symbol = s
    BY DEF FillOrder, Matching, TypeOK
  <2> QED
    BY <2>1, BookTypes DEF OrdersInv, Current
<1>2. PICK r \in Requests : Current.volume = r.volume /\ Current.direction = r.direction
  BY <1>1 DEF OrderInv, FromRequest, Current
<1>3. p \in Int /\ p \in FillPrices
  <2>1. p = FillPrice(r, bar)
    BY <1>2 DEF FillPrice
  <2> QED
    BY <1>1, <2>1, FillPriceInt DEF FillPrices
<1>4. v \in OrderVolumes
  BY <1>2 DEF OrderVolumes
<1>5. cash' = CashAfter(Current, p) /\ cash \in Int
  BY DEF FillOrder, TypeOK
<1>6. HoldingNet' = [HoldingNet EXCEPT ![s] = @ + Signed(Current)]
  <2>1. positions[s] \in [net : Int, avg : Int] /\ positions \in [Symbols -> [net : Int, avg : Int]]
    BY <1>1 DEF TypeOK
  <2>2. PositionAfter(positions[s], Current, p).net = positions[s].net + Signed(Current)
    BY <1>1, <1>3, <2>1, PositionAfterType
  <2>3. positions' = [positions EXCEPT ![s] = PositionAfter(@, Current, p)]
    BY DEF FillOrder
  <2> QED
    BY <1>1, <2>1, <2>2, <2>3 DEF HoldingNet
<1>7. HoldingNet[s] \in Int
  BY <1>1 DEF HoldingNet, TypeOK
<1>8. CASE Current.direction = "LONG"
  <2>1. cash' = cash - (p * v + CommissionOn(p, v))
    BY <1>5, <1>8 DEF CashAfter
  <2>2. HoldingNet' = [HoldingNet EXCEPT ![s] = @ + v]
    BY <1>6, <1>8 DEF Signed
  <2> HIDE DEF p, v, s
  <2> QED
    BY <1>1, <1>3, <1>4, <2>1, <2>2 DEF Account!Next, Account!Buy, HoldingNet
<1>9. CASE Current.direction = "SHORT"
  <2>1. cash' = cash + (p * v - CommissionOn(p, v))
    BY <1>5, <1>9 DEF CashAfter
  <2>2. HoldingNet' = [HoldingNet EXCEPT ![s] = @ - v]
    <3>1. HoldingNet[s] + Signed(Current) = HoldingNet[s] - v
      BY <1>1, <1>7, <1>9 DEF Signed
    <3> QED
      BY <1>6, <3>1
  <2> HIDE DEF p, v, s
  <2> QED
    BY <1>1, <1>3, <1>4, <2>1, <2>2 DEF Account!Next, Account!Sell, HoldingNet
<1> QED
  BY <1>1, <1>8, <1>9

(* Cash and positions of the gateway move only together, in fills, whatever
   callbacks do in between.                                                 *)
THEOREM GatewayImplementsLedger == Spec => ImplementsLedger
<1>1. Init => Account!Init
  BY DEF Init, Account!Init
<1>2. TypeOK /\ OrdersInv /\ [Next]_vars => [Account!Next]_(Account!ledgerVars)
  <2> SUFFICES ASSUME TypeOK, OrdersInv, [Next]_vars
               PROVE  Account!Next \/ UNCHANGED Account!ledgerVars
    OBVIOUS
  <2>1. CASE FillOrder
    BY <2>1, FillIsLedgerStep
  <2>2. ASSUME UNCHANGED moneyVars
        PROVE  UNCHANGED Account!ledgerVars
    BY <2>2 DEF moneyVars, Account!ledgerVars
  <2> QED
    BY <2>1, <2>2
       DEF Next, UserStep, LoopStep, vars, Subscribe, SendOrder, CancelOrder, ProcessBar, SkipOrder,
           LimitCancel, ReportTrade, NextOrder, ReportBar, Return, CallbackRaises
<1> QED
  BY <1>1, <1>2, GatewayTypeCorrect, GatewayOrdersInv, PTL
     DEF Spec, ImplementsLedger, Account!Spec

-----------------------------------------------------------------------------
(* The position is the sum of the trades.  Between the fill of an order and the
   report of its trade, the position is ahead of the trades by that order.     *)
Owed(s) == IF pc = "filled" /\ Current.symbol = s THEN Signed(Current) ELSE 0
PositionInv ==
    ~raised => \A s \in Symbols : positions[s].net = PositionOfTrades(s) + Owed(s)

LEMMA TradesTyped ==
    ASSUME TypeOK, NEW s
    PROVE  /\ TradesOf(s) \subseteq DOMAIN book /\ IsFiniteSet(TradesOf(s))
           /\ \A i \in DOMAIN book : SignedTrade[i] \in Int
           /\ PositionOfTrades(s) \in Int
<1>1. Len(book) \in Nat /\ DOMAIN book = 1 .. Len(book)
  BY DEF TypeOK
<1>2. IsFiniteSet(1 .. Len(book))
  BY <1>1, FS_Interval
<1>3. TradesOf(s) \subseteq DOMAIN book /\ IsFiniteSet(TradesOf(s))
  BY <1>1, <1>2, FS_Subset DEF TradesOf
<1>4. \A i \in DOMAIN book : SignedTrade[i] \in Int
  BY BookTypes DEF SignedTrade
<1>5. SumFunctionOnSet(SignedTrade, TradesOf(s)) \in Int
  BY <1>3, <1>4, SumInt
<1> QED
  BY <1>3, <1>4, <1>5 DEF PositionOfTrades

(* Which orders there are for a symbol, and what they traded, is all that counts. *)
LEMMA SameTrades ==
    ASSUME TypeOK, DOMAIN book' = DOMAIN book, tradedVol' = tradedVol,
           \A i \in DOMAIN book : /\ book'[i].symbol = book[i].symbol
                                  /\ book'[i].direction = book[i].direction
    PROVE  \A s : PositionOfTrades(s)' = PositionOfTrades(s)
<1> TAKE s
<1>1. TradesOf(s)' = TradesOf(s)
  BY DEF TradesOf
<1>2. SignedTrade' = SignedTrade
  BY DEF SignedTrade
<1> QED
  BY <1>1, <1>2 DEF PositionOfTrades

(* A transition of an order changes neither its trades nor what is owed. *)
LEMMA MoveKeepsTrades ==
    ASSUME TypeOK, NEW i \in DOMAIN book, NEW new \in {"FILLED", "CANCELLED"}, NEW v \in Int,
           book' = Move(book, i, new, v),
           reported' = [reported EXCEPT ![i] = book'[i].status],
           UNCHANGED tradedVol
    PROVE  /\ \A s : PositionOfTrades(s)' = PositionOfTrades(s)
           /\ \A j \in DOMAIN book : /\ book'[j].symbol = book[j].symbol
                                    /\ book'[j].direction = book[j].direction
                                    /\ book'[j].volume = book[j].volume
<1>1. /\ DOMAIN book' = DOMAIN book
      /\ book'[i] = MovedIfAllowed(book[i], new, v)
      /\ \A j \in DOMAIN book : j # i => book'[j] = book[j]
  BY MovedBook DEF GatewayStatuses
<1>2. book[i] \in OrderData
  BY BookTypes
<1>3. /\ book'[i].symbol = book[i].symbol
      /\ book'[i].direction = book[i].direction
      /\ book'[i].volume = book[i].volume
  BY <1>1, <1>2, MovedFields
<1>4. \A j \in DOMAIN book : /\ book'[j].symbol = book[j].symbol
                             /\ book'[j].direction = book[j].direction
                             /\ book'[j].volume = book[j].volume
  BY <1>1, <1>3
<1> QED
  BY <1>1, <1>4, SameTrades

(* A new order has traded nothing. *)
LEMMA SendKeepsTrades ==
    ASSUME TypeOK, NEW r \in Requests, SendOrder(r)
    PROVE  /\ \A s : PositionOfTrades(s)' = PositionOfTrades(s)
           /\ \A j \in DOMAIN book : book'[j] = book[j]
<1> DEFINE n == Len(book) + 1
<1>1. /\ book \in Seq(OrderData) /\ tradedVol \in Seq(Nat) /\ Len(tradedVol) = Len(book)
      /\ tradedVol' = Append(tradedVol, 0)
      /\ book' = Append(book,
                   [symbol |-> r.symbol, direction |-> r.direction, type |-> r.type,
                    price |-> r.price, volume |-> r.volume, filled |-> 0,
                    status |-> "ACCEPTED"])
  BY DEF TypeOK, SendOrder
<1>2. /\ DOMAIN book' = DOMAIN book \cup {n} /\ n \notin DOMAIN book
      /\ \A j \in DOMAIN book : book'[j] = book[j]
  BY <1>1
<1>3. tradedVol'[n] = 0 /\ \A j \in DOMAIN book : tradedVol'[j] = tradedVol[j]
  BY <1>1
<1> HIDE DEF n
<1>4. /\ \A j \in DOMAIN book : SignedTrade'[j] = SignedTrade[j]
      /\ SignedTrade'[n] = 0
  BY <1>2, <1>3 DEF SignedTrade
<1>5. ASSUME NEW s
      PROVE  PositionOfTrades(s)' = PositionOfTrades(s)
  <2> DEFINE T == TradesOf(s)
             f == SignedTrade'
  <2>1. T \subseteq DOMAIN book /\ IsFiniteSet(T) /\ \A i \in DOMAIN book : SignedTrade[i] \in Int
    BY TradesTyped
  <2>2. n \notin T /\ \A i \in T \cup {n} : f[i] \in Int
    BY <1>2, <1>4, <2>1
  <2>3. TradesOf(s)' = T \/ TradesOf(s)' = T \cup {n}
    BY <1>2 DEF TradesOf
  <2>4. \A i \in T : f[i] = SignedTrade[i]
    BY <1>4, <2>1
  <2>5. f[n] = 0
    BY <1>4
  <2>6. PositionOfTrades(s)' = SumFunctionOnSet(f, TradesOf(s)')
    BY DEF PositionOfTrades
  <2>7. PositionOfTrades(s) = SumFunctionOnSet(SignedTrade, T) /\ PositionOfTrades(s) \in Int
    BY TradesTyped DEF PositionOfTrades
  <2> HIDE DEF T, f
  <2>8. SumFunctionOnSet(f, T) = SumFunctionOnSet(SignedTrade, T)
    BY <2>1, <2>4, SumSame
  <2>9. SumFunctionOnSet(f, T \cup {n}) = SumFunctionOnSet(f, T) + f[n]
    BY <2>1, <2>2, SumAdd
  <2>10. PICK a \in Int : a = SumFunctionOnSet(SignedTrade, T)
    BY <2>7
  <2>11. SumFunctionOnSet(f, T \cup {n}) = a /\ SumFunctionOnSet(f, T) = a
    BY <2>5, <2>8, <2>9, <2>10
  <2>12. SumFunctionOnSet(f, TradesOf(s)') = a
    BY <2>3, <2>11
  <2> QED
    BY <2>6, <2>7, <2>10, <2>12
<1> QED
  BY <1>2, <1>5

(* A reported trade adds the volume of its order to the trades of its symbol. *)
LEMMA ReportAddsTrade ==
    ASSUME TypeOK, ReportTrade
    PROVE  \A s : PositionOfTrades(s)' = PositionOfTrades(s) + Owed(s)
<1>1. /\ next \in DOMAIN book /\ book' = book /\ pc = "filled"
      /\ tradedVol' = [tradedVol EXCEPT ![next] = @ + Current.volume]
      /\ tradedVol \in Seq(Nat) /\ DOMAIN tradedVol = DOMAIN book
  BY DEF TypeOK, ReportTrade
<1>2. Current.volume \in Nat /\ tradedVol[next] \in Nat
  BY <1>1, BookTypes DEF Current
<1>3. \A j \in DOMAIN book : j # next => SignedTrade'[j] = SignedTrade[j]
  BY <1>1 DEF SignedTrade
<1>4. SignedTrade[next] \in Int /\ SignedTrade'[next] = SignedTrade[next] + Signed(Current)
      /\ Signed(Current) \in Int
  BY <1>1, <1>2 DEF SignedTrade, Signed, Current
<1> TAKE s
<1> DEFINE T == TradesOf(s)
           f == SignedTrade
           g == SignedTrade'
<1>5. T \subseteq DOMAIN book /\ IsFiniteSet(T) /\ \A i \in DOMAIN book : f[i] \in Int
  BY TradesTyped
<1>6. PositionOfTrades(s) = SumFunctionOnSet(f, T) /\ PositionOfTrades(s) \in Int
  BY TradesTyped DEF PositionOfTrades
<1>7. PositionOfTrades(s)' = SumFunctionOnSet(g, T)
  BY <1>1 DEF PositionOfTrades, TradesOf
<1>8. next \in T <=> Current.symbol = s
  BY <1>1 DEF TradesOf, Current
<1>9. CASE Current.symbol # s
  <2>1. \A i \in T : g[i] = f[i]
    BY <1>3, <1>5, <1>8, <1>9
  <2> HIDE DEF T, f, g
  <2>2. SumFunctionOnSet(g, T) = SumFunctionOnSet(f, T)
    BY <1>5, <2>1, SumSame
  <2>3. Owed(s) = 0
    BY <1>9 DEF Owed
  <2> QED
    BY <1>6, <1>7, <2>2, <2>3
<1>10. CASE Current.symbol = s
  <2>1. /\ \A i \in T \ {next} : g[i] = f[i]
        /\ g[next] \in Int /\ next \in T /\ \A i \in T : f[i] \in Int
    BY <1>3, <1>4, <1>5, <1>8, <1>10
  <2>2. g[next] = f[next] + Signed(Current) /\ f[next] \in Int
    BY <1>4
  <2> HIDE DEF T, f, g
  <2>3. SumFunctionOnSet(g, T) = SumFunctionOnSet(f, T) + g[next] - f[next]
    BY <1>5, <2>1, SumChange
  <2>4. Owed(s) = Signed(Current)
    BY <1>1, <1>10 DEF Owed
  <2>5. PICK a \in Int, b \in Int, c \in Int :
           a = SumFunctionOnSet(f, T) /\ b = f[next] /\ c = Signed(Current)
    BY <1>4, <1>6, <2>2
  <2>6. a + (b + c) - b = a + c
    OBVIOUS
  <2> QED
    BY <1>6, <1>7, <2>2, <2>3, <2>4, <2>5, <2>6
<1> QED
  BY <1>9, <1>10

LEMMA StepPosition == TypeOK /\ PositionInv /\ [Next]_vars => PositionInv'
<1> SUFFICES ASSUME TypeOK, PositionInv, [Next]_vars
             PROVE  PositionInv'
  OBVIOUS
<1> USE DEF loopVars, moneyVars
<1>a. \A s : PositionOfTrades(s) \in Int
  BY TradesTyped
<1>1. ASSUME \A s : PositionOfTrades(s)' = PositionOfTrades(s) /\ Owed(s)' = Owed(s),
             UNCHANGED <<positions, raised>>
      PROVE  PositionInv'
  BY <1>1 DEF PositionInv
<1>2. ASSUME UNCHANGED <<book, tradedVol, positions, raised>>, pc # "filled", pc' # "filled"
      PROVE  PositionInv'
  <2>1. \A s : PositionOfTrades(s)' = PositionOfTrades(s)
    BY <1>2, SameTrades
  <2>2. \A s : Owed(s)' = Owed(s)
    BY <1>2 DEF Owed
  <2> QED
    BY <1>1, <1>2, <2>1, <2>2
<1>3. ASSUME NEW s \in Symbols, Subscribe(s)
      PROVE  PositionInv'
  <2>1. UNCHANGED <<book, tradedVol, positions, raised, pc, next>>
    BY <1>3 DEF Subscribe
  <2>2. \A t : PositionOfTrades(t)' = PositionOfTrades(t)
    BY <2>1, SameTrades
  <2>3. \A t : Owed(t)' = Owed(t)
    BY <2>1 DEF Owed, Current
  <2> QED
    BY <1>1, <2>1, <2>2, <2>3
<1>4. ASSUME NEW r \in Requests, SendOrder(r)
      PROVE  PositionInv'
  <2>1. /\ \A s : PositionOfTrades(s)' = PositionOfTrades(s)
        /\ \A j \in DOMAIN book : book'[j] = book[j]
    BY <1>4, SendKeepsTrades
  <2>2. UNCHANGED <<positions, raised, pc, next>> /\ (pc = "filled" => next \in DOMAIN book)
    BY <1>4 DEF SendOrder, TypeOK
  <2>3. \A s : Owed(s)' = Owed(s)
    BY <2>1, <2>2 DEF Owed, Current
  <2> QED
    BY <1>1, <2>1, <2>2, <2>3
<1>5. ASSUME NEW i \in DOMAIN book, CancelOrder(i)
      PROVE  PositionInv'
  <2>1. UNCHANGED <<positions, raised, pc, next, tradedVol>>
        /\ (pc = "filled" => next \in DOMAIN book)
    BY <1>5 DEF CancelOrder, TypeOK
  <2>2. PICK v \in Int : v = 0
    OBVIOUS
  <2>3. /\ book' = Move(book, i, "CANCELLED", v)
        /\ reported' = [reported EXCEPT ![i] = book'[i].status]
    BY <1>5, <2>2, CancelIsMove
  <2>4. /\ \A s : PositionOfTrades(s)' = PositionOfTrades(s)
        /\ \A j \in DOMAIN book : /\ book'[j].symbol = book[j].symbol
                                 /\ book'[j].direction = book[j].direction
                                 /\ book'[j].volume = book[j].volume
    BY <2>1, <2>3, MoveKeepsTrades
  <2>5. \A s : Owed(s)' = Owed(s)
    BY <2>1, <2>4 DEF Owed, Current, Signed
  <2> QED
    BY <1>1, <2>1, <2>4, <2>5
<1>6. CASE LimitCancel
  <2>1. /\ UNCHANGED <<positions, raised, tradedVol>> /\ pc = "match" /\ pc' = "cancelled"
        /\ next \in DOMAIN book
    BY <1>6 DEF LimitCancel, Matching, TypeOK
  <2>2. PICK v \in Int : v = 0
    OBVIOUS
  <2>3. /\ book' = Move(book, next, "CANCELLED", v)
        /\ reported' = [reported EXCEPT ![next] = book'[next].status]
    BY <1>6, <2>2 DEF LimitCancel
  <2>4. \A s : PositionOfTrades(s)' = PositionOfTrades(s)
    BY <2>1, <2>3, MoveKeepsTrades
  <2>5. \A s : Owed(s)' = Owed(s)
    BY <2>1 DEF Owed
  <2> QED
    BY <1>1, <2>1, <2>4, <2>5
<1>7. CASE FillOrder
  <2>1. /\ UNCHANGED <<raised, tradedVol, next>> /\ pc = "match" /\ pc' = "filled"
        /\ next \in DOMAIN book /\ Current.symbol = bar.symbol /\ bar \in Bars
    BY <1>7 DEF FillOrder, Matching, TypeOK
  <2>2. Current \in OrderData /\ bar.symbol \in Symbols
    BY <2>1, BookTypes DEF Current
  <2>3. PICK v \in Int : v = Current.volume
    BY <2>2 DEF OrderData
  <2>4. /\ book' = Move(book, next, "FILLED", v)
        /\ reported' = [reported EXCEPT ![next] = book'[next].status]
    BY <1>7, <2>3 DEF FillOrder
  <2>5. /\ \A s : PositionOfTrades(s)' = PositionOfTrades(s)
        /\ \A j \in DOMAIN book : /\ book'[j].symbol = book[j].symbol
                                 /\ book'[j].direction = book[j].direction
                                 /\ book'[j].volume = book[j].volume
    BY <2>1, <2>4, MoveKeepsTrades
  <2>6. Current'.symbol = bar.symbol /\ Signed(Current)' = Signed(Current)
    BY <2>1, <2>5 DEF Current, Signed
  <2> DEFINE p == FillPrice(Current, bar)
             q == bar.symbol
  <2>7. p \in Int
    BY <2>1, FillPriceInt
  <2>8. positions' = [positions EXCEPT ![q] = PositionAfter(@, Current, p)]
    BY <1>7 DEF FillOrder
  <2>9. /\ positions \in [Symbols -> [net : Int, avg : Int]]
        /\ positions[q] \in [net : Int, avg : Int]
    BY <2>2 DEF TypeOK
  <2> HIDE DEF p
  <2>10. PositionAfter(positions[q], Current, p).net = positions[q].net + Signed(Current)
    BY <2>2, <2>7, <2>9, PositionAfterType
  <2>11. \A s \in Symbols : positions'[s].net = IF s = q THEN positions[q].net + Signed(Current)
                                                ELSE positions[s].net
    BY <2>2, <2>8, <2>9, <2>10
  <2>12. \A s : Owed(s) = 0 /\ Owed(s)' = IF s = q THEN Signed(Current) ELSE 0
    BY <2>1, <2>6 DEF Owed
  <2> SUFFICES ASSUME ~raised, NEW s \in Symbols
               PROVE  positions'[s].net = PositionOfTrades(s)' + Owed(s)'
    BY <2>1 DEF PositionInv
  <2>13. positions[s].net = PositionOfTrades(s) + 0
    BY <2>12 DEF PositionInv
  <2>14. PICK a \in Int : a = PositionOfTrades(s)
    BY <1>a
  <2> QED
    BY <2>5, <2>11, <2>12, <2>13, <2>14
<1>8. CASE ReportTrade
  <2>1. \A s : PositionOfTrades(s)' = PositionOfTrades(s) + Owed(s)
    BY <1>8, ReportAddsTrade
  <2>2. UNCHANGED <<positions, raised>> /\ pc' = "traded"
    BY <1>8 DEF ReportTrade
  <2>3. \A s : Owed(s)' = 0
    BY <2>2 DEF Owed
  <2>4. next \in DOMAIN book
    BY <1>8 DEF ReportTrade, TypeOK
  <2>5. \A s : Owed(s) \in Int
    BY <2>4, BookTypes DEF Owed, Current, Signed
  <2>6. \A s : (PositionOfTrades(s) + Owed(s)) + 0 = PositionOfTrades(s) + Owed(s)
    BY <1>a, <2>5
  <2> QED
    BY <2>1, <2>2, <2>3, <2>6 DEF PositionInv
<1>9. ASSUME NEW b \in Bars, ProcessBar(b)
      PROVE  PositionInv'
  BY <1>2, <1>9 DEF ProcessBar
<1>10. CASE SkipOrder
  BY <1>2, <1>10 DEF SkipOrder
<1>11. CASE NextOrder
  BY <1>2, <1>11 DEF NextOrder
<1>12. CASE ReportBar
  BY <1>2, <1>12 DEF ReportBar
<1>13. CASE Return
  BY <1>2, <1>13 DEF Return
<1>14. CASE CallbackRaises
  BY <1>14 DEF CallbackRaises, PositionInv
<1>15. CASE UNCHANGED vars
  <2>1. \A s : PositionOfTrades(s)' = PositionOfTrades(s)
    BY <1>15, SameTrades DEF vars
  <2>2. \A s : Owed(s)' = Owed(s)
    BY <1>15 DEF Owed, Current, vars
  <2> QED
    BY <1>1, <1>15, <2>1, <2>2 DEF vars
<1> QED
  BY <1>3, <1>4, <1>5, <1>6, <1>7, <1>8, <1>9, <1>10, <1>11, <1>12, <1>13, <1>14, <1>15
     DEF Next, UserStep, LoopStep

LEMMA InitPosition == Init => PositionInv
<1> SUFFICES ASSUME Init, NEW s \in Symbols
             PROVE  positions[s].net = PositionOfTrades(s) + Owed(s)
  BY DEF PositionInv
<1>1. TradesOf(s) = {}
  BY DEF Init, TradesOf
<1>2. PositionOfTrades(s) = 0
  BY <1>1, SumEmpty DEF PositionOfTrades
<1>3. Owed(s) = 0 /\ positions[s].net = 0
  BY DEF Init, Owed
<1> QED
  BY <1>2, <1>3

(* Whoever adds up the trades passed to on_trade holds the position of the gateway,
   for any number of orders and whatever callbacks send and cancel in the middle of
   a bar, as long as none of them raised.                                          *)
THEOREM GatewayPositionIsSumOfTrades == Spec => []PositionIsSumOfTrades
<1>1. TypeOK /\ PositionInv => PositionIsSumOfTrades
  <2> SUFFICES ASSUME TypeOK, PositionInv, ~raised, pc # "filled", NEW s \in Symbols
               PROVE  positions[s].net = PositionOfTrades(s)
    BY DEF PositionIsSumOfTrades
  <2>1. Owed(s) = 0 /\ PositionOfTrades(s) \in Int
    BY TradesTyped DEF Owed
  <2>2. positions[s].net = PositionOfTrades(s) + 0
    BY <2>1 DEF PositionInv
  <2> QED
    BY <2>1, <2>2
<1> QED
  BY <1>1, InitPosition, StepPosition, GatewayTypeCorrect, PTL DEF Spec
=============================================================================
