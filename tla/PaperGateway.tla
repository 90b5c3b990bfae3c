----------------------------- MODULE PaperGateway -----------------------------
(****************************************************************************)
(* PaperGateway (src/trading/paper_gateway.py): the simulated exchange a    *)
(* strategy trades against, with its order book, cash and positions.        *)
(*                                                                          *)
(* Callbacks are called synchronously, so user code runs in the middle of   *)
(* process_bar: after an order was cancelled or filled, after a trade and   *)
(* at the end.  There it may send and cancel orders, which calls on_order   *)
(* again from inside the callback; when such a nested call returns, nothing *)
(* is left to do, so the depth of the nesting is not part of the state.  A  *)
(* callback may also raise, which leaves process_bar where it stands.       *)
(* User code does not call process_bar from a callback.                     *)
(****************************************************************************)
EXTENDS OrderBook, FiniteSets, Functions

CONSTANTS
    Symbols,             \* symbols traded
    Bars,                \* bars that may be fed: [symbol, open, close]
    Requests,            \* orders user code may send: [symbol, direction, type, price, volume]
    Capital,             \* initial_capital
    SlippagePct, CommissionPct, PriceLimitPct,     \* settings.yaml, in percent
    MaxOrders,           \* bound: orders sent during a behaviour
    CallbacksMayCancel,  \* may user code cancel orders from inside a callback?
    CallbacksMayRaise    \* may a callback raise?

GatewayBar == [symbol : Symbols, open : Nat, close : Nat]
GatewayRequest == [symbol : Symbols, direction : {"LONG", "SHORT"},
                   type : {"LIMIT", "MARKET"}, price : Nat, volume : Nat \ {0}]

ASSUME GatewayAssumption ==
    /\ Bars \subseteq GatewayBar
    /\ Requests \subseteq GatewayRequest
    /\ Capital \in Nat
    /\ SlippagePct \in 0 .. 99
    /\ CommissionPct \in Nat
    /\ PriceLimitPct \in 0 .. 99
    /\ MaxOrders \in Nat
    /\ CallbacksMayCancel \in BOOLEAN
    /\ CallbacksMayRaise \in BOOLEAN

VARIABLES
    pc,          \* where control is: in user code or in the loop of process_bar
    bar,         \* the bar being processed
    prevClose,   \* the price its limits are taken around
    snapshot,    \* list(open_orders()), taken when the bar arrived
    next,        \* the order the loop is at, in the order of the ids
    raised,      \* a callback raised at some time
    book,        \* order_book
    cash, positions, latestPrice,
    reported,    \* per order: the status last passed to on_order
    tradedVol,   \* per order: the volume passed to on_trade
    arrived,     \* orders the book had when the bar arrived
    withdrawn    \* orders user code cancelled since

loopVars == <<pc, bar, prevClose, snapshot, next, raised>>
moneyVars == <<cash, positions>>
historyVars == <<arrived, withdrawn>>
vars == <<loopVars, moneyVars, book, latestPrice, reported, tradedVol, historyVars>>

(* User code runs outside process_bar ("user") or in one of its callbacks. *)
Callbacks == {"cancelled", "filled", "traded", "bar"}
InUserCode == pc \in Callbacks \cup {"user"}

NoBar == [open |-> 0]
NoPrice == -1        \* the symbol is not in _latest_price

OrderData ==
    [symbol : Symbols, direction : {"LONG", "SHORT"}, type : {"LIMIT", "MARKET"},
     price : Nat, volume : Nat \ {0}, filled : Int, status : GatewayStatuses]

Signed(o) == IF o.direction = "LONG" THEN o.volume ELSE -o.volume

Init ==
    /\ pc = "user"
    /\ bar = NoBar
    /\ prevClose = 0
    /\ snapshot = {}
    /\ next = 1
    /\ raised = FALSE
    /\ book = << >>
    /\ cash = Capital
    /\ positions = [s \in Symbols |-> [net |-> 0, avg |-> 0]]
    /\ latestPrice = [s \in Symbols |-> NoPrice]
    /\ reported = << >>
    /\ tradedVol = << >>
    /\ arrived = 0
    /\ withdrawn = {}

-----------------------------------------------------------------------------
(* User code, at the top level or inside a callback. *)

Subscribe(s) ==
    /\ InUserCode
    /\ latestPrice[s] = NoPrice
    /\ latestPrice' = [latestPrice EXCEPT ![s] = 0]
    /\ UNCHANGED <<loopVars, moneyVars, book, reported, tradedVol, historyVars>>

(* send_order: the order is added, accepted and reported at once. *)
SendOrder(r) ==
    /\ InUserCode
    /\ Len(book) < MaxOrders
    /\ book' = Append(book,
                  [symbol |-> r.symbol, direction |-> r.direction, type |-> r.type,
                   price |-> r.price, volume |-> r.volume, filled |-> 0,
                   status |-> "ACCEPTED"])
    /\ reported' = Append(reported, "ACCEPTED")
    /\ tradedVol' = Append(tradedVol, 0)
    /\ UNCHANGED <<loopVars, moneyVars, latestPrice, historyVars>>

CancelOrder(i) ==
    /\ InUserCode
    /\ pc = "user" \/ CallbacksMayCancel
    /\ MayMove(book, i, "CANCELLED")
    /\ book' = Move(book, i, "CANCELLED", 0)
    /\ reported' = [reported EXCEPT ![i] = "CANCELLED"]
    /\ withdrawn' = IF pc = "user" THEN {} ELSE withdrawn \cup {i}
    /\ UNCHANGED <<loopVars, moneyVars, latestPrice, tradedVol, arrived>>

(* process_bar is called: the limits are taken around the previous price and
   the open orders of all symbols are copied.                               *)
ProcessBar(b) ==
    /\ pc = "user"
    /\ pc' = "match"
    /\ bar' = b
    /\ prevClose' = IF latestPrice[b.symbol] = NoPrice THEN b.close ELSE latestPrice[b.symbol]
    /\ latestPrice' = [latestPrice EXCEPT ![b.symbol] = b.close]
    /\ snapshot' = OpenOrders(book)
    /\ arrived' = Len(book) /\ withdrawn' = {}
    /\ UNCHANGED <<next, raised, moneyVars, book, reported, tradedVol>>

-----------------------------------------------------------------------------
(* The loop over the snapshot. *)

Current == book[next]

LimitLocked(o) ==
    \/ o.direction = "LONG"  /\ bar.close * 100 >= prevClose * (100 + PriceLimitPct)
    \/ o.direction = "SHORT" /\ bar.close * 100 <= prevClose * (100 - PriceLimitPct)

PriceMet(o) ==
    \/ o.type = "MARKET"
    \/ o.direction = "LONG"  /\ bar.open <= o.price
    \/ o.direction = "SHORT" /\ bar.open >= o.price

FillPrice(o, b) ==
    (b.open * (IF o.direction = "LONG" THEN 100 + SlippagePct ELSE 100 - SlippagePct)) \div 100

CommissionOn(price, volume) == (price * volume * CommissionPct) \div 100

Matching_LiveList == pc = "match" /\ next \in DOMAIN book /\ IsOpen(book, next)
Matching == pc = "match" /\ next \in snapshot
MoreToTry == \E i \in snapshot : i >= next

(* An order that was not open when the bar arrived is not in the list, one of
   another symbol or a limit order the open does not satisfy is passed over. *)
SkipOrder_Stuck ==
    /\ pc = "match"
    /\ MoreToTry
    /\ \/ next \notin snapshot
       \/ Current.symbol # bar.symbol
       \/ ~LimitLocked(Current) /\ ~PriceMet(Current)
    /\ UNCHANGED vars
SkipOrder ==
    /\ pc = "match"
    /\ MoreToTry
    /\ \/ next \notin snapshot
       \/ Current.symbol # bar.symbol
       \/ ~LimitLocked(Current) /\ ~PriceMet(Current)
    /\ next' = next + 1
    /\ UNCHANGED <<pc, bar, prevClose, snapshot, raised, moneyVars, book, latestPrice, reported,
                   tradedVol, historyVars>>

(* The bar closed at the price limit: the order is cancelled, and on_order is
   called whether or not the transition was allowed.                        *)
LimitCancel_Silent ==
    /\ Matching
    /\ Current.symbol = bar.symbol
    /\ LimitLocked(Current)
    /\ book' = Move(book, next, "CANCELLED", 0)
    /\ pc' = "cancelled"
    /\ UNCHANGED <<bar, prevClose, snapshot, next, raised, moneyVars, latestPrice, reported, tradedVol,
                   historyVars>>
LimitCancel ==
    /\ Matching
    /\ Current.symbol = bar.symbol
    /\ LimitLocked(Current)
    /\ book' = Move(book, next, "CANCELLED", 0)
    /\ reported' = [reported EXCEPT ![next] = book'[next].status]
    /\ pc' = "cancelled"
    /\ UNCHANGED <<bar, prevClose, snapshot, next, raised, moneyVars, latestPrice, tradedVol,
                   historyVars>>

(* _apply_fill up to its first callback.  Cash and position change before the
   transition to FILLED is tried, and its result is ignored: an order that a
   callback cancelled since the snapshot was taken is filled all the same.  *)
PositionAfter(pos, o, price) ==
    LET net == pos.net + Signed(o)
        cost == pos.avg * pos.net + price * o.volume
    IN  IF o.direction = "LONG"
        THEN [net |-> net,
              avg |-> CASE net > 0 -> cost \div net
                        [] net < 0 -> (-cost) \div (-net)
                        [] OTHER   -> 0]
        ELSE [net |-> net, avg |-> IF net = 0 THEN 0 ELSE pos.avg]

CashAfter_FeeOnBuysOnly(o, price) ==
    IF o.direction = "LONG"
    THEN cash - (price * o.volume + CommissionOn(price, o.volume))
    ELSE cash + price * o.volume
CashAfter(o, price) ==
    IF o.direction = "LONG"
    THEN cash - (price * o.volume + CommissionOn(price, o.volume))
    ELSE cash + (price * o.volume - CommissionOn(price, o.volume))

FillOrder_MoneyOnlyIfOpen ==
    /\ Matching
    /\ Current.symbol = bar.symbol
    /\ ~LimitLocked(Current)
    /\ PriceMet(Current)
    /\ IF MayMove(book, next, "FILLED")
       THEN /\ cash' = CashAfter(Current, FillPrice(Current, bar))
            /\ positions' = [positions EXCEPT ![bar.symbol] =
                                PositionAfter(@, Current, FillPrice(Current, bar))]
       ELSE UNCHANGED moneyVars
    /\ book' = Move(book, next, "FILLED", Current.volume)
    /\ reported' = [reported EXCEPT ![next] = book'[next].status]
    /\ pc' = "filled"
    /\ UNCHANGED <<bar, prevClose, snapshot, next, raised, latestPrice, tradedVol, historyVars>>
FillOrder ==
    /\ Matching
    /\ Current.symbol = bar.symbol
    /\ ~LimitLocked(Current)
    /\ PriceMet(Current)
    /\ cash' = CashAfter(Current, FillPrice(Current, bar))
    /\ positions' = [positions EXCEPT ![bar.symbol] =
                        PositionAfter(@, Current, FillPrice(Current, bar))]
    /\ book' = Move(book, next, "FILLED", Current.volume)
    /\ reported' = [reported EXCEPT ![next] = book'[next].status]
    /\ pc' = "filled"
    /\ UNCHANGED <<bar, prevClose, snapshot, next, raised, latestPrice, tradedVol, historyVars>>

(* on_order returned: the trade is passed to on_trade. *)
ReportTrade ==
    /\ pc = "filled"
    /\ tradedVol' = [tradedVol EXCEPT ![next] = @ + Current.volume]
    /\ pc' = "traded"
    /\ UNCHANGED <<bar, prevClose, snapshot, next, raised, moneyVars, book, latestPrice, reported,
                   historyVars>>

(* The last callback about the current order returned: on to the next. *)
NextOrder_AdvancesAfterCancelOnly ==
    /\ pc \in {"cancelled", "traded"}
    /\ pc' = "match"
    /\ next' = IF pc = "cancelled" THEN next + 1 ELSE next
    /\ UNCHANGED <<bar, prevClose, snapshot, raised, moneyVars, book, latestPrice, reported,
                   tradedVol, historyVars>>
NextOrder ==
    /\ pc \in {"cancelled", "traded"}
    /\ pc' = "match"
    /\ next' = next + 1
    /\ UNCHANGED <<bar, prevClose, snapshot, raised, moneyVars, book, latestPrice, reported,
                   tradedVol, historyVars>>

(* Every order was tried: on_bar is called. *)
ReportBar ==
    /\ pc = "match"
    /\ ~MoreToTry
    /\ pc' = "bar"
    /\ UNCHANGED <<bar, prevClose, snapshot, next, raised, moneyVars, book, latestPrice, reported,
                   tradedVol, historyVars>>

Return ==
    /\ pc = "bar"
    /\ pc' = "user"
    /\ bar' = NoBar
    /\ prevClose' = 0
    /\ snapshot' = {}
    /\ next' = 1
    /\ arrived' = 0 /\ withdrawn' = {}
    /\ UNCHANGED <<raised, moneyVars, book, latestPrice, reported, tradedVol>>

(* A callback raises: process_bar is left with the rest of the snapshot
   untried, and with whatever it had still to report unreported.            *)
CallbackRaises ==
    /\ CallbacksMayRaise
    /\ pc \in Callbacks
    /\ pc' = "user"
    /\ bar' = NoBar
    /\ prevClose' = 0
    /\ snapshot' = {}
    /\ next' = 1
    /\ raised' = TRUE
    /\ arrived' = 0 /\ withdrawn' = {}
    /\ UNCHANGED <<moneyVars, book, latestPrice, reported, tradedVol>>

UserStep ==
    \/ \E s \in Symbols : Subscribe(s)
    \/ \E r \in Requests : SendOrder(r)
    \/ \E i \in DOMAIN book : CancelOrder(i)
    \/ \E b \in Bars : ProcessBar(b)

LoopStep ==
    \/ SkipOrder
    \/ LimitCancel
    \/ FillOrder
    \/ ReportTrade
    \/ NextOrder
    \/ ReportBar
    \/ Return

Next == UserStep \/ LoopStep \/ CallbackRaises

Spec == Init /\ [][Next]_vars

(* Callbacks return: then the loop, which never waits, makes progress. *)
FairSpec == Spec /\ WF_vars(LoopStep)

-----------------------------------------------------------------------------
(* Every variable holds a value of its type; the snapshot names orders of the
   book and is only there while a bar is processed.                         *)
TypeOK ==
    /\ pc \in Callbacks \cup {"user", "match"}
    /\ IF pc = "user" THEN bar = NoBar /\ snapshot = {} /\ next = 1 ELSE bar \in Bars
    /\ pc = "user" => withdrawn = {}
    /\ arrived \in 0 .. Len(book) /\ withdrawn \subseteq DOMAIN book
    /\ prevClose \in Nat
    /\ snapshot \subseteq DOMAIN book
    /\ next \in Nat \ {0}
    /\ pc \in {"cancelled", "filled", "traded"} => next \in snapshot
    /\ raised \in BOOLEAN
    /\ book \in Seq(OrderData)
    /\ cash \in Int
    /\ positions \in [Symbols -> [net : Int, avg : Int]]
    /\ latestPrice \in [Symbols -> Nat \cup {NoPrice}]
    /\ reported \in Seq(GatewayStatuses)
    /\ tradedVol \in Seq(Nat)
    /\ Len(reported) = Len(book) /\ Len(tradedVol) = Len(book)

(* "Call self._on_order(order) whenever order status changes": whoever follows
   on_order knows the true status of every order, whatever callbacks did in
   the middle of a bar, raising included.                                   *)
StatusIsReported == \A i \in DOMAIN book : reported[i] = book[i].status

(* Whoever adds up the trades passed to on_trade holds the gateway's position,
   except while a fill is being reported and unless a callback raised.      *)
TradesOf(s) == {i \in DOMAIN book : book[i].symbol = s}
SignedTrade ==
    [i \in DOMAIN book |-> IF book[i].direction = "LONG" THEN tradedVol[i] ELSE -tradedVol[i]]
PositionOfTrades(s) == SumFunctionOnSet(SignedTrade, TradesOf(s))
PositionIsSumOfTrades ==
    ~raised /\ pc # "filled" => \A s \in Symbols : positions[s].net = PositionOfTrades(s)

(* No order trades more than once, even when callbacks cancel orders that are
   about to be filled.                                                      *)
NoOrderTradesTwice == \A i \in DOMAIN book : tradedVol[i] <= book[i].volume

(* When the loop is through, a bar has settled every order of its symbol that
   was open when it arrived, as the documented rules say: cancelled at the
   price limit and not traded, else traded in full if it could be, else left
   open; or user code withdrew it meanwhile.  Orders of other symbols and those
   sent by callbacks meanwhile are neither traded nor cancelled by the bar.  The
   limits are those of the code, around 0.0 at the first bar of a subscribed
   symbol.                                                                    *)
AtLimit(o) ==
    IF o.direction = "LONG" THEN bar.close * 100 >= prevClose * (100 + PriceLimitPct)
                            ELSE bar.close * 100 <= prevClose * (100 - PriceLimitPct)
Tradable(o) ==
    o.type = "MARKET" \/ IF o.direction = "LONG" THEN bar.open <= o.price ELSE bar.open >= o.price
Untouched(i) == tradedVol[i] = 0 /\ (i \in withdrawn \/ IsOpen(book, i))
Settled(i) ==
    IF AtLimit(book[i]) THEN book[i].status = "CANCELLED" /\ tradedVol[i] = 0
    ELSE IF Tradable(book[i])
    THEN i \in withdrawn \/ (book[i].status = "FILLED" /\ tradedVol[i] = book[i].volume)
    ELSE Untouched(i)
BarSettlesOrders ==
    pc = "bar" =>
        \A i \in DOMAIN book :
            IF i \in snapshot /\ book[i].symbol = bar.symbol THEN Settled(i)
            ELSE i \in snapshot \/ i > arrived => Untouched(i)

(* A terminal status is final, for the order and for the money: only an open
   order is filled.  It takes user code that cancels no order from inside a
   callback.                                                                *)
OnlyOpenOrdersFill ==
    [][ pc = "match" /\ pc' = "filled" => IsOpen(book, next) ]_vars

(* process_bar ends, however many orders the callbacks send meanwhile. *)
BarIsFinished == pc # "user" ~> pc = "user"

FillPrices == {FillPrice(r, b) : r \in Requests, b \in Bars}
OrderVolumes == {r.volume : r \in Requests}

(* Orders move as the OMS diagram says. *)
Lifecycle == INSTANCE OrderLifecycle WITH
                 Ids     <- 1 .. MaxOrders,
                 Volumes <- OrderVolumes,
                 status  <- [i \in 1 .. MaxOrders |->
                                IF i \in DOMAIN book THEN book[i].status ELSE "NEW"],
                 filled  <- [i \in 1 .. MaxOrders |->
                                IF i \in DOMAIN book THEN book[i].filled ELSE 0]
ImplementsLifecycle == Lifecycle!Spec

(* Cash and positions move only together, in fills. *)
Account == INSTANCE Ledger WITH
               Prices  <- FillPrices,
               Volumes <- OrderVolumes,
               Fee     <- CommissionOn,
               net     <- [s \in Symbols |-> positions[s].net]
ImplementsLedger == Account!Spec
==============================================================================
