SPECIFICATION FairSpec
CONSTANTS
    s1 = s1
    s2 = s2
    Symbols <- TwoSymbols
    Bars <- BarsTwoSymbols
    Requests <- RequestsTwoSymbols
    Capital = 6000000
    SlippagePct = 1
    CommissionPct = 2
    PriceLimitPct = 10
    MaxOrders = 3
    CallbacksMayCancel = TRUE
    CallbacksMayRaise = TRUE
INVARIANTS
    StatusIsReported
    PositionIsSumOfTrades
    NoOrderTradesTwice
    BarSettlesOrders
PROPERTIES
    ImplementsLifecycle
    ImplementsLedger
    BarIsFinished
