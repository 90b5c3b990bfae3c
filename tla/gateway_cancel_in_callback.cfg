SPECIFICATION Spec
CONSTANTS
    s1 = s1
    s2 = s2
    Symbols <- OneSymbol
    Bars <- BarsOneSymbol
    Requests <- RequestsOneSymbol
    Capital = 6000000
    SlippagePct = 1
    CommissionPct = 2
    PriceLimitPct = 10
    MaxOrders = 3
    CallbacksMayCancel = TRUE
    CallbacksMayRaise = FALSE
PROPERTIES
    OnlyOpenOrdersFill
