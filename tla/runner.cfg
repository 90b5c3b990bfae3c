SPECIFICATION Spec
CONSTANTS
    s1 = s1
    s2 = s2
    Symbols <- TwoSymbols
    Bars <- BarsTwoSymbols
    Requests <- RequestsTwoSymbols
    MaxOrders = 3
    SlippagePct = 1
    CommissionPct = 2
    PriceLimitPct = 10
    MaxFillVolumePerBar = 2
    InitialCapital = 6000000
    MaxPositionPct = 30
    DailyLossPct = 2
    MaxOrderVolume = 3
INVARIANTS
    RiskMirrorsBooks
    EquityIsCurrent
    OrdersNotOverfilled
PROPERTIES
    FirstFillWithinCap
    FillConservesBookValue
    ImplementsLedger
