SPECIFICATION Spec
CONSTANTS
    s1 = s1
    s2 = s2
    Symbols <- OneSymbol
    Bars <- BarsOneSymbol
    Requests <- RequestsOneSymbol
    MaxOrders = 3
    SlippagePct = 1
    CommissionPct = 1
    PriceLimitPct = 10
    MaxFillVolumePerBar = 2
    InitialCapital = 6000000
    MaxPositionPct = 30
    DailyLossPct = 2
    MaxOrderVolume = 3
PROPERTIES
    PartialCloseKeepsAverage
