SPECIFICATION DataSpec
CONSTANTS
    Callers = {c1, c2}
    Adjusts = {"qfq", "hfq"}
    Calendars = {{1, 2, 3}, {2}}
    MaxDay = 3
    MaxBasis = 1
    Tables <- MCTables
    Spans <- MCSpans
    Factors <- MCFactors
    One = 2
    Modes = {"qfq", "hfq", ""}
    Limits <- MCLimits
    Starts = {0, 1, 3}
    PageLimit = 2
    PageCaps = {1, 2, 3}
    MaxCandle = 6
INVARIANTS
    NoHoles
    OnlyNewestIsPartial
    BasisGrowsWithDate
    AdjustedToNewest
    BadRowsAreRed
    CryptoPagesComplete
PROPERTIES
    CompleteFromOldest
SYMMETRY CallerSymmetry
