SPECIFICATION Spec
CONSTANTS
    a = a
    b = b
    c = c
    Sessions = {t1, t2}
    Symbols = {a, b, c}
    Portfolios <- MCPortfolios
    Cached = {a, b}
    Combos = {1, 2, 3, 4}
    Grids <- MCGrids
    Score <- MCScore
    NegInf <- MCNegInf
    Jobs = 2
    Versions = {v1, v2}
    Uses <- MCUses
SYMMETRY SessionsAlike
INVARIANTS
    ThreadSafeRegistry
