CONSTANTS
    Buys = {t1}
    Sells = {}
    Sweeps = {s1}
    Withdrawals = {w1}
    Handlers = {h1}
    Target = 2
    Earned = {1}
    Proceeds = {0, 2}
    MaxFaults = 0
    Nothing = Nothing
SPECIFICATION FundsSpec
SYMMETRY Symmetry
INVARIANT FailedSolStays
CHECK_DEADLOCK FALSE
