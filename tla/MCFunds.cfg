CONSTANTS
    Buys = {t1}
    Sells = {t2}
    Sweeps = {s1, s2}
    Withdrawals = {w1}
    Handlers = {h1, h2}
    Target = 2
    Earned = {1}
    Proceeds = {0, 2}
    MaxFaults = 1
    Nothing = Nothing
SPECIFICATION FundsSpec
SYMMETRY Symmetry
INVARIANT FundsTypeOK
INVARIANT BankedOnceWhileUp
INVARIANT TransfersAreTrue
CHECK_DEADLOCK FALSE
