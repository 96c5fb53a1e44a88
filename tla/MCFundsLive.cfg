CONSTANTS
    Buys = {t1}
    Sells = {}
    Sweeps = {s1, s2}
    Withdrawals = {}
    Handlers = {h1, h2}
    Target = 2
    Earned = {1}
    Proceeds = {0, 2}
    MaxFaults = 1
    Nothing = Nothing
SPECIFICATION TimelyFunds
PROPERTY SweepsAreFinished
CHECK_DEADLOCK FALSE
