CONSTANTS
    Nodes = {n1, n2}
    Runs = {r1}
    Trades = {t1, t2}
    LeaseLength = 1
    MaxSkew = 0
    MaxEpoch = 2
    MaxFaults = 1
    Capacity = 2
    DailyCap = 2
    MaxAttempts = 1
    NoNode = NoNode
    NoRun = NoRun
    NoTrade = NoTrade
    Answered = Answered
SPECIFICATION TradeSpec
SYMMETRY Symmetry
INVARIANT OneBuyPerOccurrence
