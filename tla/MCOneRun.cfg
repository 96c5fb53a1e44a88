CONSTANTS
    Loops = {"trader"}
    \* Trader
    Runs = {r1, r2}
    Callers = {c1, c2}
    Tokens = {k1}
    StartCash = 4
    Spends = {2}
    Received = {2}
    Quotes = {0, 3}
    NetworkFee = 1
    MaxPerTrade = 2
    MaxPositions = 1
    StopLossPct = 50
    DrawdownPct = 50
    MaxFills = 2
    MaxRestarts = 1
    NoRun = NoRun
    \* Alerts
    Events = {e1}
    Window = 1
    MaxSends = 1
    \* Watcher
    Prices = {3}
    Halves = {1}
    FloorGap = 1
    Margin = 1
    MaxRuns = 1
SPECIFICATION LoopsSpec
SYMMETRY Symmetry
INVARIANT OneRunPerOwner
CHECK_DEADLOCK FALSE
