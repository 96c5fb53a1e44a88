CONSTANTS
    Loops = {"trader", "alerts", "watcher"}
    \* Trader
    Runs = {r1, r2}
    Callers = {c1, c2}
    Tokens = {k1}
    StartCash = 4
    Spends = {2}
    Received = {2}
    Quotes = {0, 3}
    NetworkFee = 1
    MaxPerTrade = 2
    MaxPositions = 1
    StopLossPct = 50
    DrawdownPct = 50
    MaxFills = 2
    MaxRestarts = 1
    NoRun = NoRun
    \* Alerts
    Events = {e1, e2, e3}
    Window = 2
    MaxSends = 2
    \* Watcher
    Prices = {3, 4, 5}
    Halves = {1, 2}
    FloorGap = 1
    Margin = 1
    MaxRuns = 3
SPECIFICATION LoopsSpec
SYMMETRY Symmetry
INVARIANT LoopsTypeOK
INVARIANT BookAddsUp
INVARIANT ToldTwiceOnlyUnmarked
INVARIANT ToldInOrder
INVARIANT FiresOnCrossings
INVARIANT OnePosition
INVARIANT RestsAfterTheFloor
PROPERTY SavedTicksAreKept
PROPERTY EndedStaysEnded
CHECK_DEADLOCK FALSE
