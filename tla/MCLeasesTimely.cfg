CONSTANTS
    Nodes = {n1, n2}
    Runs = {r1, r2}
    NoNode = NoNode
    NoRun = NoRun
    LeaseLength = 3
    MaxSkew = 1
    MaxEpoch = 3
    MaxFaults = 2
SPECIFICATION TimelySpec
INVARIANT OneWorkerPerRun
PROPERTY EveryRunCloses
CHECK_DEADLOCK FALSE
