CONSTANTS
    Nodes = {n1}
    Runs = {r1}
    Trades = {t1}
    LeaseLength = 1
    MaxSkew = 0
    MaxEpoch = 1
    MaxFaults = 1
    Capacity = 2
    DailyCap = 2
    MaxAttempts = 2
    NoNode = NoNode
    NoRun = NoRun
    NoTrade = NoTrade
    Answered = Answered
SPECIFICATION LiveSignerSpec
INVARIANT SentOnceAndRecorded
PROPERTY EveryProposalAnswered
PROPERTY HaltStopsWhatArrives
