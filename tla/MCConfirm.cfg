CONSTANTS
    RealLast = 2
    ClaimedLast = 2
    MaxHeight = 5
    MaxForks = 2
SPECIFICATION ConfirmFair
INVARIANT ConfirmTypeOK
INVARIANT ExpiredNeverLands
INVARIANT LandedStays
PROPERTY TheChainAnswers
CHECK_DEADLOCK FALSE
