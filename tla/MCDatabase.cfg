CONSTANTS
    Tables = {"leases", "ledger", "lifecycle", "signIn"}
    \* Leases
    Nodes = {a1, a2}
    Runs = {b1, b2}
    NoNode = NoNode
    NoRun = NoRun
    LeaseLength = 2
    MaxSkew = 1
    MaxEpoch = 2
    MaxFaults = 1
    \* Ledger
    Writers = {a1, a2}
    Trades = {c1, c2, c3}
    Amounts = {1, 3}
    Grants = {2, 4}
    FeeAllowance = 1
    Fees = {0, 2}
    MaxBegun = 5
    NoWriter = NoWriter
    NoTrade = NoTrade
    \* Lifecycle
    Acting = {a1, a2}
    MaxStamp = 5
    Nobody = Nobody
    \* SignIn
    Wallets = {a1, a2}
    Nonces = {b1, b2}
    Owners = {d1, d2}
    Requests = {c1, c2, c3}
    NonceValid = 1
    SessionValid = 1
    MaxClock = 2
    NoWallet = NoWallet
    NoOwner = NoOwner
SPECIFICATION DatabaseSpec
SYMMETRY Symmetry
INVARIANT TypeOK
INVARIANT DatabaseTypeOK
INVARIANT OneHolderPerEpoch
INVARIANT ClosedWithItsOutcome
INVARIANT BudgetIsWhole
INVARIANT AcceptedIsHeld
INVARIANT DeployedWithinGrant
INVARIANT StoppedIsFinal
INVARIANT ToldAsItIs
INVARIANT NonceAnsweredOnce
INVARIANT SignedInAsItself
PROPERTY OnlyTheHolderReports
CHECK_DEADLOCK FALSE
