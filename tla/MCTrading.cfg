SPECIFICATION TradingSpec
CONSTANTS
    Trips = {t1, t2, t3}
    Mints = {m1, m2, m3}
    Developers = {d1, d2}
    Quote = sol
    Native = gas
    Budget = 2
    Paid = {1, 2}
    Fees = {1}
    MintDeposit = 2
    UvaDeposit = 3
    Tokens = {1}
    Proceeds = {1}
    BuyDelay = 2
    SellDelay = 1
    HoldTime = 1
    Cooldown = 1
    ObservationDelay = 1
    RetryDelay = 1
    MaximumSellAttempts = 3
    Runs <- MCRuns
    None = None
SYMMETRY Symmetry
INVARIANTS
    SettlementTypeOK
    NeverAborts
    ReservedIsInFlight
    BooksExplained
    DepositsLockedOnce
    EveryTripPursued
    CooldownHolds
    SettledInTime
CHECK_DEADLOCK FALSE
