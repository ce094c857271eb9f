SPECIFICATION ParitySpec
CONSTANTS
    AmountIn = 3
    MinimumOut = 2
    FeeBps = 3400
    MaximumInput = 3
    None = None
    Replays <- MCReplays
INVARIANT CanonicalParity
CHECK_DEADLOCK FALSE
