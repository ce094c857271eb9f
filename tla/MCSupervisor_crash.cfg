SPECIFICATION SupervisorSpec
CONSTANTS
    Jobs = {j1, j2}
    Attempts = {a1, a2}
    Supervisors = {s1, s2, s3}
    Specs <- OneSpec
    Types <- OneType
    TypeOf <- OneTypeOf
    Keys = {k1, k2}
    FailureKinds <- AllKinds
    None = None
    Delays = {}
    LeaseDuration = 1
    Timeout = 1
    ProgressKept = 1
    MaxSequence = 0
    MaxTime = 0
    LaneOf <- OneLane
    LaneLimit <- OneEach
    MaxChildren = 2
    MaxAttempts = 2
    Retryable <- ProductionRetryable
    BaseBackoff = 1
    MaxBackoff = 1
    ExitKinds = {"TRANSIENT"}
    DiskLevels = {"ample", "emergency"}
    FaultPoints <- Anywhere
    MaxOutages = 2
    MaxTries = 1
CONSTRAINT OneWithdrawn
SYMMETRY Symmetry
INVARIANTS
    SupervisorTypeOK
    MemoryMatchesQueue
    RecoverableRows
    ChildrenWithinBudget
    ReservationsMatch
    ChildEndsFirst
    AutomaticRetriesBounded
PROPERTIES
    CancelPrevails
