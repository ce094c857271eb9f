SPECIFICATION FairSpec
CONSTANTS
    Jobs = {j1}
    Attempts = {a1, a2}
    Supervisors = {s1, s2, s3}
    Specs <- OneSpec
    Types <- OneType
    TypeOf <- OneTypeOf
    Keys = {k1}
    FailureKinds <- AllKinds
    None = None
    Delays = {}
    LeaseDuration = 2
    Timeout = 2
    ProgressKept = 1
    MaxSequence = 0
    MaxTime = 0
    LaneOf <- OneLane
    LaneLimit <- OneEach
    MaxChildren = 1
    MaxAttempts = 2
    Retryable <- ProductionRetryable
    BaseBackoff = 1
    MaxBackoff = 1
    ExitKinds = {"TRANSIENT", "USER_ERROR"}
    DiskLevels = {"ample"}
    FaultPoints <- OutsideRegistration
    MaxOutages = 1
    MaxTries = 2
PROPERTIES
    JobEnds
