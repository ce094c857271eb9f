SPECIFICATION Spec
CONSTANTS
    Jobs = {j1, j2}
    Attempts = {a1, a2}
    Supervisors = {s1}
    Specs <- MCSpecs
    Types <- MCTypes
    TypeOf <- MCTypeOf
    Keys = {k1}
    FailureKinds <- MCFailureKinds
    None = None
    Delays = {1}
    LeaseDuration = 1
    Timeout = 1
    ProgressKept = 1
    MaxSequence = 1
    MaxTime = 1
SYMMETRY Symmetry
INVARIANTS
    TypeOK
    JobMirrorsAttempt
    OneJobPerKey
    SuccessIsVerified
    BackoffHonoured
PROPERTIES
    TerminalIsFinal
    VersionFence
    CancelFence
    ImplementsLifecycle
CHECK_DEADLOCK FALSE
