SPECIFICATION BackupSpec
CONSTANTS
    Procs = {op, p1}
    Artifacts <- TwoArtifacts
    Inputs <- TwoChain
    Paths = {1, 2}
    PathOf <- TwoPaths
    KeepsInputs = {}
    FaultKinds = {"death", "error", "power"}
    MaxFaults = 1
    MaxTime = 1
    Operator = op
    PinIds = {n1}
    RootSets <- PinOutput
    Retainable <- OutputOnly
    SizeOf <- TwoSmall
    MaxSweep = 2
    MinAge = 1
    Grace = 0
    MaxBatches = 2
    MaxGenerations = 1
CONSTRAINT BackupOrSweep
INVARIANTS
    BackupTypeOK
    PinnedStays
    RetainedStays
    LineageIsComplete
    TrashIsAsMarked
    GenerationsAreWhole
