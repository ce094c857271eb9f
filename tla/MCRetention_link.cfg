SPECIFICATION BackupSpec
CONSTANTS
    Procs = {op, p1}
    Artifacts <- TwoArtifacts
    Inputs <- TwoChain
    Paths = {1, 2}
    PathOf <- TwoPaths
    KeepsInputs = {}
    FaultKinds = {"death"}
    MaxFaults = 1
    MaxTime = 0
    Operator = op
    PinIds = {n1}
    RootSets <- PinOutput
    Retainable <- OutputOnly
    SizeOf <- TwoSmall
    MaxSweep = 2
    MinAge = 0
    Grace = 0
    MaxBatches = 1
    MaxGenerations = 1
INVARIANTS
    PinsAreReadable
