SPECIFICATION StoreSpec
CONSTANTS
    Procs = {p1, p2}
    Artifacts <- ThreeArtifacts
    Inputs <- SnapshotAndRuns
    Paths = {"snapshot", "run"}
    PathOf <- RunPath
    KeepsInputs = {p1, p2}
    FaultKinds = {"death"}
    MaxFaults = 1
    MaxTime = 0
INVARIANTS
    NoWaitCycle
