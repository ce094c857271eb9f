SPECIFICATION CatalogSpec
CONSTANTS
    Procs = {c, p1, p2}
    Controller = c
    BuildKeys <- TwoKeys
    BuildKeyOf <- KeysCollide
    Artifacts <- FourArtifacts
    Inputs <- SnapshotsAndRuns
    Paths = {"first", "second", "run"}
    PathOf <- RunPath
    KeepsInputs = {}
    FaultKinds = {"death", "error", "power"}
    MaxFaults = 2
    MaxTime = 1
CONSTRAINT CollisionOrRuns
INVARIANTS
    CatalogTypeOK
    KnownIsDurable
    LeasedIsWhole
    LineageSurvives
    NoWaitCycle
    CleanIsExact
PROPERTIES
    SessionIsComplete
SYMMETRY ChildSymmetry
