SPECIFICATION Spec
CONSTANTS
    o1 = o1
    o2 = o2
    Contents <- MCContents
    AiContent = "ai"
    Observations <- MCObservations
    MaxVersions = 1
    MaxMishaps = 0
    MaxOverlaps = 1
SYMMETRY ObservationSymmetry
INVARIANTS SnapshotHoldsDraft
CHECK_DEADLOCK FALSE
