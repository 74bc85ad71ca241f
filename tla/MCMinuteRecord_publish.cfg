SPECIFICATION Spec
CONSTANTS
    o1 = o1
    o2 = o2
    Contents <- MCContents
    AiContent = "ai"
    Observations <- MCObservations
    MaxVersions = 1
    MaxMishaps = 0
    MaxOverlaps = 0
SYMMETRY ObservationSymmetry
INVARIANTS PublishedIsSettled
CHECK_DEADLOCK FALSE
