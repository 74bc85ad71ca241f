SPECIFICATION Spec
CONSTANTS
    Observations = {o1}
    Texts = {t1, t2}
    NoText = t0
    MaxInFlight = 2
CONSTRAINT SomethingToCheck
SYMMETRY Symmetry
INVARIANTS TypeOK BaselineIsStored OwnMovesFit InsertedStays
CHECK_DEADLOCK FALSE
