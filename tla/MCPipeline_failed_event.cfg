SPECIFICATION Spec
CONSTANTS
    MaxTxs = 1
    MaxRetries = 2
    MaxMishaps = 1
INVARIANTS FailureIsFinal
CHECK_DEADLOCK FALSE
