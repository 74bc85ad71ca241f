SPECIFICATION Spec
CONSTANTS
    MaxTxs = 1
    MaxRetries = 1
    MaxMishaps = 0
PROPERTIES TerminalStatusesStay
CHECK_DEADLOCK FALSE
