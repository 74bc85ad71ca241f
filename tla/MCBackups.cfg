SPECIFICATION Spec
CONSTANTS
    MaxOps = 2
    FirstPackages = 2
    MaxPackages = 4
    MaxRetries = 2
    MaxMishaps = 1
CONSTRAINT OneLessBesideAPush
INVARIANTS BackupsTypeOK CompletedHasPackage RetentionKeepsOne CancelSticks ActiveIsUnderway
CHECK_DEADLOCK FALSE
