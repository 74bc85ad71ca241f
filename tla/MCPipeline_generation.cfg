SPECIFICATION FairSpec
CONSTANTS
    MaxTxs = 2
    MaxRetries = 2
    MaxMishaps = 1
INVARIANTS TypeOK InProgressHasLiveTx ContentHasSnapshot CompletedEventTruthful NoAbandonedTx SnapshotObjectKept
PROPERTIES ImplementsGeneration GenerationEnds NeverStuck EveryTxAnnounced
CHECK_DEADLOCK FALSE
