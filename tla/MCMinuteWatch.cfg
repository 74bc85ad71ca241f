SPECIFICATION FairSpec
CONSTANTS
    Txs = {"tx1"}
    Filters = {"all", "all2", "client"}
    NoFilter = "all"
    FirstPage <- FirstPages
    MaxRetries = 1
    MaxAnswers = 1
    MaxFetches = 1
INVARIANTS TypeOK OneTrueNotice ListIsCurrent
PROPERTIES EveryTxTold
CHECK_DEADLOCK FALSE
