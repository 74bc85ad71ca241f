SPECIFICATION FairSpec
CONSTANTS
    Jobs = {"gen", "mail", "legacy", "junk"}
    Workers = {"main"}
    PdfWorkers = {}
    Slots = {1, 2}
    MaxRetries = 2
    DlqMax = 1
    MaxMishaps = 1
    MaxStops = 1
    Queues <- MCQueues
    Priority <- MCPriority
    QueueOf <- MCQueueOf
    KindOf <- MCKindOf
INVARIANTS TypeOK JobConserved DeadLettersExhausted
PROPERTIES ImplementsContract EveryJobSettles QueuesDrain
CHECK_DEADLOCK FALSE
