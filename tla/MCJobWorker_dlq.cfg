SPECIFICATION Spec
CONSTANTS
    Jobs = {"mail", "mail2", "doc", "doc2"}
    Workers = {"main", "pdf"}
    PdfWorkers = {"pdf"}
    Slots = {1}
    MaxRetries = 1
    DlqMax = 1
    MaxMishaps = 0
    MaxStops = 0
    Queues <- MCQueues
    Priority <- MCPriority
    QueueOf <- MCQueueOf
    KindOf <- MCKindOf
INVARIANTS DlqBounded
CHECK_DEADLOCK FALSE
