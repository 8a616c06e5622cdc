SPECIFICATION Spec
CONSTANTS
    Names = {"w"}
    Topics = {}
    NULL = NULL
    MaxBatch = 1
    Leases = {1}
    Delays = {0}
    MaxLag = 0
    MaxTime = 2
    MaxMessages = 1
    MaxConsumers = 1
    MaxArchives = 1
    MaxGeneration = 2
CHECK_DEADLOCK FALSE
INVARIANT ReceiptIsForOneAttempt
