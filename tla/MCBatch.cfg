\* One consumer and two messages, published and settled in batches, at three times.
SPECIFICATION Spec
CONSTANTS
    Names = {"w"}
    Topics = {}
    NULL = NULL
    MaxBatch = 2
    Leases = {1}
    Delays = {0}
    MaxLag = 1
    MaxTime = 2
    MaxMessages = 2
    MaxConsumers = 1
    MaxArchives = 1
    MaxGeneration = 2
CHECK_DEADLOCK FALSE
INVARIANTS
    Inv TypeOK
    StaleReceiptIsRejected LeaseIsExclusive ShortcutMissesNothing
    OnePlacePerMessage MessagesAreReferenced
    SnapshotsAreExact SnapshotsAgree QuietStoreIsPrunable
PROPERTIES EagerFanOut DrainedSnapshotsDelete
