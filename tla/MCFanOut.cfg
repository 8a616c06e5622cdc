SPECIFICATION Spec
CONSTANTS
    a = a
    b = b
    Names = {a, b}
    Topics = {"t"}
    NULL = NULL
    MaxBatch = 2
    Leases = {1}
    Delays = {0}
    MaxLag = 0
    MaxTime = 0
    MaxMessages = 2
    MaxConsumers = 2
    MaxArchives = 1
    MaxGeneration = 1
SYMMETRY NameSymmetry
CHECK_DEADLOCK FALSE
PROPERTIES
    CursorsNeverRetreat DrainedIsFinal EagerFanOut
