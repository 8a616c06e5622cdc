\* Two calls race with time and each other: batches of up to two with two keys, and windows
\* that are over, or not, one moment later.
CONSTANTS
    p1 = p1
    p2 = p2
    k1 = k1
    k2 = k2
    b1 = b1
    Publishers = {p1, p2}
    Keys = {k1, k2}
    Bodies = {b1}
    NULL = NULL
    Windows = {1, 2}
    MaxBatch = 2
    MaxTime = 1
    MaxMessages = 3
SPECIFICATION Spec
SYMMETRY CallSymmetry
INVARIANTS TypeOK LedgerIsExact KeysAreSuppressed AnswersAreTrue
PROPERTIES OneByOne
