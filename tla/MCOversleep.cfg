\* One task polls for one message whose lease ends between the query and the sleep.
CONSTANTS
    p1 = p1
    p2 = p2
    m1 = m1
    m2 = m2
    Pollers = {p1}
    Messages = {m1}
    NULL = NULL
    Filter = "topic"
    Page = 1
    Waits = {3}
    Interval = 2
    Lease = 1
    Delays = {0}
    MaxLag = 2
    Origins = {"elsewhere"}
    MaxNacks = 0
    MaxFaults = 0
SPECIFICATION Spec
INVARIANT WakesAtKnownDeadline
