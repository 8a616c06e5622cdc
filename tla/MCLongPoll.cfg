\* One task that polls, and the rest of the system; liveness.
CONSTANTS
    p1 = p1
    p2 = p2
    m1 = m1
    m2 = m2
    Pollers = {p1}
    Messages = {m1}
    NULL = NULL
    Filter = "topic"
    Page = 1
    Waits = {0, 2}
    Interval = 1
    Lease = 1
    Delays = {0, 1}
    MaxLag = 1
    Origins = {"here", "elsewhere"}
    MaxNacks = 1
    MaxFaults = 1
SPECIFICATION FairSpec
PROPERTIES PollsEnd DrainingEnds PollsAreBroadcastTo
