\* Two messages, one at a time, and nobody to notify: only timers wake the poller.
CONSTANTS
    p1 = p1
    p2 = p2
    m1 = m1
    m2 = m2
    Pollers = {p1}
    Messages = {m1, m2}
    NULL = NULL
    Filter = "topic"
    Page = 1
    Waits = {1}
    Interval = 1
    Lease = 1
    Delays = {0}
    MaxLag = 1
    Origins = {"elsewhere"}
    MaxNacks = 1
    MaxFaults = 1
SPECIFICATION FairSpec
PROPERTIES EveryMessageIsClaimed
