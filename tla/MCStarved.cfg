\* Two messages, one at a time, one of them released immediately whenever it is delivered.
CONSTANTS
    p1 = p1
    p2 = p2
    m1 = m1
    m2 = m2
    Pollers = {p1}
    Messages = {m1, m2}
    NULL = NULL
    Filter = "topic"
    Page = 1
    Waits = {1}
    Interval = 1
    Lease = 1
    Delays = {0}
    MaxLag = 1
    Origins = {"elsewhere"}
    MaxNacks = NULL
    MaxFaults = 0
SPECIFICATION FairSpec
PROPERTIES EveryMessageIsClaimed
