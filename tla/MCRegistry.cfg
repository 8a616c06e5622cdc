\* Three handles of three consumers are opened, cloned and dropped while signals are looked
\* up, notified and removed.
CONSTANTS
    h1 = h1
    h2 = h2
    h3 = h3
    t1 = t1
    c1 = c1
    c2 = c2
    c3 = c3
    n1 = n1
    s1 = s1
    s2 = s2
    s3 = s3
    s4 = s4
    s5 = s5
    Handles = {h1, h2, h3}
    Consumers = {c1, c2, c3}
    FilterOf <- MCFilterOf
    Topics = {t1}
    Threads = {n1}
    SignalIds = {s1, s2, s3, s4, s5}
    NULL = NULL
SPECIFICATION Spec
SYMMETRY AlikeSymmetry
INVARIANTS TypeOK HeldSignalsAreRegistered SignalsAreDistinct
PROPERTIES NotificationsReachPolls
