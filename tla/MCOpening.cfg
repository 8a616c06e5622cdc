\* Two processes open the file; two statements fail or calls are abandoned.
CONSTANTS
    Processes = {"a", "b"}
    Older <- MCOlder
    MaxFaults = 2
SPECIFICATION Spec
INVARIANTS TypeOK OpenedIsComplete VersionIsTrue RefusalsAreTrue NewerStaysMarked
PROPERTY CompatibleIsOpened
CHECK_DEADLOCK FALSE
