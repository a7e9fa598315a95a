SPECIFICATION Spec
CONSTANTS
    e1 = e1
    e2 = e2
    e3 = e3
    e4 = e4
    Entries = {e1, e2, e3, e4}
    Size <- Sizes
    Capacity = 3
    MaxFaults = 2
    MaxCrashes = 1
INVARIANTS TypeOK InOrder OkIsDurable DamageBounded LossIsFailure
PROPERTIES Drained
CHECK_DEADLOCK FALSE
