SPECIFICATION Spec
CONSTANTS
    Keys = {k1}
    Calls = {c1, c2, c3, c4}
    MaxRequests = 2
    RateWindow = 2
    MaxTime = 4
SYMMETRY Symmetry
INVARIANTS WindowQuota
CHECK_DEADLOCK FALSE
