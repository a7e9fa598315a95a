SPECIFICATION Spec
CONSTANTS
    Keys = {k1, k2}
    Calls = {c1, c2, c3, c4, c5}
    MaxRequests = 2
    RateWindow = 2
    MaxTime = 4
SYMMETRY Symmetry
INVARIANTS TypeOK CurrentWindowQuota NoFalseReject RetainsLive
CHECK_DEADLOCK FALSE
