SPECIFICATION Spec
CONSTANTS
    Agents = {a1, a2}
    Requests = {r1, r2, r3}
    Inputs <- ToolCalls
    Outcomes = {"deny"}
    Threshold = 2
    Window = 1
    Cooldown = 2
    MaxRequests = 2
    RateWindow = 1
    MaxTime = 3
SYMMETRY Symmetry
INVARIANTS QuarantineHolds
CHECK_DEADLOCK FALSE
