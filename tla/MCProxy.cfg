SPECIFICATION Spec
CONSTANTS
    Agents = {a1}
    Requests = {r1, r2}
    Inputs <- EveryInput
    Outcomes = {"allow", "deny", "redact", "redact_invalid", "error"}
    Threshold = 1
    Window = 1
    Cooldown = 1
    MaxRequests = 1
    RateWindow = 1
    MaxTime = 1
INVARIANTS TypeOK OnlyVetted AuditExact LedgersAgree RedactionSticks
PROPERTIES ImplementsGate ImplementsParts Finishes
CHECK_DEADLOCK FALSE
