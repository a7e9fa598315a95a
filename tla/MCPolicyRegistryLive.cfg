SPECIFICATION Spec
CONSTANTS
    Tenants = {acme, corp}
    Good = {g1, g2}
    Corrupt = {bad}
    Absent = Absent
    Edits = {"write"}
    MaxEdits = 2
INVARIANTS KeepsLive
CHECK_DEADLOCK FALSE
