SPECIFICATION Spec
CONSTANTS
    Tenants = {acme, corp}
    Good = {g1, g2}
    Corrupt = {bad}
    Absent = Absent
    Edits = {"write", "delete", "move"}
    MaxEdits = 4
INVARIANTS TypeOK EnginesGenuine
PROPERTIES PolicyKept LoneUpsertsConverge
CHECK_DEADLOCK FALSE
