SPECIFICATION Spec
CONSTANTS
    Paths = {default, other}
    Default = default
    Good = {g1, g2}
    Corrupt = {bad}
    Absent = Absent
    Edits = {"write", "delete", "move"}
    MaxEdits = 4
INVARIANTS TypeOK
PROPERTIES EngineSurvives DefaultConverges
CHECK_DEADLOCK FALSE
