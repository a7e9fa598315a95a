SPECIFICATION Spec
CONSTANTS
    Documents <- EveryDocument
    MinDigits = 2
    MaxDigits = 3
INVARIANTS  LuhnDetectsTypos HarmlessUntouched ChangeReported
CHECK_DEADLOCK FALSE
