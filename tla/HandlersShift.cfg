\* Code with the left shift of one word; the macros say what it computes.
SPECIFICATION Spec
CONSTANTS
    WordBits     = 3
    Instructions <- ShiftCode
    Inputs       = {"SR_TID.X"}
    Compared     <- ShiftCompared
    Registers    <- MCRegisters
    Prologue     <- LoadFirst
    Length       = 5
CHECK_DEADLOCK FALSE
INVARIANTS
    Agreement
