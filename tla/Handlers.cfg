\* The code of at most five instructions over one instruction for each handler.
SPECIFICATION Spec
CONSTANTS
    WordBits     = 3
    Instructions <- MCInstructions
    Inputs       = {"SR_TID.X"}
    Compared     <- MCCompared
    Registers    <- MCRegisters
    Prologue     <- LoadFirst
    Length       = 5
CHECK_DEADLOCK FALSE
INVARIANTS
    TypeOK
    Agreement
    SliceKeepsValues
