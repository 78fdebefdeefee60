SPECIFICATION Spec
CONSTANTS
    MaxLen = 2
    Alphabet <- BranchAlphabet
    Functions <- MCFunctions
    Slicings = {"sliced"}
INVARIANT HandledInstructionsEmitted
CHECK_DEADLOCK FALSE
