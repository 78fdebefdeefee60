SPECIFICATION Spec
CONSTANTS
    MaxLen = 3
    Alphabet <- FullAlphabet
    Functions <- MCFunctions
    Slicings = {"whole", "sliced"}
INVARIANTS TypeOK OneDefinitionPerLabel BlocksAreChains FlowStaysInGraph NoDeadLabel
    EmittedWithTerminator PredicatedBranchesEmitted
CHECK_DEADLOCK FALSE
