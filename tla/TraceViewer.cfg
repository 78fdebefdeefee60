\* Traces of at most two instructions of three warps.
SPECIFICATION Spec
CONSTANTS
    V0 = V0
    V1 = V1
    NoValue = NoValue
    Warps        <- MCWarps
    Kernels      <- MCKernels
    Instructions <- MCInstructions
    Registers    = {1, 2, 3}
    Values       = {V0, V1}
    Unknown      = NoValue
    Filters      <- MCFilters
    TraceLength  = 2
CHECK_DEADLOCK FALSE
INVARIANTS
    TypeOK
    EntriesAreExecuted
    WrittenIsKnown
    ShownDestinations
PROPERTIES
    ReplaysTrace
