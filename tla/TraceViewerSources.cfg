\* Traces of at most two additions of two registers.
SPECIFICATION Spec
CONSTANTS
    V0 = V0
    V1 = V1
    NoValue = NoValue
    Warps        <- MCWarps
    Kernels      <- MCKernels
    Instructions <- TwoSources
    Registers    = {1, 2, 3}
    Values       = {V0, V1}
    Unknown      = NoValue
    Filters      <- MCFilters
    TraceLength  = 2
CHECK_DEADLOCK FALSE
INVARIANTS
    KnownIsTrue
