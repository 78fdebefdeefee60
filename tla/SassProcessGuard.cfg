SPECIFICATION Spec
CONSTANTS
    Kernel <- Retry
    NumCTAs = 1
    BlockSize = 2
    RegPerThread = 200
    InitReg = 200
    RegCount <- MCRegCount
    Addr <- MCAddr
    Label <- MCLabel
    Start <- StartLabel
    ErrorState <- ErrorLabel
    Definitions <- MCDefinitions
INVARIANT EnoughRegistersSuffice
CHECK_DEADLOCK FALSE
