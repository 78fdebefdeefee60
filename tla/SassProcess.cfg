SPECIFICATION FairSpec
CONSTANTS
    Kernel <- ProducerConsumer
    NumCTAs = 2
    BlockSize = 2
    RegPerThread = 4
    InitReg = 200
    RegCount <- MCRegCount
    Addr <- MCAddr
    Label <- MCLabel
    Start <- StartLabel
    ErrorState <- ErrorLabel
    Definitions <- MCDefinitions
INVARIANTS TypeOK PoolConservation FinalStatesAgree
PROPERTIES RefinesRegPool OnlyTryAllocWaits
CHECK_DEADLOCK FALSE
