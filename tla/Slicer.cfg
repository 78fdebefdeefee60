SPECIFICATION FairSpec
CONSTANTS
    Structures = {"if", "else", "loop", "nested loops", "early exit", "jump table"}
    Graphs <- MCGraphs
    Pattern = {"STG"}
    KeepControl = {TRUE, FALSE}
INVARIANTS TypeOK ReachingIsExact WorklistCoversGaps FrontiersAreControlDependencies
    SliceComplete SliceMinimal LegacySliceAgrees
PROPERTIES ReachingGrows SliceReturns
CHECK_DEADLOCK FALSE
