SPECIFICATION Spec
CONSTANTS
    MaxLines = 4
    Kinds = {"unmatched", "unparsed", "other"}
    Texts <- MCTexts
INVARIANTS TypeOK FunctionsAreSections BranchesFollowLabels FailsForDanglingLabelsOnly
CHECK_DEADLOCK FALSE
