SPECIFICATION Spec
CONSTANTS
    MaxLen = 3
    Guards = {"none", "P0"}
    Programs <- MCPrograms
INVARIANTS TypeOK NoFlowLost NoFlowInvented TakenComesFirst BackendsAgree
CHECK_DEADLOCK FALSE
