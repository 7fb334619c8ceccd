SPECIFICATION Spec
CONSTANTS
    Step <- FourSteps
    Workflows <- OnlyConditional
INVARIANTS BranchOnlyIfTrue
CHECK_DEADLOCK FALSE
