CONSTANTS
    Step <- Three
    Id = {1, 2, 3}
    Path = {"a", "b"}
    Plans <- SomePlans
    MaxRetries = 2
    Swarm = TRUE
    Run = {r1, r2}
    TaskGraphs <- SomeTaskGraphs
    MaxPasses = 2
    MaxRuns = 1
    Graphs <- SomeWorkflows
    Execution = {e1}
    MaxUpdates = 1
    Call = {1, 2, 3}
    Signal = {"a", "b", "c"}
    Cap = 2
    Deltas <- SomeDeltas
    Key = {1, 2}
    Kinds <- SomeKinds
SPECIFICATION MCSpec
INVARIANTS StepsInOrder EditsAccounted PlanInOrder VerdictIsTrue GraphInOrder
PROPERTIES CancelStopsRounds CodingEnds LossNeedsOverlap
CHECK_DEADLOCK FALSE
