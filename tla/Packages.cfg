CONSTANTS
    Step <- FourSteps
    Workflows <- AllWorkflows
    Swarm = {1, 2}
    Agent = {1, 2, 3, 4}
    Role = {"coding", "research"}
    Task = {1, 2}
    Specs <- SomeSpecs
    None = None
SPECIFICATION MCSpec
INVARIANTS ResultTrue Accounted HandlersBounded SizeWithinLimits
PROPERTIES KeepsPromise WorkflowEnds ScalingSparesWork
CHECK_DEADLOCK FALSE
