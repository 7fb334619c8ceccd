CONSTANTS
    Agent = {a1, a2}
    Stream = {s1}
    Nobody = Nobody
    InboxSize = 2
    QueueSize = 2
    HistorySize = 2
    HistoryShown = 1
    MaxSent = 1
    Run = {"r1", "r2"}
    Subtask <- Subtasks
    Plans <- PlansOf
    MaxDeletes = 1
SPECIFICATION MCSpec
INVARIANTS StreamHasNoGap CleanupExact ResultsTrue
PROPERTIES HangsOnlyOnInbox RunReturns
CHECK_DEADLOCK FALSE
