SPECIFICATION Spec
CONSTANTS
    Task = {t1}
    Client = {c1}
    MaxFires = 2
    MaxStarts = 2
INVARIANTS EnabledIsScheduled
CHECK_DEADLOCK FALSE
