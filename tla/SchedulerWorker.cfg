SPECIFICATION Spec
CONSTANTS
    Task = {t1}
    Client = {c1, c2}
    MaxFires = 2
    MaxStarts = 2
INVARIANTS LoadedAgrees OffIsSilent RunsCounted
CHECK_DEADLOCK FALSE
