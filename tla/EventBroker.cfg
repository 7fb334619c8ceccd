SPECIFICATION FairSpec
CONSTANTS
    Topic = {ta, tb}
    Publisher = {p1, p2}
    Subscriber = {s1}
    Capacity = 1
    MaxCount = 1
    TtlPasses = TRUE
    MaxChannels = 3
    MaxEvents = 3
INVARIANTS RootedMissesNothing
PROPERTIES ActiveChannelKept CapExceededOnlyWhenBusy OrphanEnds IdleEvicted
CHECK_DEADLOCK FALSE
