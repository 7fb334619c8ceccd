SPECIFICATION Spec
CONSTANTS
    Topic = {ta, tb}
    Publisher = {p1, p2}
    Subscriber = {s1}
    Capacity = 1
    MaxCount = 1
    TtlPasses = FALSE
    MaxChannels = 3
    MaxEvents = 3

INVARIANTS SubscriberMissesNothing
CHECK_DEADLOCK FALSE
