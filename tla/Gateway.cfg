SPECIFICATION GatewaySpec
CONSTANTS
    Lines = 4
    Large = {4}
    QueueSize = 2
    Call = {c1, c2, c3}
    Stream = {s1}
    MaxRequests = 2
    MaxConsecutive = 2
    MinRequests = 3
    MaxCounted = 4
    Session = {"a"}
    Request = {r1, r2}
    Burst = 2
    IdleLimit = 3
    MaxStall = 1
    MaxTime = 6
    None = None
INVARIANTS NoGap OneBucketPerSession
PROPERTIES AllEnd Recovers
CHECK_DEADLOCK FALSE
