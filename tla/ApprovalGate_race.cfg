SPECIFICATION Spec
CONSTANTS
    Req = {r1, r2}
    MaxPending = 1
    MaxAnswers = 2
INVARIANTS RejectedIsDenied
CHECK_DEADLOCK FALSE
