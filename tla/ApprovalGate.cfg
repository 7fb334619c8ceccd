SPECIFICATION FairSpec
CONSTANTS
    Req = {r1, r2}
    MaxPending = 1
    MaxAnswers = 2
INVARIANTS GrantIsEarned NoLostWaiter
PROPERTIES KeepsPromise AnsweredReturns
CHECK_DEADLOCK FALSE
