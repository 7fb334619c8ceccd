SPECIFICATION FairSpec
CONSTANTS
    Turn = {t1, t2}
    Question = {"q1", "q2", "q3"}
    Similar <- SameMeaning
    Context = {"c1"}
    None = None
    Providers = 2
    MaxTokens = 1
INVARIANTS StreamWellFormed HitsAreWholeAnswers RemembersWhatWasSaid
PROPERTIES TurnEnds
CHECK_DEADLOCK FALSE
