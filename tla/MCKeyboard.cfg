SPECIFICATION FairSpec
CONSTANTS
    CharKeys = {a, b}
    DeadKeys = {shift}
    ShotKeys = {print}
    NoKey = NoKey
    RepeatDelay = 2
    RepeatRate = 1
    MaxMade = 2
    MaxDepth = 4
INVARIANT TypeOK
PROPERTIES RepeatsOnlyHeldKey WaitKeyIsFresh KeepsStream WaitKeyAnswers
CHECK_DEADLOCK FALSE
