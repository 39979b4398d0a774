SPECIFICATION FairSpec
CONSTANTS
    Fingers = {f1, f2}
    Raw = 3
    Size = 2
    MaxTouches = 6
    MaxLosses = 1
    EvLen = 2
    PipeLen = 3
INVARIANTS
    TypeOK
    ContactIsFollowed
PROPERTIES
    LaterTapsSurvive
    LiftIsSeen
CHECK_DEADLOCK FALSE
