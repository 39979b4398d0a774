SPECIFICATION FairSpec
CONSTANTS
    Moved <- MCMoved
    Values = {0, 127}
    Positions = {0, 8321}
    Slid = {1}
    Turns <- MCTurns
    Scale = 2
    Reversed = FALSE
    Rounds = 1
    Repeats = 2
    QueueLen = 2
    MaxReports = 4
INVARIANTS
    TypeOK
    KnobFollows
    TempoHeals
    BrowseFollows
PROPERTIES
    ControlsComeUp
CHECK_DEADLOCK FALSE
