\* One deck, both threads, and a wheel that is left alone after a few reports.
SPECIFICATION FairSpec
CONSTANTS
    NDecks = 1
    Half = 2
    Wrap = 4
    Steps <- UnitSteps
    Scale = 1
    MaxDelta = 1
    Rev = FALSE
    Idle = 2
    TimeMod = 64
    Lossy = FALSE
    MaxReports = 3
    QueueLen = 4
PROPERTIES
    EngineComesToRest
CHECK_DEADLOCK FALSE
