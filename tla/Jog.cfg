\* Two decks share the FIFO and both threads; a turn is scaled and inverted,
\* and the wheels are left alone after a few reports.
SPECIFICATION FairSpec
CONSTANTS
    NDecks = 2
    Half = 2
    Wrap = 8
    Steps <- ApartSteps
    Scale = 3
    MaxDelta = 3
    Rev = TRUE
    Idle = 1
    TimeMod = 64
    Lossy = TRUE
    MaxReports = 3
    QueueLen = 4
INVARIANTS
    TypeOK
    SampleIsReported
    VposTracksWheel
PROPERTIES
    MotionSettles
CHECK_DEADLOCK FALSE
