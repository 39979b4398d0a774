SPECIFICATION AutoFairSpec
CONSTANTS
    MaxEvents = 2
    MaxMsgs = 2
INVARIANTS
    AutoTypeOK
    ScreenIsFresh
PROPERTIES
    StickIsListed
    StickIsUnlisted
CHECK_DEADLOCK FALSE
