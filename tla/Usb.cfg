SPECIFICATION FairSpec
CONSTANTS
    Devs = {a, b}
    None = none
    HasTimeout = TRUE
    MaxPlugs = 3
    MaxSessions = 2
    MaxRespawns = 1
    MaxFaults = 1
INVARIANTS
    TypeOK
    BindFollowsMount
    ToldAfterBind
    NoticeBeforeRelease
PROPERTIES
    StickIsShown
    NoticesKept
    StickIsReleased
CHECK_DEADLOCK FALSE
