SPECIFICATION Spec
CONSTANTS
    Devs = {a, b}
    None = none
    HasTimeout = TRUE
    MaxPlugs = 3
    MaxSessions = 2
    MaxRespawns = 0
    MaxFaults = 0
INVARIANTS
    SwapMountsNewStick
CHECK_DEADLOCK FALSE
