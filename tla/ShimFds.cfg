SPECIFICATION Spec
CONSTANTS
    Threads = {t1, t2}
    NFds = 5
    MaxFlags = 4
    Slots = 4
    None = none
INVARIANTS
    TypeOK
    NoDescriptorLost
PROPERTIES
    AnswersAsOpened
CHECK_DEADLOCK FALSE
