SPECIFICATION Spec
CONSTANTS
    Words <- MCWords
    Table <- MCTable
    Images <- MCImages
    Files = {rbp, rbp_audio}
INVARIANTS
    TypeOK
    CountsAddUp
    Idempotent
    RejectedUntouched
PROPERTIES
    AllOrNothing
