SPECIFICATION Spec
CONSTANTS
    Files <- MCFiles
INVARIANTS
    TypeOK
    BuffersHoldSizes
    NeverPartial
    IntactFilesLoad
    NothingAfterFailure
CHECK_DEADLOCK FALSE
