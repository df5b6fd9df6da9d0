SPECIFICATION Spec
CONSTANTS
    Files <- MCFiles
INVARIANTS
    LoadedMeansRead
CHECK_DEADLOCK FALSE
