SPECIFICATION Spec
CONSTANTS
    WORD = 256
    HALF = 16
    NEAR24 = 28
    NEAR14 = 12
    TEXT = 32
    DATA = 64
    IMPORTS = 192
    PAGE = 8
    LORESERVE = 14
    ABS = 15
    Libraries <- ExportLibraries
    Blocks = {96, 160}
    OldLibrary = {0, 96}
    Garbage = {0, 77}
    Imported = {20, 120}
INVARIANT ExportsMeetSections
CHECK_DEADLOCK FALSE
