SPECIFICATION Spec
CONSTANTS
    NameSize <- MCNameSize
    Hash <- MCHash
    Descs = {0, 5}
    VIEWS = 2
    WORD = 4096
    Objects <- MCObjects
    SectionShapes <- MCSectionShapes
    SegmentShapes <- MCSegmentShapes
    Addresses = {512}
    Chunks = {4}
INVARIANTS
    TypeOK
    DataFits
    NamesKept
    SymbolsFound
    RelocationsKeepSymbols
    ListsAgree
    FileIntact
    SegmentsHoldSections
    SegmentsCongruent
    SavedValidates
    SegmentsOrdered
    SaveAgainSame
PROPERTIES
    ArrangedLocalsFirst
    RegularSaves
    CallsEnd
CHECK_DEADLOCK FALSE
