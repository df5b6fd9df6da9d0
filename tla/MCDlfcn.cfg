SPECIFICATION Spec
CONSTANTS
    Handles = {h1, h2}
    Blocks = {b1, b2}
    Names = {n1, n2}
    Addresses = {a1, a2}
    NULL = NULL
    HeapFill <- UsedHeap
INVARIANTS
    TypeOK
    MemoryAccounted
PROPERTIES
    WildOnlyByStale
    MessageStable
    ImplementsApi
CHECK_DEADLOCK FALSE
