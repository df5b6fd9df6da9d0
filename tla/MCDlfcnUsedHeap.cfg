SPECIFICATION Spec
CONSTANTS
    Handles = {h1, h2}
    Blocks = {b1, b2}
    Names = {n1}
    Addresses = {a1}
    NULL = NULL
    HeapFill <- UsedHeap
INVARIANT FreshHandleNotAllocated
CHECK_DEADLOCK FALSE
