SPECIFICATION Spec
CONSTANTS
    WORD = 256
    HALF = 16
    NEAR24 = 28
    NEAR14 = 12
    JobLists <- Modules
    Symbols <- BranchSymbols
    NSlots = 2
    SlotAddr <- SlotsInReach
INVARIANT OnlyLow14Changes
