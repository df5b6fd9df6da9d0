SPECIFICATION Spec
CONSTANTS
    WORD = 256
    HALF = 16
    NEAR24 = 28
    NEAR14 = 12
    JobLists <- Modules
    Symbols <- BranchSymbols
    NSlots = 3
    SlotAddr <- SlotsAround
INVARIANTS
    TypeOK
    FixedBranchesLand
    AddressesRebuilt
PROPERTY SlotsServeBranches
