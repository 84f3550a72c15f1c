CONSTANTS
    MaxAddress = 5
    Alignment = 2
    MaxPages = 2
    MaxLen = 3
    Pages = 1
SPECIFICATION MapSpec
CHECK_DEADLOCK FALSE
INVARIANTS
    MemoryExact
    LowestPlace
