CONSTANTS
    None = None
    Yes = Yes
    No = No
    CellSize = 4
    CellMax = 255
    Retries = 4
    Slack = 2
    PoolGrowth = 1
    MapSizes = {1, 2, 6}
    MaxEvents = 2
    MaxAttempts = 2
    Situations <- MCSituations
SPECIFICATION Spec
CHECK_DEADLOCK FALSE
INVARIANTS
    MemoryAccounted
    OwnInput
    OwnTree
    OverlayPolicy
    ExitSurvivesOneChange
