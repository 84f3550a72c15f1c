SPECIFICATION FairSpec
CONSTANTS
    None = None
    Text <- MCText
    INT_MAX = 3
    INT64_MAX = 6
    CurrentArch = "x64"
    strcmp <- MCCompare
    vercmp <- MCCompare
    Situations <- AllSituations
    Faults = {"DEVICE_ERROR", "OUT_OF_RESOURCES", "NOT_FOUND", "LOAD_ERROR"}
CHECK_DEADLOCK FALSE
INVARIANTS
    VisitOnce
    EntriesWhole
    SettingsReachMenu
    MenuUntouched
    OrderRespected
PROPERTIES
    Terminates
