SPECIFICATION Spec
CONSTANTS
    Name = {"a", "b", "c", "a-rescue", "sdboot-auto-firmware"}
    Ktype = {"v0", "v1"}
    None = None
    ConfId <- MCConfId
    RescueName <- MCRescueName
    EndsWithRescue <- MCEndsWithRescue
    fnmatch <- MCfnmatch
    Pattern = {"@saved", "*", "a.conf", "b"}
    TimeoutText <- TimeoutTexts
    INT_MAX = 3
    UINT32_MAX = 7
    FirmwareFaults = FALSE
    MenuConfigs <- UnattendedConfigs
    FrontEnds = {"text", "tui", "gui"}
    OsWrites <- UnattendedWrites
    PowerFails = FALSE
INVARIANTS
    EveryKtype
