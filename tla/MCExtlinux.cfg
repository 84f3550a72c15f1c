SPECIFICATION Spec
CONSTANTS
    None = None
    INT_MAX = 3
    UINT64_MAX = 63
    Part <- MCPart
    LowerCase <- MCLowerCase
    Numeral <- MCNumeral
    Inputs <- AllInputs
CHECK_DEADLOCK FALSE
INVARIANTS
    MenuMatchesFile
    DefaultBoots
    AllOrNothing
