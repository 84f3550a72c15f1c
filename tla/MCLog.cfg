CONSTANTS
    Situations <- MCSituations
    Messages <- MCMessages
    LevelWords <- MCLevelWords
    DefaultLimit = 6
    MaxPrints = 6
    MaxRoom = 4
    MaxChanges = 2
SPECIFICATION LogSpec
INVARIANTS
    StoreTrue
    SentInOrder
PROPERTIES
    CaughtUp
