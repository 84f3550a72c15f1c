SPECIFICATION FairSpec
CONSTANTS
    Node = {n1, n2, n3, n4}
    NULL = NULL
    Data <- MCData
    List <- MCList
INVARIANTS
    TypeOK
    WellLinked
PROPERTIES
    Implements
    SortStable
    SortEnds
