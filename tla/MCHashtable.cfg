SPECIFICATION Spec
CONSTANTS
    N = 2
    Keys = {0, 1, 2, 4, 6}
    Values = {v1, v2}
    MaxSlabs = 2
    NumObjects = 2
    NULL = NULL
SYMMETRY ValueSymmetry
INVARIANTS
    TypeOK
    ObjectsConserved
    FreeListExact
    ChainsExact
PROPERTY ImplementsMap
