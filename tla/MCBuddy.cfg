SPECIFICATION Spec
CONSTANTS
    MaxLevel = 2
    Tops = 1
    MaxBuddies = 2
    NULL = NULL
INVARIANTS
    TypeOK
    NoOverlap
    BitmapsExact
    ListsExact
