SPECIFICATION Spec
CONSTANTS
    MaxLevel = 3
    Tops = 1
    MaxBuddies = 2
    NULL = NULL
INVARIANTS
    HeadIsFreeOrNull
