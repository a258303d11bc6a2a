SPECIFICATION Spec
CONSTANTS
    NULL = NULL
    Tasks = {t, u}
    Openers = {t}
    Mounts <- TwoMounts
    Paths <- SomePaths
    Counts = {2}
    InodeSlots = {1, 2, 3, 4, 5, 6, 7, 8}
    FileSlots = {1}
    InitialRcs <- SomeRcs
    NameMax = 2
    MaxHeld = 1
INVARIANTS
    TypeOK
    RefsFollow
    TableExact
    NoDangling
    TraverseExact
    AssertsHold
    LastReleaseFrees
