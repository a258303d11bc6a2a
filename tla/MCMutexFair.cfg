SPECIFICATION FairSpec
CONSTANTS
    idle = idle
    a = a
    b = b
    c = c
    NULL = NULL
    Tasks = {idle, a, b, c}
    Stacks = {idle, a, b, c}
    Boot <- BootThree
    Lists = {m1}
    MaxNest = 0
INVARIANT NoPanic
PROPERTIES
    ImplementsMutexSpec
    LockGranted
