SPECIFICATION Spec
CONSTANTS
    idle = idle
    a = a
    b = b
    c = c
    NULL = NULL
    Tasks = {idle, a, b, c}
    Stacks = {idle, a, b, c}
    Boot <- BootTwo
    Lists = {m1, m2}
    MaxNest = 1
INVARIANTS
    YieldAcceptsPreemptOff
