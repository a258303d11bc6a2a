SPECIFICATION FairSpec
CONSTANTS
    idle = idle
    a = a
    b = b
    c = c
    NULL = NULL
    Tasks = {idle, a, b}
    Stacks = {idle, a, b}
    Boot <- BootTwo
    Lists = {m1}
    MaxNest = 0
PROPERTY TimerKeepsTicking
