SPECIFICATION LifeSpec
CONSTANTS
    idle = idle
    a = a
    b = b
    c = c
    NULL = NULL
    stack_free_stack = stack_free_stack
    Tasks = {idle, a, b, c}
    Stacks = {idle, a, b, c, stack_free_stack}
    Boot <- BootTwo
    Lists = {m1}
    MaxNest = 0
INVARIANT FramesIntact
