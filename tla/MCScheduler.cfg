SPECIFICATION SchedSpec
CONSTANTS
    idle = idle
    main = main
    t1 = t1
    t2 = t2
    t3 = t3
    Tasks = {idle, main, t1, t2, t3}
    Stacks = {idle, main, t1, t2, t3}
    Lists = {}
    Boot <- MCBoot
    MaxNest = 1
INVARIANTS
    RingIntact
    SwitchConsistent
PROPERTY EveryTaskRuns
