SPECIFICATION Spec
CONSTANTS
    Producers = {p1, p2}
    MaxSends = 3
    DrainRounds = 2
    BatchMax = 2
    Builds = {TRUE, FALSE}
INVARIANTS FlagExact NoUseAfterFree QueueOrder
PROPERTIES AllDrained
CHECK_DEADLOCK FALSE
