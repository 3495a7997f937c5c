SPECIFICATION Spec
CONSTANTS
    Producers = {p1, p2}
    MaxSends = 2
    DrainRounds = 1
    BatchMax = 2
    Builds = {TRUE}
INVARIANTS NothingStranded
CHECK_DEADLOCK FALSE
