SPECIFICATION Spec
CONSTANTS
    Events = {e1, e2}
    Repeated = {e1}
    e1 = e1
    e2 = e2
    Intervals <- MCIntervals
    Tick = 2
    Slots = 2
    MaxTime = 7
    MaxFires = 2
    MaxStall = 1
INVARIANTS NotLate OnePlace
PROPERTIES PollInTime
CHECK_DEADLOCK FALSE
