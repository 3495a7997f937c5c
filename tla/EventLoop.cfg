SPECIFICATION Spec
CONSTANTS
    Producers = {p1, p2}
    Conns = {c1}
    Timers = {t1}
    MaxTasks = 1
    MaxRounds = 2
INVARIANTS NoLostWakeup FlushFlagExact
PROPERTIES TimersFire StopEndsLoop ImplementsExecutor
CHECK_DEADLOCK FALSE
