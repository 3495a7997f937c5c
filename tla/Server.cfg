SPECIFICATION Spec
CONSTANTS
    Conns = {c1}
    Stoppers = {s1}
    Main = main
    Monitor = monitor
    m_handle_process_signals = TRUE
    None = none
INVARIANTS CountExact Watched GroupAlive WorkersBeforeLoops
PROPERTIES StopReturns 
CHECK_DEADLOCK FALSE
