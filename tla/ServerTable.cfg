SPECIFICATION Spec
CONSTANTS
    Conns = {c1}
    Stoppers = {s1}
    Main = main
    Monitor = monitor
    m_handle_process_signals = TRUE
    None = none
INVARIANTS DestroyedIsRemoved
CHECK_DEADLOCK FALSE
