SPECIFICATION Spec
CONSTANTS
    p1 = p1
    p2 = p2
    u = u
    v = v
    x = x
    Junk = Junk
    Null = Null
    None = None
    Threads <- MCThreads
    Scripts <- MCScripts
    InlineSize = 8
    OffsetRange = 12
    QueueEntries = 2
    MaxBatch = 1
    Threshold = 2
INVARIANT Conserved
INVARIANT NotAbandoned
INVARIANT LinesIntact
PROPERTY Settles
CHECK_DEADLOCK FALSE
