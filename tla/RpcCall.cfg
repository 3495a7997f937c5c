SPECIFICATION CoSpec
CONSTANTS
    Calls = {k1, k2}
    Blocking = {k1}
    Loop = loop
    NoCall = none
INVARIANTS OneWinner NoWriteAfterReturn NoStaleCallback RunReturnsResult
PROPERTIES CallsComplete
CHECK_DEADLOCK FALSE
