SPECIFICATION Spec
CONSTANTS
    Calls = {k1, k2}
    Blocking = {k1, k2}
    Loop = loop
    NoCall = none
INVARIANTS ClosureAlive
CHECK_DEADLOCK FALSE
