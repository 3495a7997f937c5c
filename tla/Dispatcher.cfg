SPECIFICATION Spec
CONSTANTS
    Requests = {r1, r2}
    Services = {svc}
    Methods = {m1, m2}
    NoMethod = m0
    Malformed = malformed
    MaxConfigs = 1
    Workers = {w1, w2}
    MaxPending = 1
    NoRequest = none
INVARIANTS InFlightExact OverloadMeansFull
PROPERTIES AllAnswered StopReturns
CHECK_DEADLOCK FALSE
