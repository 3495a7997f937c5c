SPECIFICATION Spec
CONSTANTS
    p1 = p1  p2 = p2  l1 = l1  l2 = l2  s1 = s1  s2 = s2
    Callers = {p1, p2}
    Closer = closer
    Home <- MCHome
    Group <- MCGroup
    Addrs = {s1, s2}
    Servers = {s1, s2}
    PoolScripts <- MCScripts
    Service = service
    None = None
    AddrBytes <- MCAddrBytes
    Prefix <- MCPrefix
    OtherKeys <- MCOtherKeys
    Ttl = 3  Period = 1  MaxLeases = 2
INVARIANTS LoadExact NoStrayConnection LoopOutlivesClient DiscoverExact
PROPERTIES PoolSettles CrashedGone
CHECK_DEADLOCK FALSE
