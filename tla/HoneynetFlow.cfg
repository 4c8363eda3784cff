SPECIFICATION FairSpec
CONSTANTS
    Conns = {c1, c2}
    Hosts = {h1}
    CanaryIds = {}
    NoHost = NoHost
    MaxRequests = 2
    MaxFaults = 2
INVARIANTS NetworkRowFirst OpaqueOnlyOnce ServedIsLogged ClosedTLSIsVisible DamageIsBounded
PROPERTIES EveryTLSFlowSettles
CHECK_DEADLOCK FALSE
