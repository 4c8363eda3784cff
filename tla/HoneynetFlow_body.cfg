SPECIFICATION Spec
CONSTANTS
    Conns = {c1, c2}
    Hosts = {h1}
    CanaryIds = {k1}
    NoHost = NoHost
    MaxRequests = 1
    MaxFaults = 0
INVARIANT AnsweredCanaryLogged
CHECK_DEADLOCK FALSE
