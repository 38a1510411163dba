SPECIFICATION Spec
CONSTANTS
    w1 = w1
    w2 = w2
    w3 = w3
    ip1 = ip1
    ip2 = ip2
    Waiters <- MCTwoWaiters
    Addrs <- MCOneAddr
PROPERTIES
    TickServed
CHECK_DEADLOCK FALSE
