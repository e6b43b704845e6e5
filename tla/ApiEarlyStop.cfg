SPECIFICATION FairSpec
CONSTANTS
    a1 = a1  a2 = a2  c1 = c1  c2 = c2  w1 = w1
    Starts <- OneStart
    Stops <- OneStop
    Reads <- OneRead
    Faults <- NoFaults
PROPERTIES StopIsDelivered
CHECK_DEADLOCK FALSE
