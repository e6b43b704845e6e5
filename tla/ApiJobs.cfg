SPECIFICATION FairSpec
CONSTANTS
    a1 = a1  a2 = a2  c1 = c1  c2 = c2  w1 = w1
    Starts <- TwoStarts
    Stops <- TwoStops
    Reads <- OneRead
    Faults <- AllFaults
INVARIANTS OneJob WorkerOwnsRun TerminalReplyIsTrue
PROPERTIES StopEndsJob
CHECK_DEADLOCK FALSE
