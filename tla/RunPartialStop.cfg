SPECIFICATION Spec
CONSTANTS
    r1 = r1  r2 = r2  u1 = u1  u2 = u2  w1 = w1
    Supervisors <- OneRun
    Stoppers <- OneUser
    Watchers <- NoWatcher
    Results <- TwoResults
    HasTimeout = FALSE
    NoGrace = FALSE
    Faults <- Crashes
INVARIANT UnreadableStopFailsClosed
CHECK_DEADLOCK FALSE
