SPECIFICATION FairSpec
CONSTANTS
    r1 = r1  r2 = r2  u1 = u1  u2 = u2  w1 = w1
    Supervisors <- OneRun
    Stoppers <- OneUser
    Watchers <- OneWatcher
    Results <- TwoResults
    HasTimeout = TRUE
    NoGrace = FALSE
    Faults <- NoFaults
INVARIANT EndIsReported
PROPERTIES StopEndsRun TimeoutAsksForStop StopReachesSolver
CHECK_DEADLOCK FALSE
