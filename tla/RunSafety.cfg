SPECIFICATION Spec
CONSTANTS
    r1 = r1  r2 = r2  u1 = u1  u2 = u2  w1 = w1
    Supervisors <- TwoRuns
    Stoppers <- TwoUsers
    Watchers <- NoWatcher
    Results <- FourResults
    HasTimeout = TRUE
    NoGrace = FALSE
    Faults <- AllFaults
SYMMETRY Symmetry
INVARIANTS OneOwner TerminalIsDead VerdictJustified StopIsIdempotent
PROPERTIES StopRequestImmutable ManifestOnlyAdvances ImplementsLifecycle
CHECK_DEADLOCK FALSE
