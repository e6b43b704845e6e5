SPECIFICATION Spec
CONSTANTS
    a1 = a1  a3 = a3  g1 = g1
    Nobody = Nobody
    Files <- MixedFiles
    Appliers <- Mixed
    Generators <- NoGenerator
    Outputs <- MixedOutputs
    Sidecar <- MixedSidecars
    Beside <- MixedBeside
    Faults <- FailingWrites
INVARIANTS RollbackIsExact
CHECK_DEADLOCK FALSE
