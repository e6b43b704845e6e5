SPECIFICATION Spec
CONSTANTS
    a1 = a1  a3 = a3  g1 = g1
    Nobody = Nobody
    Files <- MixedFiles
    Appliers <- Mixed
    Generators <- OneGenerator
    Outputs <- MixedOutputs
    Sidecar <- MixedSidecars
    Beside <- MixedBeside
    Faults <- FaultKinds
INVARIANTS DoneIsComplete SidecarVouches FailureLeavesNoDeck
CHECK_DEADLOCK FALSE
