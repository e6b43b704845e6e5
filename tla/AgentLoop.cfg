SPECIFICATION FairSpec
CONSTANTS
    Objectives = {{"inspect", "modify", "validate", "run"}}
    Offered = {"query", "preview", "run", "status"}
    MaxSteps = 4
    MaxChain = 1
    MaxMessages = 3
    MaxDecks = 4
    MaxRuns = 3
    MaxFaults = 1
INVARIANTS SessionLoads GuardedOnlyConfirmed SettledStaysSettled ArmedMeansAsked EffectOnce
CHECK_DEADLOCK FALSE
PROPERTIES TurnEnds
