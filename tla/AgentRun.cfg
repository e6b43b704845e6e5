SPECIFICATION Spec
CONSTANTS
    Objectives = {{"modify", "run"}}
    Offered = {"preview", "status"}
    MaxSteps = 5
    MaxChain = 1
    MaxMessages = 3
    MaxDecks = 4
    MaxRuns = 3
    MaxFaults = 0
INVARIANTS ChangeAndRunRuns
CHECK_DEADLOCK FALSE
