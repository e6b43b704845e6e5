SPECIFICATION FairSpec
CONSTANTS
    MaxCalls = 2
    MaxServices = 2
    MaxUpsets = 1
    MaxPanels = 2
    MaxAsks = 2
    MaxNoise = 1
    Mixes <- OneKindOrBoth
INVARIANTS KnownService EndsWithWindow OneWindow ConfirmSeen SentIsNotDropped
PROPERTIES CommandsEnd WindowAnswered
CHECK_DEADLOCK FALSE
