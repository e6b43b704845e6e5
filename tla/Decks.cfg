SPECIFICATION Spec
CONSTANTS
    Root = "root"
    OutsideNames = {"out"}
    AbsoluteNames = {"abs"}
    ElementWidth <- MCElementWidth
    RowWidth = 2
    Repeatable = {"tol"}
    Optional = {"iter"}
    Flags = {"damp"}
    Revisions <- MCRevisions
    MeshFiles <- MCMeshFiles
    Starts <- MCStarts
    Requests <- MCRequests
    Pairs <- MCPairs
    Intents <- MCIntents
    MaxSaves = 1
INVARIANTS AppliedToDeck CurrentIsConfirmed PatchDoesOperation ComposedIsBoth RefreshAsAsked OutputSound SavesSurvive
    CycleIsReported GenerationAsAsked
CHECK_DEADLOCK FALSE
