SPECIFICATION Spec
CONSTANTS
    Root = "root"
    OutsideNames = {"out"}
    AbsoluteNames = {"abs"}
    ElementWidth <- MCElementWidth
    RowWidth = 2
    Repeatable = {"tol"}
    Optional = {"iter"}
    Flags = {"damp"}
    Revisions <- MCNoRevisions
    MeshFiles <- MCMeshFiles
    Starts <- MCShiftingStarts
    Requests <- MCRequests
    Pairs <- MCPairs
    Intents <- MCIntents
    MaxSaves = 0
INVARIANT OutputSound
CHECK_DEADLOCK FALSE
