SPECIFICATION Spec
CONSTANTS
    Nodes = {"a", "b", "c", "d"}
    Edges <- MCEdges
    Source <- MCSource
    Target <- MCTarget
    Kind <- MCKind
    Addresses = {"x"}
    None = "none"
    Reads <- MCReads
    Writes <- MCWrites
    Schedulings = {"dynamic"}
    InitEdges = {"ab", "bc", "ca", "cd"}
    Requests <- MCRequests
    MaxTick = 1
    MaxEdits = 2
CHECK_DEADLOCK FALSE
INVARIANTS
    SorterOrders
