SPECIFICATION Spec
CONSTANTS
    Nodes = {"a", "b", "c", "d"}
    Edges <- MCEdges
    Source <- MCSource
    Target <- MCTarget
    Kind <- MCKind
    Addresses = {"x"}
    None = "none"
    Reads <- MCReads
    Writes <- MCWrites
    Schedulings = {"fixed", "tc", "dynamic"}
    InitEdges = {"ab", "bc", "ca", "cd"}
    Requests <- MCRequests
    MaxTick = 3
    MaxEdits = 2
CHECK_DEADLOCK FALSE
INVARIANTS
    TypeOK
    LargestEnabled
    SourcesFirst
    NoBacklog
    GluttonDelivered
    FreshCables
    AddressesOrdered
PROPERTIES
    EveryoneRuns
    ImplementsDelayLines
