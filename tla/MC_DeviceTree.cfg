SPECIFICATION Spec
CONSTANTS
    a1 = a1
    b1 = b1
    c1 = c1
    Root = root
    Nodes <- MCNodes
    Lineage <- MCLineage
    Names = {x, y}
    Readers = {r1, r2}
    NoParam = null
    DeviceKinds = {"generic", "wrapped"}
    MaxMade = 2
INVARIANTS
    NoDangling
    ParentsOutlive
    IndexExact
PROPERTIES
    ReachedByAddress
SYMMETRY MCSymmetry
CHECK_DEADLOCK FALSE
