SPECIFICATION FairSpec
CONSTANTS
    root = root  a = a  b = b  c = c  d = d  a1 = a1  b1 = b1
    w1 = w1  w2 = w2
    Owner = Owner
    Workers = {w1, w2}
    Tasks <- MCTasks
    Root = root
    Parent <- MCParent
    Before <- MCBefore
    OwnerOnly <- MCOwnerOnly
    OwnerCapacity = 2
INVARIANTS
    Inv
    NoLostWakeup
    OwnedByOwner
PROPERTIES
    ImplementsDag RunReturns WorkersExit
CHECK_DEADLOCK FALSE
