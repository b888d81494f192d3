SPECIFICATION Spec
CONSTANTS
    Score <- Branches
    Syncs <- MCSyncs
    Events <- MCEvents
    Intervals <- MCIntervals
    SyncOf <- MCSyncOf
    StartEv <- MCStartEv
    EndEv <- MCEndEv
    Graphal <- MCGraphal
    Min <- MCMin
    Nominal <- MCNominal
    Max <- MCMax
    Speed <- MCSpeed
    Infinite = 99
    StartSyncs <- MCStartSyncs
    Autotrigger = {}
    Trigger <- MCTrigger
    Rated <- MCRated
    Conditional <- MCConditional
    ExclusiveModes = {FALSE}
    Ticks = {1, 3}
    Quanta = {0, 1, 2}
    Clickable = {"s1", "s3"}
    Playable = {}
    MaxDate = 7
INVARIANTS
    NoZombie
    StoppedStayAtZero
    ReadyWhenExecuting
    NothingLate
    EvaluatingReachable
    OnGrid
PROPERTIES
    RequestConsumed
