SPECIFICATION FairSpec
CONSTANTS
    Score <- Components
    Syncs <- MCSyncs
    Events <- MCEvents
    Intervals <- MCIntervals
    SyncOf <- MCSyncOf
    StartEv <- MCStartEv
    EndEv <- MCEndEv
    Graphal <- MCGraphal
    Min <- MCMin
    Nominal <- MCNominal
    Max <- MCMax
    Speed <- MCSpeed
    Infinite = 99
    StartSyncs <- MCStartSyncs
    Autotrigger = {"t0"}
    Trigger <- MCTrigger
    Rated <- MCRated
    Conditional <- MCConditional
    ExclusiveModes = {TRUE, FALSE}
    Ticks = {1, 2}
    Quanta = {0}
    Clickable = {"s1", "t0"}
    Playable = {"a"}
    MaxDate = 3
INVARIANTS
    ExclusiveOne
PROPERTIES
    AutotriggerRestarts
