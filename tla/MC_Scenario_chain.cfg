SPECIFICATION FairSpec
CONSTANTS
    Score <- Chain
    Syncs <- MCSyncs
    Events <- MCEvents
    Intervals <- MCIntervals
    SyncOf <- MCSyncOf
    StartEv <- MCStartEv
    EndEv <- MCEndEv
    Graphal <- MCGraphal
    Min <- MCMin
    Nominal <- MCNominal
    Max <- MCMax
    Speed <- MCSpeed
    Infinite = 99
    StartSyncs <- MCStartSyncs
    Autotrigger = {}
    Trigger <- MCTrigger
    Rated <- MCRated
    Conditional <- MCConditional
    ExclusiveModes = {FALSE}
    Ticks = {0, 1, 2, 3}
    Quanta = {}
    Clickable = {}
    Playable = {}
    MaxDate = 10
INVARIANTS
    TypeOK
    Punctual
PROPERTIES
    TickEnds
