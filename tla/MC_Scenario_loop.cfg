SPECIFICATION FairSpec
CONSTANTS
    Score <- Looping
    Syncs <- MCSyncs
    Events <- MCEvents
    Intervals <- MCIntervals
    SyncOf <- MCSyncOf
    StartEv <- MCStartEv
    EndEv <- MCEndEv
    Graphal <- MCGraphal
    Min <- MCMin
    Nominal <- MCNominal
    Max <- MCMax
    Speed <- MCSpeed
    Infinite = 99
    StartSyncs <- MCStartSyncs
    Autotrigger = {}
    Trigger <- MCTrigger
    Rated <- MCRated
    Conditional <- MCConditional
    ExclusiveModes = {FALSE}
    Ticks = {6}
    Quanta = {}
    Clickable = {}
    Playable = {}
    MaxDate = 6
PROPERTIES
    TickEnds
