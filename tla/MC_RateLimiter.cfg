SPECIFICATION FairSpec
CONSTANTS
    Parameters = {1, 2}
    MaxPush = 3
    MaxErrors = 2
INVARIANTS Inv
PROPERTIES RefinesRegisters NewestIsSent
CHECK_DEADLOCK FALSE
