SPECIFICATION FairSpec
CONSTANTS
    MaxProduce = 6
    Swapping = TRUE
INVARIANT Inv
PROPERTIES LastValueArrives RefinesRegister
CHECK_DEADLOCK FALSE
