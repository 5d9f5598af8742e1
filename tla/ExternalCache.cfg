CONSTANTS
    a4 = a4
    b4 = b4
    z4 = z4
    x6 = x6
    y6 = y6
    z6 = z6
    Directions = {"4to6", "6to4"}
    Pairs4 <- MCPairs4
    Pairs6 <- MCPairs6
    Zero4 = z4
    Zero6 = z6
    Usable <- MCUsable
    Hash <- MCHash
    MainSize = 2
    ErrorSize = 1
    Lifetimes = {0, 1, 2}
    MaxTime = 7
    MaxAnswers = 2
SPECIFICATION Spec
INVARIANTS
    HitIsOwn
    HitIsFresh
    HitIsLatest
CHECK_DEADLOCK FALSE
