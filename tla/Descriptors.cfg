CONSTANTS
    N = 3
    Fds = {0, 1, 2, 3, 4, 5, 6}
    Setups <- MCSetups
SPECIFICATION DescriptorsSpec
INVARIANTS
    UsesItsOwn
    NothingLeaks
    EndsInPeace
CHECK_DEADLOCK FALSE
