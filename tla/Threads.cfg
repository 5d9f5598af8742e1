\* Safety and liveness, with every failure the environment can produce.
CONSTANTS
    N = 2
    MaxForeign = 2
    Autodiscover = TRUE
    KillMayMiss = TRUE
    FaultsAllowed = TRUE
SPECIFICATION ResolvedSpec
INVARIANTS
    NoUseAfterFree
    NoSecondJoin
    NoSpuriousCrash
    MutexComesBack
PROPERTIES
    SignalledStops
    CrashedThreadEndsProcess
\* The process ends.
CHECK_DEADLOCK FALSE
