\* The process is told to stop while it looks for the prefix in DNS.
CONSTANTS
    N = 1
    MaxForeign = 0
    Autodiscover = TRUE
    KillMayMiss = FALSE
    FaultsAllowed = FALSE
SPECIFICATION FairSpec
PROPERTIES
    SignalledStops
CHECK_DEADLOCK FALSE
