CONSTANTS
    Transports = {"socket", "inherited-fds"}
    IdSpace = 3
    ServerFaults = {"duplicate", "malformed", "gone"}
    MaxLookups = 3
SPECIFICATION FairSpec
INVARIANTS
    InStep
    RequestsAreWhole
    CrashNeedsFault
    AnswerIsDue
PROPERTIES
    ImplementsLookup
    LookupAdvances
\* The lookups end.
CHECK_DEADLOCK FALSE
