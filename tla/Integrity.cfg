CONSTANTS
    BYTE = 4
    LittleEndian = TRUE
    Addresses4 <- MCAddresses4
    Prefix <- MCPrefix
    Data <- MCData
    MaxCrossings = 2
SPECIFICATION IntegritySpec
INVARIANTS
    IntactStaysRight
    DamageIsSeen
    OnlyBadIsDropped
