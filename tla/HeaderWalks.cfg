CONSTANTS
    Packets6 <- MCPackets6
    Options4 <- MCOptions4
SPECIFICATION FairSpec
INVARIANTS
    ReadsInside
    QuoteReadsAlike
    OptionsAreSound
PROPERTY WalksEnd
