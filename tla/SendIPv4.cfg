CONSTANTS
    Packets <- MCPackets
    Mtus4 = {96, 97, 100, 576, 1259, 1260, 1261, 1500, 65515}
    Mtus6 = {1280, 1500}
SPECIFICATION Spec
INVARIANTS
    Reassembles
    ReportedMtuWorks
