CONSTANTS
    Packets <- MCPackets
    Mtus6 = {1280, 1281, 1500, 65515}
    Mtus4 = {96, 1500}
SPECIFICATION Spec
INVARIANTS
    Reassembles
    GivesUpOnlyBeyondDatagram
    ReportedMtuWorks
