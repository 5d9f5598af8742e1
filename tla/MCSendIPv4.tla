-------------------------------- MODULE MCSendIPv4 --------------------------------
(* TLC instance of SendIPv4: packets around every size at which the         *)
(* translator changes its mind, and fragments around the last offset.       *)
EXTENDS SendIPv4

Packet(size, ext, chunk, more, proto, inner, checksum) ==
    [size |-> size, ext |-> ext, offset |-> chunk, more |-> more,
     proto |-> proto, inner |-> inner, checksum |-> checksum]

\* Sizes of the payload.
Sizes == {0, 7, 8, 19, 23, 24, 76, 77, 104, 500, 1240, 1241, 1460, 1480, 1481, 1488, 2000}
FragmentSizes == {8, 76, 80, 96, 104, 1240, 1241, 1460, 1488}
Offsets == {0, 1, 8180, 8182, 8190, 8191}

MCPackets ==
    {Packet(40 + ext + s, ext, 0, FALSE, proto, 40, TRUE) :
        s \in Sizes, ext \in {0, 8}, proto \in {"tcp", "udp", "echo", "other"}}
    \cup
    {Packet(48 + s, 8, o, more, proto, 40, TRUE) :
        s \in FragmentSizes, o \in Offsets, more \in BOOLEAN, proto \in {"tcp", "udp", "echo", "other"}}
    \cup
    {Packet(40 + 8 + inner + quoted, 0, 0, FALSE, "error", inner, TRUE) :
        inner \in {40, 48}, quoted \in {0, 3, 4, 8, 48, 52, 528, 529, 1192, 2000}}
    \cup
    {Packet(40 + s, 0, 0, FALSE, "error", 40, TRUE) : s \in {7, 8, 47}}
    \cup
    {Packet(100, 0, 0, FALSE, "udp", 40, FALSE), Packet(65535, 0, 0, FALSE, "tcp", 40, TRUE)}
=============================================================================
