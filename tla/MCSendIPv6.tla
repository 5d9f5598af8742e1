------------------------------- MODULE MCSendIPv6 -------------------------------
(* TLC instance of SendIPv6: packets around every size at which the         *)
(* translator changes its mind, and fragments around the last offset.       *)
EXTENDS SendIPv6

Sizes == {28, 39, 43, 44, 1251, 1252, 1253, 1260, 1261, 1268, 1300, 1315, 1492,
          1500, 2500, 65535}
FragmentSizes == {44, 1252, 1260, 1261, 1268, 1315, 1316, 2500, 2596}
Offsets == {0, 1, 8000, 8030, 8191}

Packet(size, header, df, chunk, more, proto, checksum) ==
    [size |-> size, header |-> header, df |-> df, offset |-> chunk, more |-> more,
     proto |-> proto, checksum |-> checksum]

MCPackets ==
    {Packet(s, h, df, 0, FALSE, proto, TRUE) :
        s \in Sizes, h \in {20, 24}, df \in BOOLEAN, proto \in {"tcp", "udp", "icmp", "other"}}
    \cup
    {Packet(s, 20, df, o, more, proto, TRUE) :
        s \in FragmentSizes, df \in BOOLEAN, o \in Offsets, more \in BOOLEAN,
        proto \in {"tcp", "udp", "other"}}
    \cup
    {Packet(1500, 60, df, 0, FALSE, proto, FALSE) : df \in BOOLEAN, proto \in {"udp", "icmp"}}
=============================================================================
