------------------------------ MODULE MCHeaderWalks ------------------------------
(* TLC instance of HeaderWalks: all sequences of a few units and bytes that *)
(* are read as headers, their sizes and data.                               *)
EXTENDS HeaderWalks

U(next, length, isOdd, isMore) == [next |-> next, size |-> length, odd |-> isOdd, more |-> isMore]

MCUnits ==
    {U(n, s, FALSE, FALSE) : n \in {HOP_BY_HOP, ROUTING, FRAGMENT, 6}, s \in {0, 1}}
    \cup {U(6, 0, TRUE, FALSE), U(FRAGMENT, 0, TRUE, FALSE), U(51, 0, FALSE, FALSE),
          U(6, 0, FALSE, TRUE), U(ICMPV4, 0, FALSE, FALSE), U(DESTINATION, 254, FALSE, FALSE)}

MCPackets6 ==
    [first : {HOP_BY_HOP, ROUTING, FRAGMENT, 6},
     units : UNION {[1..n -> MCUnits] : n \in 0..3}, tail : {0, 5}]

MCOptions4 == UNION {[1..n -> {0, 1, 2, 3, 7, 131}] : n \in {0, 4}}
    \cup {o \in [1..8 -> {0, 1, 2, 3, 9, 137}] :
            /\ o[1] = 9 /\ o[2] \in {2, 3} /\ o[3] \in {9, 1} /\ o[4] \in {0, 9, 3}}
=============================================================================
