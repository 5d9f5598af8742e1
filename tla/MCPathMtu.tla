------------------------------- MODULE MCPathMtu -------------------------------
(* TLC instance of PathMtu: a CLAT, a NAT64, both (464XLAT) in either       *)
(* direction, and two translators that join IPv6 networks.                  *)
EXTENDS PathMtu

Link(mtu) == [translator |-> FALSE, mtu4 |-> mtu, mtu6 |-> mtu, old |-> FALSE]
Old(mtu) == [Link(mtu) EXCEPT !.old = TRUE]
Xlat(mtu4, mtu6) == [translator |-> TRUE, mtu4 |-> mtu4, mtu6 |-> mtu6, old |-> FALSE]

Families(source, hops) ==
    LET f[k \in 1..(Len(hops) + 1)] ==
          IF k = 1 THEN source
          ELSE IF hops[k - 1].translator THEN 10 - f[k - 1] ELSE f[k - 1]
    IN  f

Path(source, first, ext, hops) ==
    [hops |-> hops, family |-> Families(source, hops), first |-> first, ext |-> ext]

Xlats == {Xlat(1480, 1500), Xlat(1000, 1400), Xlat(96, 1280)}
Links6 == {Link(1280), Link(1400)}
Links4 == {Link(68), Link(1259), Link(1270)}

MCPaths ==
    {Path(4, 1500, 0, <<x, l>>) : x \in Xlats, l \in Links6}
    \cup {Path(4, 1500, 0, <<Link(1492), x, l, y, m>>) :
            x \in {Xlat(1480, 1500), Xlat(1200, 1420)}, l \in Links6,
            y \in {Xlat(1480, 1500), Xlat(96, 1280)}, m \in Links4}
    \cup {Path(6, 1500, ext, <<l, x, m>>) :
            ext \in {0, 24}, l \in Links6, x \in Xlats, m \in Links4 \cup {Old(1400)}}
    \cup {Path(6, 1300, 0, <<Xlat(1480, 1500), m, Xlat(1500, 1500), l>>) :
            m \in {Link(1275), Link(1259)}, l \in Links6}
    \cup {Path(6, first, 0, <<Link(1520), Xlat(1495, 9000), m>>) :
            first \in {1512, 1520}, m \in {Link(1500), Old(1450)}}
    \cup {Path(6, 9000, 8, <<Xlat(8980, 9000), m>>) : m \in {Old(576), Old(1270)}}
    \cup {Path(6, 1500, 0, <<x, m, y, l>>) :
            x \in Xlats, m \in {Link(1259), Link(1400), Old(1300)},
            y \in {Xlat(1500, 1280), Xlat(1500, 1500)}, l \in Links6}
=============================================================================
