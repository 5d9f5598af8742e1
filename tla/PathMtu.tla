-------------------------------- MODULE PathMtu --------------------------------
(****************************************************************************)
(* Path MTU discovery through translators (xlat_4to6.c, xlat_6to4.c and the *)
(* MTUs of xlat_4to6_icmp.c, xlat_6to4_icmp.c).  A host sends packets as    *)
(* big as it believes the path allows.  A hop that cannot forward one says  *)
(* how much would fit; the report travels back through the translators      *)
(* before that hop, each of which recalculates it; the host takes it over.  *)
(* Headers grow and shrink on the way, so a report that is off by a few     *)
(* bytes sends the host into a black hole: it repeats what cannot pass.     *)
(*                                                                          *)
(* A path is its hops, links and translators in any order, and the protocol *)
(* family of the network before each hop and after the last.  An IPv4 host  *)
(* sets DF and does not fragment.  An IPv6 host may send extension headers, *)
(* which the first translator strips.  The hosts, the links and their       *)
(* routers are not the program's; what they do is RFC 1191 and RFC 8201.    *)
(****************************************************************************)
EXTENDS IcmpTranslation, Sequences, FiniteSets

CONSTANTS
    Paths,      \* paths, each with the size of the host's first packet
    MaxHops,    \* the most hops a path has
    MaxReports  \* the most reports on their way at once

\* A hop: a translator with its outbound MTUs, or a link with one MTU.
\* An old router does not say what its MTU is.
IsHop(hop) ==
    /\ hop \in [translator : BOOLEAN, mtu4 : Nat, mtu6 : Nat, old : BOOLEAN]
    /\ hop.mtu4 <= 65515 /\ hop.mtu6 <= 65515
    /\ hop.translator => hop.mtu4 >= 96 /\ hop.mtu6 >= 1280 /\ ~hop.old

\* The link at place k of a path; only behind a translator may it be old.
IsLinkOf(p, k) ==
    /\ p.family[k] = 6 => p.hops[k].mtu6 >= 1280
    /\ p.family[k] = 4 => p.hops[k].mtu4 >= 68
    /\ p.hops[k].old => p.family[k] = 4 /\ p.family[1] = 6

HopsFit(p) ==
    /\ p.hops \in Seq([translator : BOOLEAN, mtu4 : Nat, mtu6 : Nat, old : BOOLEAN])
    /\ Len(p.hops) <= MaxHops
    /\ p.family \in [1..(Len(p.hops) + 1) -> {4, 6}]
    /\ \A k \in 1..Len(p.hops) :
         /\ IsHop(p.hops[k])
         /\ p.family[k + 1] = IF p.hops[k].translator THEN 10 - p.family[k] ELSE p.family[k]
         /\ ~p.hops[k].translator => IsLinkOf(p, k)

IsPath(p) ==
    /\ HopsFit(p)
    /\ p.first \in Nat /\ p.first >= 1280 /\ p.first <= 65515
    /\ p.ext \in Nat /\ p.ext % 8 = 0 /\ p.ext <= 1232
    /\ p.ext > 0 => p.family[1] = 6 /\ p.first >= 1280 + p.ext

ASSUME PathAssumption == \A p \in Paths : IsPath(p)

VARIABLES
    path,       \* one of the paths; it does not change
    pmtu,       \* the path MTU as the host believes it
    packet,     \* the packet on its way, and the size it was sent with
    reports,    \* the reports on their way back, each with the hop it is from
                \* and the size of the packet it is about as its sender knows it
    heeded      \* history: the reports the host has taken over, as the hop
                \* they were from and the MTU they named to the host

vars == <<path, pmtu, packet, reports, heeded>>

Hop == path.hops[packet.at]
Length == Len(path.hops)
Family(place) == path.family[place]
There == packet.at = Length + 1

\* Nothing is on its way.
NoPacket == [at |-> 0, size |-> 0, ext |-> 0, df |-> FALSE, fragmented |-> FALSE, sent |-> 0]

Init ==
    /\ path \in Paths
    /\ pmtu = path.first
    /\ packet = NoPacket
    /\ reports = {}
    /\ heeded = {}

-----------------------------------------------------------------------------
(* What a hop does with a packet.                                           *)

\* An IPv4 and an IPv6 fragment of at most so many bytes: fragment offsets
\* count in units of 8 bytes.
Fragment4(mtu) == 20 + 8 * ((mtu - 20) \div 8)
Fragment6(mtu) == 48 + 8 * ((mtu - 48) \div 8)

\* The size a packet has once its IP header is translated.
Size6(p) == p.size + 20 + (IF p.fragmented THEN 8 ELSE 0)
Size4(p) == p.size - 20 - p.ext - (IF p.fragmented THEN 8 ELSE 0)

\* A translated packet gets DF unless its IPv6 packet fits into any MTU.
MayBeFragmented(size) == size <= 1260

\* _appropriately_send_ipv6_packet() and _appropriately_send_ipv4_packet()
Refused(p, hop, family) ==
    CASE ~hop.translator /\ family = 4 -> p.size > hop.mtu4 /\ p.df
      [] ~hop.translator /\ family = 6 -> p.size > hop.mtu6
      [] hop.translator /\ family = 4 -> Size6(p) > hop.mtu6 /\ p.df
      [] hop.translator /\ family = 6 -> Size4(p) > hop.mtu4 /\ ~MayBeFragmented(Size4(p))

\* Variation: the headers' difference is subtracted in both directions.
ReportedSmall(hop, family) ==
    CASE ~hop.translator /\ family = 4 -> IF hop.old THEN 0 ELSE hop.mtu4
      [] ~hop.translator /\ family = 6 -> hop.mtu6
      [] hop.translator /\ family = 4 -> hop.mtu6 - 28
      [] hop.translator /\ family = 6 -> Larger(1280, hop.mtu4 - 20)

\* The MTU a hop reports to the sender of a packet that it refuses.
Reported(hop, family) ==
    CASE ~hop.translator /\ family = 4 -> IF hop.old THEN 0 ELSE hop.mtu4
      [] ~hop.translator /\ family = 6 -> hop.mtu6
      [] hop.translator /\ family = 4 -> hop.mtu6 - 28
      [] hop.translator /\ family = 6 -> Larger(1280, Uint16(hop.mtu4 + 20))

\* What follows the hop: the packet, or the biggest of its fragments.
Forwarded(p, hop, family) ==
    CASE ~hop.translator ->
           IF family = 4 /\ p.size > hop.mtu4
           THEN [p EXCEPT !.at = @ + 1, !.size = Fragment4(hop.mtu4), !.fragmented = TRUE]
           ELSE [p EXCEPT !.at = @ + 1]
      [] hop.translator /\ family = 4 ->
           IF Size6(p) > hop.mtu6
           THEN [p EXCEPT !.at = @ + 1, !.size = Fragment6(hop.mtu6), !.fragmented = TRUE]
           ELSE [p EXCEPT !.at = @ + 1, !.size = Size6(p)]
      [] hop.translator /\ family = 6 ->
           IF Size4(p) > hop.mtu4
           THEN [p EXCEPT !.at = @ + 1, !.size = Fragment4(hop.mtu4), !.ext = 0,
                          !.fragmented = TRUE, !.df = FALSE]
           ELSE [p EXCEPT !.at = @ + 1, !.size = Size4(p), !.ext = 0,
                          !.df = ~MayBeFragmented(Size4(p))]

-----------------------------------------------------------------------------
Send ==
    /\ packet = NoPacket
    /\ packet' = [at |-> 1, size |-> pmtu, ext |-> path.ext, df |-> Family(1) = 4,
                  fragmented |-> FALSE, sent |-> pmtu]
    /\ UNCHANGED <<path, pmtu, reports, heeded>>

Travels == packet # NoPacket /\ ~There

Forward ==
    /\ Travels
    /\ ~Refused(packet, Hop, Family(packet.at))
    /\ packet' = Forwarded(packet, Hop, Family(packet.at))
    /\ UNCHANGED <<path, pmtu, reports, heeded>>

Refuse ==
    /\ Travels
    /\ Refused(packet, Hop, Family(packet.at))
    /\ Cardinality(reports) < MaxReports
    /\ reports' = reports \cup
         {[at |-> packet.at, from |-> packet.at, mtu |-> Reported(Hop, Family(packet.at)),
           total |-> packet.size, about |-> packet.sent]}
    /\ packet' = NoPacket
    /\ UNCHANGED <<path, pmtu, heeded>>

\* A packet or its report is lost, or no report is sent: the senders of
\* reports limit their rate.
Lose ==
    /\ Travels
    /\ packet' = NoPacket
    /\ UNCHANGED <<path, pmtu, reports, heeded>>

Arrive ==
    /\ packet # NoPacket /\ There
    /\ packet' = NoPacket
    /\ UNCHANGED <<path, pmtu, reports, heeded>>

\* A report is carried back over a hop: a translator recalculates it.
CarriedBack(r, hop, family) ==
    CASE ~hop.translator -> [r EXCEPT !.at = @ - 1]
      [] hop.translator /\ family = 4 ->
           LET mtu == IF r.mtu # 0 THEN r.mtu ELSE EstimatedMtu(28, r.total)
           IN  [r EXCEPT !.at = @ - 1, !.mtu = Mtu4to6(mtu, hop), !.total = @ + 20]
      [] hop.translator /\ family = 6 ->
           [r EXCEPT !.at = @ - 1, !.mtu = Mtu6to4(r.mtu, hop), !.total = @ - 20]

CarryBack(k) ==
    /\ \E r \in reports :
         /\ r.at = k
         /\ reports' = (reports \ {r}) \cup {CarriedBack(r, path.hops[k - 1], Family(k))}
    /\ UNCHANGED <<path, pmtu, packet, heeded>>

\* The smallest MTU that a host of a family believes in.
Smallest(family) == IF family = 4 THEN 68 ELSE 1280

\* The host takes a report over, unless it asks for what no link needs.
Receive ==
    /\ \E r \in reports :
         /\ r.at = 1
         /\ reports' = reports \ {r}
         /\ pmtu' = IF r.mtu >= Smallest(Family(1)) THEN Smaller(pmtu, r.mtu) ELSE pmtu
         /\ heeded' = IF r.mtu >= Smallest(Family(1)) THEN heeded \cup {<<r.from, r.mtu>>}
                      ELSE heeded
    /\ UNCHANGED <<path, packet>>

Next ==
    \/ Send \/ Forward \/ Refuse \/ Lose \/ Arrive \/ Receive
    \/ \E k \in 2..MaxHops : CarryBack(k)

Spec == Init /\ [][Next]_vars

\* Packets are sent again and again and, if nothing else, not all are lost at
\* the same hop; a report that was sent gets through.
FairSpec ==
    /\ Spec
    /\ WF_vars(Send) /\ WF_vars(Receive) /\ WF_vars(Arrive)
    /\ \A k \in 2..MaxHops : WF_vars(CarryBack(k))
    /\ SF_vars(Refuse)
    /\ \A k \in 1..MaxHops : SF_vars(Forward /\ packet.at = k)

-----------------------------------------------------------------------------
\* A report names an MTU that a network of its family may have; only an old
\* router names none.
TypeOK ==
    /\ path \in Paths
    /\ pmtu \in Nat /\ pmtu >= Smallest(Family(1)) /\ pmtu <= 65515
    /\ \/ packet = NoPacket
       \/ /\ packet \in [at : 1..(Length + 1), size : Nat, ext : Nat, df : BOOLEAN,
                         fragmented : BOOLEAN, sent : Nat]
          /\ packet.size > 0
    /\ reports \subseteq [at : 1..Length, from : 1..Length, mtu : Nat, total : Nat, about : Nat]
    /\ \A r \in reports :
         /\ r.mtu <= 65535
         /\ r.mtu >= Smallest(Family(r.at)) \/ (r.mtu = 0 /\ Family(r.at) = 4 /\ Family(1) = 6)
    /\ heeded \subseteq (1..Length) \X Nat

\* A report that reaches the host asks for less than the packet it is about:
\* the host can always do something about it.  It never asks for less than
\* any host of the family must be able to send.  And it is enough: once the
\* host has taken a report over, the hop it is from refuses no packet of a
\* size the report allows.  (An old router only makes the translator guess.)
ReportHelps ==
    /\ \A r \in reports : r.at = 1 => r.mtu < r.about /\ r.mtu >= Smallest(Family(1))
    /\ \A h \in heeded :
         Travels /\ packet.at = h[1] /\ packet.sent <= h[2] /\ ~Hop.old =>
             ~Refused(packet, Hop, Family(packet.at))

\* The limits a path sets, as the size of an IPv4 packet: those of its links
\* and those that its translators were given for the networks beside them.
Limits ==
    {path.hops[k].mtu4 :
       k \in {k \in 1..Length : path.hops[k].translator \/ Family(k) = 4}}
    \cup {path.hops[k].mtu6 - 20 :
       k \in {k \in 1..Length : path.hops[k].translator \/ Family(k) = 6}}

\* The host does not end up with less than the path allows, except for the
\* 8 bytes a translator keeps free for a fragment header.  (The estimate for
\* an old router's MTU may be lower.)
NotBelowPath ==
    (\A k \in 1..Length : ~path.hops[k].old) =>
        \/ pmtu = path.first
        \/ \E limit \in Limits :
             pmtu >= limit - 8 + (IF Family(1) = 6 THEN 20 ELSE 0)

\* Discovery gets on: what the host believes never grows, and a report about
\* a packet of that size, or a smaller one, always makes it smaller: nobody is
\* refused twice for the same size in vain.
DiscoveryAdvances ==
    [][/\ pmtu' <= pmtu
       /\ \A r \in reports \ reports' :
            r.at = 1 /\ r.about <= pmtu => pmtu' < pmtu]_vars

\* No hop, link or translator, refuses a fragment: nobody could act on the
\* report.
FragmentsPass ==
    packet # NoPacket /\ ~There /\ packet.fragmented =>
        ~Refused(packet, Hop, Family(packet.at))

\* As long as the host sends packets they get through again and again: there
\* is no black hole on any path.
PacketsArrive == []<>(packet # NoPacket /\ There)
=============================================================================
