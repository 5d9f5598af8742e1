------------------------------- MODULE IcmpProofs -------------------------------
(****************************************************************************)
(* Proofs about ICMP messages: about PathMtu, for paths of any length and   *)
(* any MTUs, and about IcmpErrors, for all messages and configurations.     *)
(*                                                                          *)
(* What a host can rely on in path MTU discovery rests on what is known of  *)
(* every packet and of every report on its way: GoodPacket and GoodReport.  *)
(* Both compare a size with the size that the host's packet has in the      *)
(* family of the network it is in.  What it can rely on in an error message *)
(* rests on what one translator does to it (Made), which for two of them is *)
(* the same relation again.                                                 *)
(****************************************************************************)
EXTENDS PathMtu, IcmpErrors, TLAPS

\* The size in family f of an unfragmented packet without extension headers
\* that has size s in family f0.
SizeIn(f, f0, s) == s + (IF f = f0 THEN 0 ELSE IF f = 6 THEN 20 ELSE -20)

\* There is no translator between the host and this place of its path.
First(p, place) == \A j \in 1..(place - 1) : ~p.hops[j].translator

Packets == [at : Nat, size : Nat, ext : Nat, df : BOOLEAN, fragmented : BOOLEAN, sent : Nat]

GoodPacket(p, f, f0, first) ==
    /\ p \in Packets
    /\ f = 4 => p.size >= 28 /\ p.ext = 0
    /\ f = 6 => p.size >= 48
    /\ p.ext > 0 => p.size >= 1280 /\ p.ext <= 1232 /\ ~p.fragmented
    /\ ~p.fragmented => p.size <= SizeIn(f, f0, p.sent)
    /\ p.fragmented /\ f = 4 => p.size >= 68 /\ p.size <= 1252 /\ ~p.df
    /\ p.fragmented /\ f = 6 => p.size >= 96 /\ p.size <= 1280
    /\ f = 4 /\ ~p.df => p.size <= 1260
    /\ f = 4 /\ p.df => p.size > 1260 \/ (first /\ f0 = 4)

Reports == [at : Nat, from : Nat, mtu : Nat, total : Nat, about : Nat]

GoodReport(r, f, f0, first) ==
    /\ r \in Reports
    /\ r.mtu <= 65535
    /\ r.mtu >= Smallest(f) \/ (r.mtu = 0 /\ f = 4 /\ f0 = 6)
    /\ r.mtu < SizeIn(f, f0, r.about)
    /\ f = 4 => r.total >= 28
    /\ f = 6 => r.total >= 48
    /\ r.mtu = 0 => r.total <= SizeIn(4, f0, r.about) /\ r.total > 68
    /\ SizeIn(4, f0, r.about) > 1260 \/ (first /\ f0 = 4)

Other(hop, f) == IF hop.translator THEN 10 - f ELSE f

\* What is known of a hop of a path.
GoodHop(hop, f, f0) ==
    /\ IsHop(hop)
    /\ ~hop.translator =>
         /\ f = 6 => hop.mtu6 >= 1280
         /\ f = 4 => hop.mtu4 >= 68
         /\ hop.old => f = 4 /\ f0 = 6

-----------------------------------------------------------------------------
LEMMA Fragment4Bounds ==
    ASSUME NEW mtu \in Nat, mtu >= 68
    PROVE  /\ Fragment4(mtu) \in Nat
           /\ Fragment4(mtu) >= 68 /\ Fragment4(mtu) <= mtu
           /\ mtu < 1260 => Fragment4(mtu) <= 1252
BY DEF Fragment4

LEMMA ForwardedGoesOn ==
    ASSUME NEW p \in Packets, NEW hop, NEW f \in {4, 6}, hop.translator \in BOOLEAN
    PROVE  Forwarded(p, hop, f).at = p.at + 1
BY DEF Forwarded, Packets

\* A packet that is not refused is still good behind the hop.
LEMMA ForwardedIsGood ==
    ASSUME NEW p, NEW hop, NEW f \in {4, 6}, NEW f0 \in {4, 6}, NEW first \in BOOLEAN,
           GoodHop(hop, f, f0), GoodPacket(p, f, f0, first), ~Refused(p, hop, f)
    PROVE  GoodPacket(Forwarded(p, hop, f), Other(hop, f), f0, first /\ ~hop.translator)
<1>0. hop \in [translator : BOOLEAN, mtu4 : Nat, mtu6 : Nat, old : BOOLEAN]
  BY DEF GoodHop, IsHop
<1>p. /\ p \in Packets
      /\ p.size \in Nat /\ p.ext \in Nat /\ p.at \in Nat /\ p.sent \in Nat
  BY DEF GoodPacket, Packets
<1>a. p.at + 1 \in Nat
  BY <1>p
<1> DEFINE n == Forwarded(p, hop, f)
<1>1. CASE ~hop.translator /\ f = 4 /\ p.size > hop.mtu4
  <2>1. Forwarded(p, hop, f)
          = [p EXCEPT !.at = @ + 1, !.size = Fragment4(hop.mtu4), !.fragmented = TRUE]
    BY <1>1 DEF Forwarded
  <2>2. /\ ~p.df /\ p.size <= 1260 /\ p.ext = 0
        /\ hop.mtu4 >= 68 /\ hop.mtu4 < 1260
    BY <1>0, <1>1, <1>p DEF GoodHop, GoodPacket, Refused
  <2>3. /\ Fragment4(hop.mtu4) \in Nat
        /\ Fragment4(hop.mtu4) >= 68 /\ Fragment4(hop.mtu4) <= 1252
    BY <1>0, <2>2, Fragment4Bounds
  <2>4. n \in Packets
    BY <1>p, <1>a, <2>1, <2>3, Zenon DEF Packets
  <2>7. /\ n.size = Fragment4(hop.mtu4) /\ n.fragmented
        /\ n.df = p.df /\ n.ext = p.ext /\ n.sent = p.sent
    BY <1>p, <2>1 DEF Packets
  <2>5. Other(hop, f) = 4
    BY <1>1 DEF Other
  <2> HIDE DEF n
  <2>6. GoodPacket(n, 4, f0, first /\ ~hop.translator)
    BY <2>2, <2>3, <2>4, <2>7 DEF GoodPacket
  <2> QED BY <2>5, <2>6 DEF n
<1>2. CASE ~hop.translator /\ ~(f = 4 /\ p.size > hop.mtu4)
  <2>1. Forwarded(p, hop, f) = [p EXCEPT !.at = @ + 1]
    BY <1>2 DEF Forwarded
  <2>2. n \in Packets
    BY <1>p, <1>a, <2>1, Zenon DEF Packets
  <2>3. /\ n.size = p.size /\ n.fragmented = p.fragmented
        /\ n.df = p.df /\ n.ext = p.ext /\ n.sent = p.sent
    BY <1>p, <2>1 DEF Packets
  <2>4. Other(hop, f) = f
    BY <1>2 DEF Other
  <2> HIDE DEF n
  <2>5. GoodPacket(n, f, f0, first /\ ~hop.translator)
    BY <1>2, <2>2, <2>3 DEF GoodPacket
  <2> QED BY <2>4, <2>5 DEF n
<1>3. CASE hop.translator /\ f = 4
  <2>0. p.ext = 0 /\ p.size >= 28 /\ hop.mtu6 >= 1280
    BY <1>0, <1>3 DEF GoodPacket, GoodHop, IsHop
  <2>1. Size6(p) <= hop.mtu6
    BY <1>0, <1>3, <1>p, <2>0 DEF GoodPacket, Refused, Size6
  <2>2. Forwarded(p, hop, f) = [p EXCEPT !.at = @ + 1, !.size = Size6(p)]
    BY <1>0, <1>3, <1>p, <2>1 DEF Forwarded, Size6
  <2>5. Other(hop, f) = 6
    BY <1>3 DEF Other
  <2>7. Size6(p) \in Nat
    BY <1>p DEF Size6
  <2>6. n \in Packets
    BY <1>p, <1>a, <2>2, <2>7, Zenon DEF Packets
  <2>3. CASE p.fragmented
    <3>1. Size6(p) = p.size + 28
      BY <1>p, <2>3 DEF Size6
    <3>2. p.size >= 68 /\ p.size <= 1252
      BY <1>3, <2>3 DEF GoodPacket
    <3>3. /\ n.size = p.size + 28 /\ n.fragmented /\ n.ext = 0
      BY <1>p, <2>0, <2>2, <2>3, <3>1 DEF Packets
    <3> HIDE DEF n
    <3>4. GoodPacket(n, 6, f0, first /\ ~hop.translator)
      BY <1>p, <2>6, <3>2, <3>3 DEF GoodPacket
    <3> QED BY <2>5, <3>4 DEF n
  <2>4. CASE ~p.fragmented
    <3>1. Size6(p) = p.size + 20
      BY <1>p, <2>4 DEF Size6
    <3>2. p.size + 20 <= SizeIn(6, f0, p.sent)
      BY <1>3, <1>p, <2>4 DEF GoodPacket, SizeIn
    <3>3. /\ n.size = p.size + 20 /\ ~n.fragmented /\ n.ext = 0
          /\ n.sent = p.sent
      BY <1>p, <2>0, <2>2, <2>4, <3>1 DEF Packets
    <3> HIDE DEF n
    <3>4. GoodPacket(n, 6, f0, first /\ ~hop.translator)
      BY <1>p, <2>0, <2>6, <3>2, <3>3 DEF GoodPacket
    <3> QED BY <2>5, <3>4 DEF n
  <2> QED BY <2>3, <2>4
<1>4. CASE hop.translator /\ f = 6
  <2>0. hop.mtu4 >= 96 /\ Size4(p) \in Int /\ Size4(p) >= 28
    BY <1>0, <1>4, <1>p DEF GoodPacket, GoodHop, IsHop, Size4
  <2>3. Other(hop, f) = 4
    BY <1>4 DEF Other
  <2>1. CASE Size4(p) > hop.mtu4
    <3>1. Forwarded(p, hop, f)
            = [p EXCEPT !.at = @ + 1, !.size = Fragment4(hop.mtu4), !.ext = 0,
                        !.fragmented = TRUE, !.df = FALSE]
      BY <1>4, <2>1 DEF Forwarded
    <3>2. hop.mtu4 < 1260
      BY <1>0, <1>4, <2>0, <2>1 DEF Refused, MayBeFragmented
    <3>3. /\ Fragment4(hop.mtu4) \in Nat
          /\ Fragment4(hop.mtu4) >= 68 /\ Fragment4(hop.mtu4) <= 1252
      BY <1>0, <2>0, <3>2, Fragment4Bounds
    <3>6. n \in Packets
      <4>1. 0 \in Nat
        OBVIOUS
      <4> QED BY <1>p, <1>a, <3>1, <3>3, <4>1, Zenon DEF Packets
    <3>4. n.size = Fragment4(hop.mtu4) /\ n.fragmented /\ ~n.df /\ n.ext = 0
      BY <1>p, <3>1 DEF Packets
    <3> HIDE DEF n
    <3>5. GoodPacket(n, 4, f0, first /\ ~hop.translator)
      BY <3>3, <3>4, <3>6 DEF GoodPacket
    <3> QED BY <2>3, <3>5 DEF n
  <2>2. CASE Size4(p) <= hop.mtu4
    <3>1. Forwarded(p, hop, f)
            = [p EXCEPT !.at = @ + 1, !.size = Size4(p), !.ext = 0,
                        !.df = ~MayBeFragmented(Size4(p))]
      BY <1>0, <1>4, <2>0, <2>2 DEF Forwarded
    <3>2. ~p.fragmented => Size4(p) <= SizeIn(4, f0, p.sent)
      BY <1>4, <1>p DEF GoodPacket, SizeIn, Size4
    <3>3. p.fragmented => Size4(p) >= 68 /\ Size4(p) <= 1252
      BY <1>4, <1>p, <2>0 DEF GoodPacket, Size4
    <3>4. MayBeFragmented(Size4(p)) <=> Size4(p) <= 1260
      BY DEF MayBeFragmented
    <3>5. Size4(p) \in Nat /\ (~MayBeFragmented(Size4(p))) \in BOOLEAN /\ 0 \in Nat
      BY <2>0 DEF MayBeFragmented
    <3>6. n \in Packets
      BY <1>p, <1>a, <3>1, <3>5, Zenon DEF Packets
    <3>8. n.size = Size4(p) /\ n.ext = 0 /\ n.fragmented = p.fragmented /\ n.sent = p.sent
      BY <1>p, <3>1 DEF Packets
    <3>9. n.df <=> ~MayBeFragmented(Size4(p))
      BY <1>p, <3>1, Zenon DEF Packets
    <3> HIDE DEF n
    <3>7. GoodPacket(n, 4, f0, first /\ ~hop.translator)
      BY <2>0, <3>2, <3>3, <3>4, <3>6, <3>8, <3>9 DEF GoodPacket
    <3> QED BY <2>3, <3>7 DEF n
  <2> QED BY <1>0, <2>0, <2>1, <2>2
<1> QED BY <1>1, <1>2, <1>3, <1>4, <1>0

-----------------------------------------------------------------------------
LEMMA FragmentsAreNotRefused ==
    ASSUME NEW p, NEW hop, NEW f \in {4, 6}, NEW f0 \in {4, 6}, NEW first \in BOOLEAN,
           GoodHop(hop, f, f0), GoodPacket(p, f, f0, first), p.fragmented
    PROVE  ~Refused(p, hop, f)
<1>1. /\ hop.translator \in BOOLEAN /\ hop.mtu4 \in Nat /\ hop.mtu6 \in Nat
      /\ p.size \in Nat /\ p.ext \in Nat
  BY DEF GoodHop, IsHop, GoodPacket, Packets
<1>2. CASE f = 4
  <2>1. ~p.df
    BY <1>2 DEF GoodPacket
  <2>2. CASE hop.translator
    BY <1>2, <2>1, <2>2 DEF Refused
  <2>3. CASE ~hop.translator
    BY <1>2, <2>1, <2>3 DEF Refused
  <2> QED BY <2>2, <2>3
<1>3. CASE f = 6
  <2>1. p.size <= 1280 /\ p.ext = 0
    BY <1>1, <1>3 DEF GoodPacket
  <2>2. CASE hop.translator
    BY <1>1, <1>3, <2>1, <2>2 DEF Refused, Size4, MayBeFragmented
  <2>3. CASE ~hop.translator
    BY <1>1, <1>3, <2>1, <2>3 DEF Refused, GoodHop
  <2> QED BY <2>2, <2>3
<1> QED BY <1>2, <1>3

\* A hop that refuses a good packet sends a good report.
LEMMA RefusalIsGood ==
    ASSUME NEW p, NEW hop, NEW f \in {4, 6}, NEW f0 \in {4, 6}, NEW first \in BOOLEAN,
           GoodHop(hop, f, f0), GoodPacket(p, f, f0, first), Refused(p, hop, f),
           NEW r, r = [at |-> p.at, from |-> p.at, mtu |-> Reported(hop, f), total |-> p.size,
                       about |-> p.sent]
    PROVE  GoodReport(r, f, f0, first)
<1>1. /\ hop.translator \in BOOLEAN /\ hop.old \in BOOLEAN
      /\ hop.mtu4 \in Nat /\ hop.mtu6 \in Nat /\ hop.mtu4 <= 65515 /\ hop.mtu6 <= 65515
      /\ hop.translator => hop.mtu4 >= 96 /\ hop.mtu6 >= 1280 /\ ~hop.old
  BY DEF GoodHop, IsHop
<1>2. p.at \in Nat /\ p.size \in Nat /\ p.ext \in Nat /\ p.sent \in Nat
  BY DEF GoodPacket, Packets
<1>3. ~p.fragmented
  BY FragmentsAreNotRefused
<1>4. p.size <= SizeIn(f, f0, p.sent)
  BY <1>3 DEF GoodPacket
<1>5. f = 4 => p.size >= 28
  BY DEF GoodPacket
<1>6. f = 6 => p.size >= 48
  BY DEF GoodPacket
<1>7. SizeIn(6, f0, p.sent) = SizeIn(4, f0, p.sent) + 20
      /\ SizeIn(4, f0, p.sent) \in Int
  BY <1>2 DEF SizeIn
<1>8. /\ r.at = p.at /\ r.mtu = Reported(hop, f) /\ r.total = p.size /\ r.about = p.sent
  OBVIOUS
<1> SUFFICES
      ASSUME NEW mtu \in Nat, mtu = Reported(hop, f)
      PROVE  /\ mtu <= 65535
             /\ mtu >= Smallest(f) \/ (mtu = 0 /\ f = 4 /\ f0 = 6)
             /\ mtu < SizeIn(f, f0, p.sent)
             /\ mtu = 0 => p.size <= SizeIn(4, f0, p.sent) /\ p.size > 68
             /\ SizeIn(4, f0, p.sent) > 1260 \/ (first /\ f0 = 4)
  <2>1. Reported(hop, f) \in Nat
    BY <1>1 DEF Reported, Larger, Uint16
  <2>2. r \in Reports
    BY <1>2, <2>1 DEF Reports
  <2> QED BY <1>5, <1>6, <1>8, <2>1, <2>2 DEF GoodReport
<1>9. CASE ~hop.translator /\ f = 4
  <2>1. p.size > hop.mtu4 /\ p.df
    BY <1>9 DEF Refused
  <2>2. p.size > 1260 \/ (first /\ f0 = 4)
    BY <1>9, <2>1 DEF GoodPacket
  <2>3. hop.mtu4 >= 68 /\ (hop.old => f0 = 6)
    BY <1>9 DEF GoodHop
  <2>4. mtu = IF hop.old THEN 0 ELSE hop.mtu4
    BY <1>9 DEF Reported
  <2> QED BY <1>1, <1>2, <1>4, <1>5, <1>7, <1>9, <2>1, <2>2, <2>3, <2>4 DEF Smallest
<1>10. CASE ~hop.translator /\ f = 6
  <2>1. p.size > hop.mtu6
    BY <1>10 DEF Refused
  <2>2. hop.mtu6 >= 1280
    BY <1>10 DEF GoodHop
  <2>3. mtu = hop.mtu6
    BY <1>10 DEF Reported
  <2>4. p.size <= SizeIn(6, f0, p.sent) /\ Smallest(f) = 1280
    BY <1>4, <1>10 DEF Smallest
  <2> QED BY <1>1, <1>2, <1>7, <1>10, <2>1, <2>2, <2>3, <2>4
<1>11. CASE hop.translator /\ f = 4
  <2>1. p.size + 20 > hop.mtu6 /\ p.df
    BY <1>2, <1>3, <1>11 DEF Refused, Size6
  <2>2. p.size > 1260 \/ (first /\ f0 = 4)
    BY <1>11, <2>1 DEF GoodPacket
  <2>3. mtu = hop.mtu6 - 28
    BY <1>11 DEF Reported
  <2> QED BY <1>1, <1>2, <1>4, <1>7, <1>11, <2>1, <2>2, <2>3 DEF Smallest
<1>12. CASE hop.translator /\ f = 6
  <2>1. p.size - 20 - p.ext > hop.mtu4 /\ p.size - 20 - p.ext > 1260
    BY <1>1, <1>2, <1>3, <1>12 DEF Refused, Size4, MayBeFragmented
  <2>2. mtu = Larger(1280, hop.mtu4 + 20)
    BY <1>1, <1>12 DEF Reported, Uint16
  <2>3. p.size <= SizeIn(6, f0, p.sent) /\ Smallest(f) = 1280
    BY <1>4, <1>12 DEF Smallest
  <2>4. mtu >= 1280 /\ mtu <= 65535 /\ mtu < p.size
    BY <1>1, <1>2, <2>1, <2>2 DEF Larger
  <2> QED BY <1>2, <1>7, <1>12, <2>1, <2>3, <2>4
<1> QED BY <1>1, <1>9, <1>10, <1>11, <1>12

-----------------------------------------------------------------------------
\* The estimate for an old router lies below the packet it refused.
LEMMA EstimateBelow ==
    ASSUME NEW total \in Nat, total > 68
    PROVE  /\ EstimatedMtu(28, total) \in Nat
           /\ EstimatedMtu(28, total) <= 65535 /\ EstimatedMtu(28, total) < total
<1>1. \E p \in Plateaus : p < total /\ \A q \in Plateaus : q < total => q <= p
  BY DEF Plateaus
<1>2. PlateauBelow(total)
        = CHOOSE p \in Plateaus : p < total /\ \A q \in Plateaus : q < total => q <= p
  BY <1>1 DEF PlateauBelow
<1>3. PlateauBelow(total) \in Plateaus /\ PlateauBelow(total) < total
  BY <1>1, <1>2
<1>4. \A p \in Plateaus : p \in Nat /\ p <= 65535
  BY DEF Plateaus
<1> QED BY <1>3, <1>4 DEF EstimatedMtu

LEMMA Mtu4to6Bounds ==
    ASSUME NEW mtu \in Nat, mtu <= 65535, NEW c, c.mtu4 \in Nat, c.mtu6 \in Nat,
           c.mtu4 <= 65515, c.mtu6 <= 65515, c.mtu4 >= 96, c.mtu6 >= 1280
    PROVE  /\ Mtu4to6(mtu, c) \in Nat
           /\ Mtu4to6(mtu, c) >= 1280 /\ Mtu4to6(mtu, c) <= 65535
           /\ Mtu4to6(mtu, c) <= 1280 \/ Mtu4to6(mtu, c) <= mtu + 20
BY DEF Mtu4to6, Uint16, Smaller, Larger

LEMMA Mtu6to4Bounds ==
    ASSUME NEW mtu \in Nat, mtu <= 65535, mtu >= 1280, NEW c, c.mtu4 \in Nat, c.mtu6 \in Nat,
           c.mtu4 <= 65515, c.mtu6 <= 65515, c.mtu4 >= 96, c.mtu6 >= 1280
    PROVE  /\ Mtu6to4(mtu, c) \in Nat
           /\ Mtu6to4(mtu, c) >= 68 /\ Mtu6to4(mtu, c) <= mtu - 20
BY DEF Mtu6to4, Uint16, Smaller, Larger

\* A good report is still good when it has been carried back over a hop.
LEMMA CarriedBackIsGood ==
    ASSUME NEW r, NEW hop, NEW g \in {4, 6}, NEW f0 \in {4, 6},
           NEW first \in BOOLEAN, NEW before \in BOOLEAN,
           GoodHop(hop, g, f0), NEW f \in {4, 6}, f = Other(hop, g),
           GoodReport(r, f, f0, first), r.at >= 1,
           first => before /\ ~hop.translator,
           NEW n, n = CarriedBack(r, hop, f)
    PROVE  GoodReport(n, g, f0, before) /\ n.at = r.at - 1 /\ n.from = r.from
<1>1. /\ hop.translator \in BOOLEAN
      /\ hop.mtu4 \in Nat /\ hop.mtu6 \in Nat /\ hop.mtu4 <= 65515 /\ hop.mtu6 <= 65515
      /\ hop.translator => hop.mtu4 >= 96 /\ hop.mtu6 >= 1280
  BY DEF GoodHop, IsHop
<1>2. r \in Reports /\ r.at \in Nat /\ r.from \in Nat /\ r.mtu \in Nat /\ r.total \in Nat /\ r.about \in Nat
  BY DEF GoodReport, Reports
<1>3. r.at - 1 \in Nat
  BY <1>2
<1>4. /\ SizeIn(6, f0, r.about) = SizeIn(4, f0, r.about) + 20
      /\ SizeIn(4, f0, r.about) \in Int
  BY <1>2 DEF SizeIn
<1>5. CASE ~hop.translator
  <2>1. n = [r EXCEPT !.at = @ - 1]
    BY <1>5 DEF CarriedBack
  <2>2. n \in Reports
    BY <1>2, <1>3, <2>1, Zenon DEF Reports
  <2>3. /\ n.at = r.at - 1 /\ n.mtu = r.mtu /\ n.total = r.total /\ n.about = r.about
        /\ n.from = r.from
    BY <1>2, <2>1 DEF Reports
  <2>4. f = g
    BY <1>5 DEF Other
  <2> QED BY <2>2, <2>3, <2>4 DEF GoodReport
<1>6. CASE hop.translator /\ f = 4
  <2>1. g = 6 /\ ~first
    BY <1>6 DEF Other
  <2>2. PICK mtu : mtu = IF r.mtu # 0 THEN r.mtu ELSE EstimatedMtu(28, r.total)
    OBVIOUS
  <2>3. n = [r EXCEPT !.at = @ - 1, !.mtu = Mtu4to6(mtu, hop), !.total = @ + 20]
    BY <1>6, <2>2 DEF CarriedBack
  <2>4. /\ r.mtu <= 65535 /\ r.mtu < SizeIn(4, f0, r.about) /\ r.total >= 28
        /\ r.mtu = 0 => r.total <= SizeIn(4, f0, r.about) /\ r.total > 68
        /\ SizeIn(4, f0, r.about) > 1260
    BY <1>6, <2>1 DEF GoodReport
  <2>5. mtu \in Nat /\ mtu < SizeIn(4, f0, r.about) /\ mtu <= 65535
    BY <1>2, <1>4, <2>2, <2>4, EstimateBelow
  <2>6. Mtu4to6(mtu, hop) \in Nat
    BY <1>1, <1>6, <2>5, Mtu4to6Bounds
  <2>7. /\ Mtu4to6(mtu, hop) >= 1280 /\ Mtu4to6(mtu, hop) <= 65535
        /\ Mtu4to6(mtu, hop) < SizeIn(6, f0, r.about)
    BY <1>1, <1>4, <1>6, <2>4, <2>5, <2>6, Mtu4to6Bounds
  <2>8. r.total + 20 \in Nat
    BY <1>2
  <2>9. n \in Reports
    BY <1>2, <1>3, <2>3, <2>6, <2>8, Zenon DEF Reports
  <2>10. /\ n.at = r.at - 1 /\ n.mtu = Mtu4to6(mtu, hop) /\ n.total = r.total + 20
         /\ n.about = r.about /\ n.from = r.from
    BY <1>2, <2>3 DEF Reports
  <2> QED BY <1>2, <1>4, <2>1, <2>4, <2>6, <2>7, <2>9, <2>10 DEF GoodReport, Smallest
<1>7. CASE hop.translator /\ f = 6
  <2>1. g = 4 /\ ~first
    BY <1>7 DEF Other
  <2>2. n = [r EXCEPT !.at = @ - 1, !.mtu = Mtu6to4(r.mtu, hop), !.total = @ - 20]
    BY <1>7 DEF CarriedBack
  <2>3. /\ r.mtu <= 65535 /\ r.mtu >= 1280 /\ r.mtu < SizeIn(6, f0, r.about)
        /\ r.total >= 48 /\ SizeIn(4, f0, r.about) > 1260
    BY <1>7, <2>1 DEF GoodReport, Smallest
  <2>4. /\ Mtu6to4(r.mtu, hop) \in Nat
        /\ Mtu6to4(r.mtu, hop) >= 68 /\ Mtu6to4(r.mtu, hop) <= r.mtu - 20
    BY <1>1, <1>2, <1>7, <2>3, Mtu6to4Bounds
  <2>5. r.total - 20 \in Nat
    BY <1>2, <2>3
  <2>6. n \in Reports
    BY <1>2, <1>3, <2>2, <2>4, <2>5, Zenon DEF Reports
  <2>7. /\ n.at = r.at - 1 /\ n.mtu = Mtu6to4(r.mtu, hop) /\ n.total = r.total - 20
        /\ n.about = r.about /\ n.from = r.from
    BY <1>2, <2>2 DEF Reports
  <2> QED BY <1>2, <1>4, <2>1, <2>3, <2>4, <2>6, <2>7 DEF GoodReport, Smallest
<1> QED BY <1>1, <1>5, <1>6, <1>7

-----------------------------------------------------------------------------
\* What is known of a path that meets the assumption.
LEMMA PathFacts ==
    ASSUME path \in Paths
    PROVE  /\ Length \in Nat
           /\ \A k \in 1..(Length + 1) : Family(k) \in {4, 6}
           /\ \A k \in 1..Length : /\ GoodHop(path.hops[k], Family(k), Family(1))
                                  /\ path.hops[k].translator \in BOOLEAN
                                  /\ Family(k + 1) = Other(path.hops[k], Family(k))
                                  /\ Family(k) = Other(path.hops[k], Family(k + 1))
           /\ path.first \in Nat /\ path.first >= 1280 /\ path.first <= 65515
           /\ path.ext \in Nat /\ path.ext <= 1232
           /\ path.ext > 0 => Family(1) = 6
<1>0. IsPath(path)
  BY PathAssumption
<1>1. HopsFit(path)
  BY <1>0 DEF IsPath
<1>2. Length \in Nat
  <2>1. path.hops \in Seq([translator : BOOLEAN, mtu4 : Nat, mtu6 : Nat, old : BOOLEAN])
    BY <1>1, Zenon DEF HopsFit
  <2> QED BY <2>1 DEF Length
<1>3. \A k \in 1..(Length + 1) : Family(k) \in {4, 6}
  <2>1. path.family \in [1..(Length + 1) -> {4, 6}]
    BY <1>1, Zenon DEF HopsFit, Length
  <2> QED BY <2>1 DEF Family
<1>4. ASSUME NEW k \in 1..Length
      PROVE  /\ GoodHop(path.hops[k], Family(k), Family(1))
             /\ path.hops[k].translator \in BOOLEAN
             /\ Family(k + 1) = Other(path.hops[k], Family(k))
             /\ Family(k) = Other(path.hops[k], Family(k + 1))
  <2>1. /\ IsHop(path.hops[k])
        /\ path.family[k + 1] = IF path.hops[k].translator THEN 10 - path.family[k]
                                ELSE path.family[k]
        /\ ~path.hops[k].translator => IsLinkOf(path, k)
    BY <1>1, Zenon DEF HopsFit, Length
  <2>2. path.hops[k].translator \in BOOLEAN
    BY <2>1 DEF IsHop
  <2>3. Family(k + 1) = Other(path.hops[k], Family(k))
    BY <2>1 DEF Family, Other
  <2>4. Family(k) \in {4, 6}
    BY <1>2, <1>3
  <2>5. Family(k) = Other(path.hops[k], Family(k + 1))
    BY <2>3, <2>4 DEF Other
  <2>6. GoodHop(path.hops[k], Family(k), Family(1))
    BY <2>1, Zenon DEF GoodHop, IsLinkOf, Family
  <2> QED BY <2>2, <2>3, <2>5, <2>6
<1>5. /\ path.first \in Nat /\ path.first >= 1280 /\ path.first <= 65515
      /\ path.ext \in Nat /\ path.ext <= 1232
      /\ path.ext > 0 => Family(1) = 6
  BY <1>0 DEF IsPath, Family
<1> QED BY <1>2, <1>3, <1>4, <1>5

LEMMA FirstFacts ==
    /\ First(path, 1) = TRUE
    /\ \A k \in Nat : First(path, k) \in BOOLEAN
    /\ \A k \in Nat \ {0} : First(path, k + 1) <=> First(path, k) /\ ~path.hops[k].translator
BY DEF First

-----------------------------------------------------------------------------
\* The inductive invariant.
PmtuKnown(p, mtu) == mtu \in Nat /\ mtu >= Smallest(p.family[1]) /\ mtu <= 65515

PacketKnown(p, q) ==
    q = NoPacket \/
      /\ q.at \in 1..(Len(p.hops) + 1)
      /\ GoodPacket(q, p.family[q.at], p.family[1], First(p, q.at))

ReportKnown(p, r) ==
    /\ r.at \in 1..Len(p.hops)
    /\ r.from \in r.at..Len(p.hops)
    /\ GoodReport(r, p.family[r.at], p.family[1], First(p, r.at))

IInv ==
    /\ path \in Paths
    /\ PmtuKnown(path, pmtu)
    /\ PacketKnown(path, packet)
    /\ \A r \in reports : ReportKnown(path, r)
    /\ heeded \subseteq (1..Length) \X Nat

LEMMA InitIInv == Init => IInv
<1> SUFFICES ASSUME Init PROVE IInv
  OBVIOUS
<1>1. path \in Paths /\ pmtu = path.first /\ packet = NoPacket /\ reports = {} /\ heeded = {}
  BY DEF Init
<1>2. Smallest(Family(1)) <= 1280
  BY DEF Smallest
<1>3. Smallest(Family(1)) \in Nat
  BY DEF Smallest
<1>4. PmtuKnown(path, pmtu)
  BY <1>1, <1>2, <1>3, PathFacts DEF PmtuKnown, Family
<1>5. PacketKnown(path, packet)
  BY <1>1 DEF PacketKnown
<1> QED BY <1>1, <1>4, <1>5 DEF IInv

\* A packet as it leaves the host.
LEMMA SentIsGood ==
    ASSUME IInv,
           NEW p, p = [at |-> 1, size |-> pmtu, ext |-> path.ext, df |-> Family(1) = 4,
                       fragmented |-> FALSE, sent |-> pmtu]
    PROVE  p.at = 1 /\ GoodPacket(p, Family(1), Family(1), First(path, 1))
<1>1. /\ path \in Paths
      /\ pmtu \in Nat /\ pmtu >= Smallest(Family(1)) /\ pmtu <= 65515
  BY DEF IInv, PmtuKnown, Family
<1>2. Length \in Nat /\ path.ext \in Nat /\ path.ext <= 1232 /\ (path.ext > 0 => Family(1) = 6)
  BY <1>1, PathFacts
<1>3. Family(1) \in {4, 6}
  BY <1>1, <1>2, PathFacts
<1>4. /\ p.at = 1 /\ p.size = pmtu /\ p.ext = path.ext /\ ~p.fragmented
      /\ p.sent = pmtu /\ (p.df <=> Family(1) = 4)
  OBVIOUS
<1>5. p \in Packets
  <2>1. 1 \in Nat /\ (Family(1) = 4) \in BOOLEAN /\ FALSE \in BOOLEAN
    OBVIOUS
  <2>2. pmtu \in Nat /\ path.ext \in Nat
    BY <1>1, <1>2
  <2> QED BY <2>1, <2>2, Zenon DEF Packets
<1>6. pmtu <= SizeIn(Family(1), Family(1), pmtu)
  BY <1>1 DEF SizeIn
<1>7. First(path, 1) = TRUE
  BY FirstFacts
<1>8. pmtu >= 68 /\ (Family(1) = 6 => pmtu >= 1280)
  BY <1>1, <1>3 DEF Smallest
<1> HIDE DEF Family
<1> QED BY <1>1, <1>2, <1>3, <1>4, <1>5, <1>6, <1>7, <1>8 DEF GoodPacket

LEMMA NextIInv == IInv /\ [Next]_vars => IInv'
<1> SUFFICES ASSUME IInv, [Next]_vars PROVE IInv'
  OBVIOUS
<1>0. path \in Paths
  BY DEF IInv
<1>f. /\ Length \in Nat
      /\ \A k \in 1..(Length + 1) : Family(k) \in {4, 6}
      /\ \A k \in 1..Length : /\ GoodHop(path.hops[k], Family(k), Family(1))
                             /\ path.hops[k].translator \in BOOLEAN
                             /\ Family(k + 1) = Other(path.hops[k], Family(k))
                             /\ Family(k) = Other(path.hops[k], Family(k + 1))
  BY <1>0, PathFacts
<1>a. Family(1) \in {4, 6}
  BY <1>f
\* Nothing but the packet changes.
<1>p. ASSUME UNCHANGED <<path, pmtu, reports, heeded>>,
             \/ packet' = NoPacket
             \/ /\ packet'.at \in 1..(Length + 1)
                /\ GoodPacket(packet', Family(packet'.at), Family(1), First(path, packet'.at))
      PROVE  IInv'
  <2>1. PacketKnown(path, packet')
    BY <1>p DEF PacketKnown, Length, Family
  <2> QED BY <1>p, <2>1 DEF IInv, Length
<1>1. CASE Send
  <2>1. PICK p : p = [at |-> 1, size |-> pmtu, ext |-> path.ext, df |-> Family(1) = 4,
                      fragmented |-> FALSE, sent |-> pmtu]
    OBVIOUS
  <2>2. p.at = 1 /\ GoodPacket(p, Family(1), Family(1), First(path, 1))
    BY <2>1, SentIsGood
  <2>3. packet' = p /\ UNCHANGED <<path, pmtu, reports, heeded>>
    BY <1>1, <2>1 DEF Send
  <2>4. 1 \in 1..(Length + 1)
    BY <1>f
  <2> QED BY <1>p, <2>2, <2>3, <2>4
<1>2. CASE Forward
  <2>1. /\ packet # NoPacket /\ packet.at # Length + 1
        /\ UNCHANGED <<path, pmtu, reports, heeded>>
        /\ ~Refused(packet, Hop, Family(packet.at))
        /\ packet' = Forwarded(packet, Hop, Family(packet.at))
    BY <1>2 DEF Forward, Travels, There
  <2>2. /\ packet.at \in 1..(Length + 1)
        /\ GoodPacket(packet, Family(packet.at), Family(1), First(path, packet.at))
    BY <2>1 DEF IInv, PacketKnown, Length, Family
  <2>3. PICK k \in 1..Length : k = packet.at
    BY <1>f, <2>1, <2>2
  <2>4. /\ Family(k) \in {4, 6} /\ k \in Nat \ {0}
        /\ GoodHop(Hop, Family(k), Family(1)) /\ Hop.translator \in BOOLEAN
        /\ Family(k + 1) = Other(Hop, Family(k))
    BY <1>f, <2>3 DEF Hop
  <2>5. PICK n : n = Forwarded(packet, Hop, Family(k))
    OBVIOUS
  <2>6. First(path, k) \in BOOLEAN /\ (First(path, k + 1) <=> First(path, k) /\ ~Hop.translator)
    BY <2>3, <2>4, FirstFacts DEF Hop
  <2>7. GoodPacket(n, Family(k + 1), Family(1), First(path, k) /\ ~Hop.translator)
    BY <1>a, <2>1, <2>2, <2>3, <2>4, <2>5, <2>6, ForwardedIsGood
  <2>8. GoodPacket(n, Family(k + 1), Family(1), First(path, k + 1))
    BY <2>6, <2>7 DEF GoodPacket
  <2>9. n.at = k + 1
    BY <2>2, <2>3, <2>4, <2>5, ForwardedGoesOn DEF GoodPacket
  <2>10. k + 1 \in 1..(Length + 1)
    BY <1>f, <2>3
  <2> QED BY <1>p, <2>1, <2>3, <2>5, <2>8, <2>9, <2>10
<1>3. CASE Refuse
  <2>1. /\ packet # NoPacket /\ packet.at # Length + 1
        /\ packet' = NoPacket /\ UNCHANGED <<path, pmtu, heeded>>
        /\ Refused(packet, Hop, Family(packet.at))
    BY <1>3 DEF Refuse, Travels, There
  <2>2. /\ packet.at \in 1..(Length + 1)
        /\ GoodPacket(packet, Family(packet.at), Family(1), First(path, packet.at))
    BY <2>1 DEF IInv, PacketKnown, Length, Family
  <2>3. PICK k \in 1..Length : k = packet.at
    BY <1>f, <2>1, <2>2
  <2>4. PICK r : r = [at |-> packet.at, from |-> packet.at, mtu |-> Reported(Hop, Family(packet.at)),
                      total |-> packet.size, about |-> packet.sent]
    OBVIOUS
  <2>5. reports' = reports \cup {r}
    BY <1>3, <2>4 DEF Refuse
  <2>6. r.at = k /\ r.from = k
    BY <2>3, <2>4
  <2>7. Family(k) \in {4, 6} /\ GoodHop(Hop, Family(k), Family(1)) /\ First(path, k) \in BOOLEAN
    BY <1>f, <2>3, FirstFacts DEF Hop
  <2>8. GoodReport(r, Family(k), Family(1), First(path, k))
    BY <1>a, <2>1, <2>2, <2>3, <2>4, <2>7, RefusalIsGood
  <2>9. ReportKnown(path, r)
    BY <1>f, <2>3, <2>6, <2>8 DEF ReportKnown, Length, Family
  <2> QED BY <2>1, <2>5, <2>9 DEF IInv, PacketKnown, Length
<1>4. CASE Lose
  BY <1>4, <1>p DEF Lose
<1>5. CASE Arrive
  BY <1>5, <1>p DEF Arrive
<1>6. CASE Receive
  <2>1. PICK r \in reports :
          /\ reports' = reports \ {r} /\ UNCHANGED <<path, packet>>
          /\ pmtu' = IF r.mtu >= Smallest(Family(1)) THEN Smaller(pmtu, r.mtu) ELSE pmtu
          /\ heeded' = heeded \/ heeded' = heeded \cup {<<r.from, r.mtu>>}
    BY <1>6 DEF Receive
  <2>2. r.mtu \in Nat
    BY DEF IInv, ReportKnown, GoodReport, Reports
  <2>7. r.from \in 1..Length
    BY <1>f DEF IInv, ReportKnown, Length
  <2>8. heeded' \subseteq (1..Length) \X Nat
    BY <2>1, <2>2, <2>7 DEF IInv
  <2>3. pmtu \in Nat /\ pmtu >= Smallest(Family(1)) /\ pmtu <= 65515
    BY DEF IInv, PmtuKnown, Family
  <2>4. Smallest(Family(1)) \in Nat
    BY DEF Smallest
  <2>5. pmtu' \in Nat /\ pmtu' >= Smallest(Family(1)) /\ pmtu' <= 65515
    BY <2>1, <2>2, <2>3, <2>4 DEF Smaller
  <2>6. PmtuKnown(path, pmtu')
    BY <2>5 DEF PmtuKnown, Family
  <2> QED BY <2>1, <2>6, <2>8 DEF IInv, Length
<1>7. ASSUME NEW j \in 2..MaxHops, CarryBack(j) PROVE IInv'
  <2>1. PICK r \in reports :
          /\ r.at = j
          /\ reports' = (reports \ {r}) \cup {CarriedBack(r, path.hops[j - 1], Family(j))}
          /\ UNCHANGED <<path, pmtu, packet, heeded>>
    BY <1>7 DEF CarryBack
  <2>2. j \in 1..Length /\ GoodReport(r, Family(j), Family(1), First(path, j))
    BY <2>1 DEF IInv, ReportKnown, Length, Family
  <2>3. PICK k : k = j - 1
    OBVIOUS
  <2>4. k \in 1..Length /\ k \in Nat \ {0} /\ j = k + 1
    BY <1>f, <1>7, <2>2, <2>3
  <2>5. PICK n : n = CarriedBack(r, path.hops[k], Family(j))
    OBVIOUS
  <2>6. /\ Family(k) \in {4, 6} /\ Family(j) \in {4, 6}
        /\ GoodHop(path.hops[k], Family(k), Family(1))
        /\ path.hops[k].translator \in BOOLEAN
        /\ Family(j) = Other(path.hops[k], Family(k))
    BY <1>f, <2>2, <2>4
  <2>7. /\ First(path, k) \in BOOLEAN /\ First(path, j) \in BOOLEAN
        /\ First(path, j) => First(path, k) /\ ~path.hops[k].translator
    BY <2>4, FirstFacts
  <2>8. /\ GoodReport(n, Family(k), Family(1), First(path, k))
        /\ n.at = r.at - 1 /\ n.from = r.from
    BY <1>a, <2>1, <2>2, <2>4, <2>5, <2>6, <2>7, CarriedBackIsGood
  <2>9. n.at = k
    BY <2>1, <2>3, <2>8
  <2>11. n.from \in k..Length
    BY <1>f, <2>1, <2>4, <2>8 DEF IInv, ReportKnown, Length
  <2>10. ReportKnown(path, n)
    BY <2>4, <2>8, <2>9, <2>11 DEF ReportKnown, Length, Family
  <2> QED BY <2>1, <2>3, <2>5, <2>10 DEF IInv, Length
<1>8. CASE UNCHANGED vars
  BY <1>8 DEF vars, IInv, Length
<1> QED BY <1>1, <1>2, <1>3, <1>4, <1>5, <1>6, <1>7, <1>8 DEF Next

LEMMA Invariance == Spec => []IInv
BY InitIInv, NextIInv, PTL DEF Spec

-----------------------------------------------------------------------------
\* Every packet and report is what the networks on its way allow, whatever
\* the path.
THEOREM TypeCorrect == Spec => []TypeOK
<1>1. ASSUME IInv PROVE TypeOK
  <2>0. path \in Paths
    BY <1>1 DEF IInv
  <2>1. Length \in Nat
    BY <2>0, PathFacts
  <2>2. pmtu \in Nat /\ pmtu >= Smallest(Family(1)) /\ pmtu <= 65515
    BY <1>1 DEF IInv, PmtuKnown, Family
  <2>3. packet # NoPacket =>
          /\ packet \in [at : 1..(Length + 1), size : Nat, ext : Nat, df : BOOLEAN,
                         fragmented : BOOLEAN, sent : Nat]
          /\ packet.size > 0
    <3> SUFFICES ASSUME packet # NoPacket
                 PROVE  /\ packet \in [at : 1..(Length + 1), size : Nat, ext : Nat, df : BOOLEAN,
                                       fragmented : BOOLEAN, sent : Nat]
                        /\ packet.size > 0
      OBVIOUS
    <3>1. /\ packet.at \in 1..(Length + 1)
          /\ GoodPacket(packet, Family(packet.at), Family(1), First(path, packet.at))
      BY <1>1 DEF IInv, PacketKnown, Length, Family
    <3>2. packet \in Packets /\ packet.size \in Nat
      BY <3>1 DEF GoodPacket, Packets
    <3>3. Family(packet.at) \in {4, 6}
      BY <2>0, <3>1, PathFacts
    <3>4. packet.size > 0
      BY <3>1, <3>2, <3>3 DEF GoodPacket
    <3>5. packet \in [at : 1..(Length + 1), size : Nat, ext : Nat, df : BOOLEAN,
                      fragmented : BOOLEAN, sent : Nat]
      BY <3>1, <3>2, Zenon DEF Packets
    <3> QED BY <3>4, <3>5
  <2>4. ASSUME NEW r \in reports
        PROVE  /\ r \in [at : 1..Length, from : 1..Length, mtu : Nat, total : Nat, about : Nat]
               /\ r.mtu <= 65535
               /\ \/ r.mtu >= Smallest(Family(r.at))
                  \/ r.mtu = 0 /\ Family(r.at) = 4 /\ Family(1) = 6
    <3>1. /\ r.at \in 1..Length /\ r.from \in 1..Length
          /\ GoodReport(r, Family(r.at), Family(1), First(path, r.at))
      BY <1>1, <2>1, <2>4 DEF IInv, ReportKnown, Length, Family
    <3>2. /\ r.mtu <= 65535
          /\ \/ r.mtu >= Smallest(Family(r.at))
             \/ r.mtu = 0 /\ Family(r.at) = 4 /\ Family(1) = 6
      BY <3>1 DEF GoodReport
    <3>3. r \in Reports
      BY <3>1 DEF GoodReport
    <3>4. r \in [at : 1..Length, from : 1..Length, mtu : Nat, total : Nat, about : Nat]
      BY <3>1, <3>3, Zenon DEF Reports
    <3> QED BY <3>2, <3>4
  <2>5. heeded \subseteq (1..Length) \X Nat
    BY <1>1 DEF IInv
  <2> QED BY <2>0, <2>2, <2>3, <2>4, <2>5 DEF TypeOK
<1> QED BY <1>1, Invariance, PTL

-----------------------------------------------------------------------------
(* What a report allows is enough for the hop it is from.                   *)

\* A hop that is not old refuses no packet whose size, counted as that of an
\* IPv4 packet, is at most this: it is no bigger than what the hop reported,
\* or it fits into any IPv6 MTU and has lost its DF at a translator.
IsEnough(p, k, size) ==
    \/ size <= SizeIn(4, p.family[k], Reported(p.hops[k], p.family[k]))
    \/ size <= 1260 /\ ~(First(p, k) /\ p.family[1] = 4)

ReportIsEnough(p, r) ==
    ~p.hops[r.from].old =>
        r.mtu # 0 /\ IsEnough(p, r.from, SizeIn(4, p.family[r.at], r.mtu))

EnoughInv ==
    /\ \A r \in reports : ReportIsEnough(path, r)
    /\ \A h \in heeded : ~path.hops[h[1]].old => IsEnough(path, h[1], SizeIn(4, Family(1), h[2]))

\* A packet of a size that is enough passes.
LEMMA EnoughPasses ==
    ASSUME IInv, packet # NoPacket, packet.at \in 1..Length, ~Hop.old,
           IsEnough(path, packet.at, SizeIn(4, Family(1), packet.sent))
    PROVE  ~Refused(packet, Hop, Family(packet.at))
<1> DEFINE f == Family(packet.at)
           f0 == Family(1)
           first == First(path, packet.at)
<1>1. path \in Paths /\ Length \in Nat
  BY PathFacts DEF IInv
<1>2. f \in {4, 6} /\ f0 \in {4, 6} /\ GoodHop(Hop, f, f0) /\ first \in BOOLEAN
  BY <1>1, PathFacts, FirstFacts DEF Hop
<1>3. GoodPacket(packet, f, f0, first)
  BY DEF IInv, PacketKnown, Length, Family
<1>4. CASE packet.fragmented
  BY <1>2, <1>3, <1>4, FragmentsAreNotRefused
<1>5. CASE ~packet.fragmented
  <2>1. /\ packet.size \in Nat /\ packet.ext \in Nat /\ packet.sent \in Nat
        /\ Hop.translator \in BOOLEAN /\ Hop.mtu4 \in Nat /\ Hop.mtu6 \in Nat
        /\ Hop.mtu4 <= 65515
        /\ Hop.translator => Hop.mtu4 >= 96 /\ Hop.mtu6 >= 1280
    BY <1>2, <1>3 DEF GoodPacket, Packets, GoodHop, IsHop
  <2>2. packet.size <= SizeIn(f, f0, packet.sent)
    BY <1>3, <1>5 DEF GoodPacket
  <2>3. \/ SizeIn(4, f0, packet.sent) <= SizeIn(4, f, Reported(Hop, f))
        \/ SizeIn(4, f0, packet.sent) <= 1260 /\ ~(first /\ f0 = 4)
    BY DEF IsEnough, Hop, Family
  <2> SUFFICES ~Refused(packet, Hop, f)
    OBVIOUS
  <2> HIDE DEF f, f0, first
  <2>4. CASE f = 4 /\ Hop.translator
    <3>1. Size6(packet) = packet.size + 20
      BY <1>5, <2>1 DEF Size6
    <3>2. Reported(Hop, f) = Hop.mtu6 - 28
      BY <2>4 DEF Reported
    <3>3. packet.df => packet.size > 1260 \/ (first /\ f0 = 4)
      BY <1>3, <2>4 DEF GoodPacket
    <3>4. Refused(packet, Hop, f) <=> Size6(packet) > Hop.mtu6 /\ packet.df
      BY <2>4 DEF Refused
    <3> QED BY <1>2, <2>1, <2>2, <2>3, <2>4, <3>1, <3>2, <3>3, <3>4 DEF SizeIn
  <2>5. CASE f = 4 /\ ~Hop.translator
    <3>1. Reported(Hop, f) = Hop.mtu4
      BY <2>5 DEF Reported
    <3>2. packet.df => packet.size > 1260 \/ (first /\ f0 = 4)
      BY <1>3, <2>5 DEF GoodPacket
    <3>3. Refused(packet, Hop, f) <=> packet.size > Hop.mtu4 /\ packet.df
      BY <2>5 DEF Refused
    <3> QED BY <1>2, <2>1, <2>2, <2>3, <2>5, <3>1, <3>2, <3>3 DEF SizeIn
  <2>6. CASE f = 6 /\ Hop.translator
    <3>1. Size4(packet) = packet.size - 20 - packet.ext
      BY <1>5, <2>1 DEF Size4
    <3>2. Reported(Hop, f) = Larger(1280, Hop.mtu4 + 20)
      BY <2>1, <2>6 DEF Reported, Uint16
    <3>3. Refused(packet, Hop, f) <=> Size4(packet) > Hop.mtu4 /\ Size4(packet) > 1260
      BY <2>1, <2>6, <3>1 DEF Refused, MayBeFragmented
    <3> QED BY <1>2, <2>1, <2>2, <2>3, <2>6, <3>1, <3>2, <3>3 DEF SizeIn, Larger
  <2>7. CASE f = 6 /\ ~Hop.translator
    <3>1. Reported(Hop, f) = Hop.mtu6 /\ Hop.mtu6 >= 1280
      BY <1>2, <2>7 DEF Reported, GoodHop
    <3>2. Refused(packet, Hop, f) <=> packet.size > Hop.mtu6
      BY <2>7 DEF Refused
    <3> QED BY <1>2, <2>1, <2>2, <2>3, <2>7, <3>1, <3>2 DEF SizeIn
  <2> QED BY <1>2, <2>1, <2>4, <2>5, <2>6, <2>7
<1> QED BY <1>4, <1>5

LEMMA ReportedIsNumber ==
    ASSUME path \in Paths, NEW k \in 1..Length
    PROVE  /\ Reported(path.hops[k], path.family[k]) \in Nat
           /\ SizeIn(4, path.family[k], Reported(path.hops[k], path.family[k])) \in Int
<1>1. GoodHop(path.hops[k], Family(k), Family(1)) /\ Family(k) \in {4, 6}
  BY PathFacts
<1>2. Reported(path.hops[k], Family(k)) \in Nat
  BY <1>1 DEF Reported, GoodHop, IsHop, Larger, Uint16
<1> QED BY <1>2 DEF Family, SizeIn

\* A report that has been carried back is still from the same hop.
LEMMA CarriedBackFromSame ==
    ASSUME NEW r \in Reports, NEW hop, hop.translator \in BOOLEAN, NEW f \in {4, 6}
    PROVE  /\ CarriedBack(r, hop, f).at = r.at - 1
           /\ CarriedBack(r, hop, f).from = r.from
BY DEF CarriedBack, Reports

\* What a hop reports is enough for it, and for as long as it is carried back.
LEMMA RefusalIsEnough ==
    ASSUME path \in Paths, NEW k \in 1..Length, NEW r, r.at = k, r.from = k,
           r.mtu = Reported(path.hops[k], Family(k))
    PROVE  ReportIsEnough(path, r)
<1>1. GoodHop(path.hops[k], Family(k), Family(1)) /\ Family(k) \in {4, 6}
  BY PathFacts
<1>2. ~path.hops[k].old => Reported(path.hops[k], Family(k)) # 0
  BY <1>1 DEF Reported, GoodHop, IsHop, Larger, Uint16
<1>3. SizeIn(4, Family(k), r.mtu) \in Int
  BY ReportedIsNumber DEF Family
<1>4. IsEnough(path, k, SizeIn(4, Family(k), r.mtu))
  BY <1>3 DEF IsEnough, Family
<1> QED BY <1>2, <1>4 DEF ReportIsEnough, Family

LEMMA CarriedBackIsEnough ==
    ASSUME IInv, NEW r \in reports, NEW j \in 2..MaxHops, r.at = j, ReportIsEnough(path, r),
           NEW n, n = CarriedBack(r, path.hops[j - 1], Family(j)),
           n.at = j - 1, n.from = r.from
    PROVE  ReportIsEnough(path, n)
<1>1. path \in Paths /\ ReportKnown(path, r) /\ Length \in Nat
  BY PathFacts DEF IInv
<1>2. /\ j \in 1..Length /\ j - 1 \in 1..Length /\ j - 1 \in Nat \ {0} /\ (j - 1) + 1 = j
      /\ r.from \in j..Length
  BY <1>1, PathFacts DEF ReportKnown, Length
<1> DEFINE hop == path.hops[j - 1]
           f == Family(j)
           g == Family(j - 1)
<1>3. /\ f \in {4, 6} /\ g \in {4, 6} /\ hop.translator \in BOOLEAN
      /\ GoodHop(hop, g, Family(1)) /\ f = Other(hop, g)
  BY <1>1, <1>2, PathFacts
<1>4. GoodReport(r, f, Family(1), First(path, j))
  BY <1>1 DEF ReportKnown, Family
<1>5. /\ hop.mtu4 \in Nat /\ hop.mtu6 \in Nat /\ hop.mtu4 <= 65515 /\ hop.mtu6 <= 65515
      /\ hop.translator => hop.mtu4 >= 96 /\ hop.mtu6 >= 1280
  BY <1>3 DEF GoodHop, IsHop
<1>6. r \in Reports /\ r.mtu \in Nat /\ r.mtu <= 65535 /\ (f = 6 => r.mtu >= 1280)
  BY <1>4 DEF GoodReport, Reports, Smallest
<1> SUFFICES ASSUME ~path.hops[r.from].old
             PROVE  n.mtu # 0 /\ IsEnough(path, r.from, SizeIn(4, g, n.mtu))
  BY DEF ReportIsEnough, Family
<1>7. r.mtu # 0 /\ IsEnough(path, r.from, SizeIn(4, f, r.mtu))
  BY DEF ReportIsEnough, Family
<1>8. hop.translator => ~First(path, r.from)
  BY <1>2 DEF First
<1> HIDE DEF hop, f, g
\* The report allows no more than before, or what fits into any IPv6 MTU.
<1>9. SUFFICES /\ n.mtu \in Nat /\ n.mtu # 0
               /\ \/ SizeIn(4, g, n.mtu) <= SizeIn(4, f, r.mtu)
                  \/ SizeIn(4, g, n.mtu) <= 1260 /\ hop.translator
  <2>1. SizeIn(4, g, n.mtu) \in Int /\ SizeIn(4, f, r.mtu) \in Int
    BY <1>6, <1>9 DEF SizeIn
  <2>2. r.from \in 1..Length
    BY <1>1, <1>2
  <2>3. SizeIn(4, path.family[r.from], Reported(path.hops[r.from], path.family[r.from])) \in Int
    BY <1>1, <2>2, ReportedIsNumber
  <2> QED BY <1>7, <1>8, <1>9, <2>1, <2>3 DEF IsEnough
<1>10. CASE ~hop.translator
  <2>1. n.mtu = r.mtu /\ f = g
    BY <1>3, <1>6, <1>10 DEF CarriedBack, Reports, Other, hop, f
  <2> QED BY <1>6, <1>7, <2>1 DEF SizeIn
<1>11. CASE hop.translator /\ f = 4
  <2>1. n = [r EXCEPT !.at = @ - 1, !.mtu = Mtu4to6(r.mtu, hop), !.total = @ + 20]
    BY <1>7, <1>11 DEF CarriedBack, hop, f
  <2>2. n.mtu = Mtu4to6(r.mtu, hop)
    BY <1>6, <2>1 DEF Reports
  <2>3. g = 6
    BY <1>3, <1>11 DEF Other
  <2>4. /\ Mtu4to6(r.mtu, hop) \in Nat /\ Mtu4to6(r.mtu, hop) >= 1280
        /\ Mtu4to6(r.mtu, hop) <= 1280 \/ Mtu4to6(r.mtu, hop) <= r.mtu + 20
    BY <1>5, <1>6, <1>11, Mtu4to6Bounds
  <2> QED BY <1>6, <1>11, <2>2, <2>3, <2>4 DEF SizeIn
<1>12. CASE hop.translator /\ f = 6
  <2>1. n = [r EXCEPT !.at = @ - 1, !.mtu = Mtu6to4(r.mtu, hop), !.total = @ - 20]
    BY <1>12 DEF CarriedBack, hop, f
  <2>2. n.mtu = Mtu6to4(r.mtu, hop)
    BY <1>6, <2>1 DEF Reports
  <2>3. g = 4
    BY <1>3, <1>12 DEF Other
  <2>4. /\ Mtu6to4(r.mtu, hop) \in Nat
        /\ Mtu6to4(r.mtu, hop) >= 68 /\ Mtu6to4(r.mtu, hop) <= r.mtu - 20
    BY <1>5, <1>6, <1>12, Mtu6to4Bounds
  <2> QED BY <1>6, <1>12, <2>2, <2>3, <2>4 DEF SizeIn
<1> QED BY <1>3, <1>10, <1>11, <1>12

LEMMA NextEnough == IInv /\ EnoughInv /\ [Next]_vars => EnoughInv'
<1> SUFFICES ASSUME IInv, EnoughInv, [Next]_vars PROVE EnoughInv'
  OBVIOUS
<1>0. path \in Paths /\ Length \in Nat
  BY PathFacts DEF IInv
\* The path does not change; it is enough to look at what is new.
<1>n. ASSUME path' = path,
             \A r \in reports' : ReportIsEnough(path, r),
             \A h \in heeded' : ~path.hops[h[1]].old
                                  => IsEnough(path, h[1], SizeIn(4, Family(1), h[2]))
      PROVE  EnoughInv'
  BY <1>n DEF EnoughInv, Family
<1>1. CASE UNCHANGED <<path, pmtu, reports, heeded>>
  BY <1>1, <1>n DEF EnoughInv
<1>2. CASE Refuse
  <2>1. packet # NoPacket /\ packet.at # Length + 1 /\ UNCHANGED <<path, pmtu, heeded>>
    BY <1>2 DEF Refuse, Travels, There
  <2>2. packet.at \in 1..Length
    BY <1>0, <2>1 DEF IInv, PacketKnown, Length
  <2>3. PICK r : r = [at |-> packet.at, from |-> packet.at,
                      mtu |-> Reported(Hop, Family(packet.at)),
                      total |-> packet.size, about |-> packet.sent]
    OBVIOUS
  <2>4. reports' = reports \cup {r}
    BY <1>2, <2>3 DEF Refuse
  <2>5. ReportIsEnough(path, r)
    BY <1>0, <2>2, <2>3, RefusalIsEnough DEF Hop
  <2> QED BY <1>n, <2>1, <2>4, <2>5 DEF EnoughInv
<1>3. CASE Receive
  <2>1. PICK r \in reports :
          /\ r.at = 1
          /\ reports' = reports \ {r} /\ UNCHANGED <<path, packet>>
          /\ heeded' = heeded \/ heeded' = heeded \cup {<<r.from, r.mtu>>}
    BY <1>3 DEF Receive
  <2>2. ~path.hops[r.from].old => IsEnough(path, r.from, SizeIn(4, Family(1), r.mtu))
    BY <2>1 DEF EnoughInv, ReportIsEnough, Family
  <2> QED BY <1>n, <2>1, <2>2 DEF EnoughInv
<1>4. ASSUME NEW j \in 2..MaxHops, CarryBack(j) PROVE EnoughInv'
  <2>1. PICK r \in reports :
          /\ r.at = j
          /\ reports' = (reports \ {r}) \cup {CarriedBack(r, path.hops[j - 1], Family(j))}
          /\ UNCHANGED <<path, pmtu, packet, heeded>>
    BY <1>4 DEF CarryBack
  <2>2. PICK n : n = CarriedBack(r, path.hops[j - 1], Family(j))
    OBVIOUS
  <2>3. n.at = j - 1 /\ n.from = r.from
    <3>1. r \in Reports /\ j \in 1..Length /\ j - 1 \in 1..Length
      BY <1>0, <2>1 DEF IInv, ReportKnown, GoodReport, Length
    <3>2. path.hops[j - 1].translator \in BOOLEAN /\ Family(j) \in {4, 6}
      BY <1>0, <3>1, PathFacts
    <3> QED BY <2>1, <2>2, <3>1, <3>2, CarriedBackFromSame
  <2>4. ReportIsEnough(path, n)
    BY <2>1, <2>2, <2>3, CarriedBackIsEnough DEF EnoughInv
  <2> QED BY <1>n, <2>1, <2>2, <2>4 DEF EnoughInv
<1>5. Send \/ Forward \/ Lose \/ Arrive \/ UNCHANGED vars
        => UNCHANGED <<path, pmtu, reports, heeded>>
  BY DEF Send, Forward, Lose, Arrive, vars
<1> QED BY <1>1, <1>2, <1>3, <1>4, <1>5 DEF Next

\* Whatever translators a report crosses, the host can act on it: it asks for
\* less than the packet it is about, and for no less than a host must be able
\* to send.  And acting on it is enough: a hop that told its MTU refuses no
\* packet of a size that its report, as it reached the host, allows.
THEOREM EveryReportHelps == Spec => []ReportHelps
<1>1. ASSUME IInv, EnoughInv PROVE ReportHelps
  <2>1. ASSUME NEW r \in reports, r.at = 1
        PROVE  r.mtu < r.about /\ r.mtu >= Smallest(Family(1))
    <3>1. GoodReport(r, Family(1), Family(1), First(path, 1))
      BY <1>1, <2>1 DEF IInv, ReportKnown, Family
    <3>2. r.about \in Nat /\ r.mtu \in Nat
      BY <3>1 DEF GoodReport, Reports
    <3>3. SizeIn(Family(1), Family(1), r.about) = r.about
      BY <3>2 DEF SizeIn
    <3> QED BY <3>1, <3>3 DEF GoodReport
  <2>2. ASSUME NEW h \in heeded, Travels, packet.at = h[1], packet.sent <= h[2], ~Hop.old
        PROVE  ~Refused(packet, Hop, Family(packet.at))
    <3>1. path \in Paths /\ Length \in Nat /\ h[1] \in 1..Length /\ h[2] \in Nat
      BY <1>1, PathFacts DEF IInv
    <3>2. /\ packet # NoPacket /\ packet.at \in 1..Length
          /\ GoodPacket(packet, Family(packet.at), Family(1), First(path, packet.at))
      BY <1>1, <2>2, <3>1 DEF IInv, PacketKnown, Travels, Length, Family
    <3>3. packet.sent \in Nat
      BY <3>2 DEF GoodPacket, Packets
    <3>4. IsEnough(path, packet.at, SizeIn(4, Family(1), h[2]))
      BY <1>1, <2>2 DEF EnoughInv, Hop
    <3>5. SizeIn(4, Family(1), packet.sent) <= SizeIn(4, Family(1), h[2])
      BY <2>2, <3>1, <3>3 DEF SizeIn
    <3>6. /\ SizeIn(4, Family(1), packet.sent) \in Int
          /\ SizeIn(4, Family(1), h[2]) \in Int
      BY <3>1, <3>3 DEF SizeIn
    <3>7. SizeIn(4, path.family[packet.at], Reported(path.hops[packet.at], path.family[packet.at]))
            \in Int
      BY <3>1, <3>2, ReportedIsNumber
    <3>8. IsEnough(path, packet.at, SizeIn(4, Family(1), packet.sent))
      BY <3>4, <3>5, <3>6, <3>7 DEF IsEnough
    <3> QED BY <1>1, <2>2, <3>2, <3>8, EnoughPasses
  <2> QED BY <2>1, <2>2 DEF ReportHelps
<1>2. Init => EnoughInv
  BY DEF Init, EnoughInv
<1> QED BY <1>1, <1>2, Invariance, NextEnough, PTL DEF Spec

\* A host that listens to reports comes closer to the path's MTU with every
\* one that is about a packet it would still send.
THEOREM EveryReportCounts == Spec => DiscoveryAdvances
<1> DEFINE Advances == /\ pmtu' <= pmtu
                       /\ \A r \in reports \ reports' :
                            r.at = 1 /\ r.about <= pmtu => pmtu' < pmtu
<1>1. TypeOK /\ ReportHelps /\ [Next]_vars => [Advances]_vars
  <2> SUFFICES ASSUME TypeOK, ReportHelps, [Next]_vars PROVE Advances
    OBVIOUS
  <2>1. pmtu \in Nat /\ \A r \in reports : r.mtu \in Nat /\ r.about \in Nat
    BY DEF TypeOK
  <2>2. CASE Receive
    <3>1. PICK r \in reports :
            /\ r.at = 1
            /\ reports' = reports \ {r}
            /\ pmtu' = IF r.mtu >= Smallest(Family(1)) THEN Smaller(pmtu, r.mtu) ELSE pmtu
      BY <2>2 DEF Receive
    <3>2. r.mtu < r.about /\ r.mtu >= Smallest(Family(1))
      BY <3>1 DEF ReportHelps
    <3>3. pmtu' = Smaller(pmtu, r.mtu)
      BY <3>1, <3>2
    <3>4. pmtu' <= pmtu /\ pmtu' <= r.mtu
      BY <2>1, <3>3 DEF Smaller
    <3>5. r.about <= pmtu => pmtu' < pmtu
      BY <2>1, <3>2, <3>4, <3>3 DEF Smaller
    <3>6. \A q \in reports \ reports' : q = r
      BY <3>1
    <3> QED BY <3>4, <3>5, <3>6
  <2>3. ASSUME NEW k \in 2..MaxHops, CarryBack(k) PROVE Advances
    <3>1. PICK r \in reports :
            r.at = k /\ reports' = (reports \ {r}) \cup {CarriedBack(r, path.hops[k - 1], Family(k))}
      BY <2>3 DEF CarryBack
    <3>2. \A q \in reports \ reports' : q.at = k
      BY <3>1
    <3>3. pmtu' = pmtu /\ k # 1
      BY <2>3 DEF CarryBack
    <3> QED BY <2>1, <3>2, <3>3
  <2>4. CASE Refuse
    BY <2>1, <2>4 DEF Refuse
  <2>5. CASE Send \/ Forward \/ Lose \/ Arrive \/ UNCHANGED vars
    BY <2>1, <2>5 DEF Send, Forward, Lose, Arrive, vars
  <2> QED BY <2>2, <2>3, <2>4, <2>5 DEF Next
<1> QED BY <1>1, TypeCorrect, EveryReportHelps, PTL DEF Spec, DiscoveryAdvances

\* No hop, link or translator, refuses a fragment, whatever the path: nobody
\* could act on its report.  (Whole packets may be refused.)
THEOREM EveryFragmentPasses == Spec => []FragmentsPass
<1>1. ASSUME IInv PROVE FragmentsPass
  <2> SUFFICES ASSUME packet # NoPacket, ~There, packet.fragmented
               PROVE  ~Refused(packet, Hop, Family(packet.at))
    BY DEF FragmentsPass
  <2>0. path \in Paths /\ Length \in Nat
    BY <1>1, PathFacts DEF IInv
  <2>1. /\ packet.at \in 1..(Length + 1)
        /\ GoodPacket(packet, Family(packet.at), Family(1), First(path, packet.at))
    BY <1>1 DEF IInv, PacketKnown, Length, Family
  <2>2. packet.at \in 1..Length
    BY <2>0, <2>1 DEF There
  <2>3. /\ Family(packet.at) \in {4, 6} /\ Family(1) \in {4, 6}
        /\ GoodHop(Hop, Family(packet.at), Family(1))
    BY <2>0, <2>2, PathFacts DEF Hop
  <2>4. First(path, packet.at) \in BOOLEAN
    BY <2>2, FirstFacts
  <2> QED BY <2>1, <2>3, <2>4, FragmentsAreNotRefused
<1> QED BY <1>1, Invariance, PTL

-----------------------------------------------------------------------------
(* The host does not end up with less than the path allows: every report    *)
(* allows what one of the path's limits does, but for 8 bytes.              *)

Shift(f) == IF f = 6 THEN 20 ELSE 0

Allows(f, mtu, limits) == \E limit \in limits : mtu - Shift(f) >= limit - 8

NoneIsOld == \A k \in 1..Length : ~path.hops[k].old

LInv ==
    NoneIsOld =>
      /\ \A r \in reports : r.mtu # 0 /\ Allows(Family(r.at), r.mtu, Limits)
      /\ pmtu = path.first \/ Allows(Family(1), pmtu, Limits)

LEMMA LimitFacts ==
    ASSUME path \in Paths, NEW k \in 1..Length
    PROVE  /\ path.hops[k].translator \/ Family(k) = 4 => path.hops[k].mtu4 \in Limits
           /\ path.hops[k].translator \/ Family(k) = 6 => path.hops[k].mtu6 - 20 \in Limits
BY DEF Limits

LEMMA LimitsAreNumbers ==
    ASSUME path \in Paths
    PROVE  \A limit \in Limits : limit \in Int
<1>1. \A k \in 1..Length : IsHop(path.hops[k])
  BY PathFacts DEF GoodHop
<1>2. \A k \in 1..Length : path.hops[k].mtu4 \in Int /\ path.hops[k].mtu6 - 20 \in Int
  BY <1>1 DEF IsHop
<1> QED BY <1>2 DEF Limits

LEMMA ReportedIsAllowed ==
    ASSUME path \in Paths, NEW k \in 1..Length, ~path.hops[k].old,
           Family(k) \in {4, 6}, IsHop(path.hops[k]), path.hops[k].translator \in BOOLEAN
    PROVE  Allows(Family(k), Reported(path.hops[k], Family(k)), Limits)
<1> DEFINE hop == path.hops[k]
<1>1. /\ hop.mtu4 \in Nat /\ hop.mtu6 \in Nat
      /\ hop.mtu4 <= 65515 /\ hop.mtu6 <= 65515
  BY DEF IsHop
<1>2. /\ hop.translator \/ Family(k) = 4 => hop.mtu4 \in Limits
      /\ hop.translator \/ Family(k) = 6 => hop.mtu6 - 20 \in Limits
  BY LimitFacts
<1> HIDE DEF hop
<1>3. ~hop.old
  BY DEF hop
<1>4. SUFFICES Allows(Family(k), Reported(hop, Family(k)), Limits)
  BY DEF hop
<1>5. CASE hop.translator /\ Family(k) = 6
  <2>1. Reported(hop, Family(k)) = Larger(1280, hop.mtu4 + 20)
    BY <1>1, <1>5 DEF Reported, Uint16
  <2>2. Larger(1280, hop.mtu4 + 20) - 20 >= hop.mtu4 - 8
    BY <1>1 DEF Larger
  <2> QED BY <1>2, <1>5, <2>1, <2>2 DEF Allows, Shift
<1>6. CASE hop.translator /\ Family(k) = 4
  <2>1. Reported(hop, Family(k)) = hop.mtu6 - 28
    BY <1>6 DEF Reported
  <2>2. hop.mtu6 - 28 - 0 >= (hop.mtu6 - 20) - 8
    BY <1>1
  <2> QED BY <1>2, <1>6, <2>1, <2>2 DEF Allows, Shift
<1>7. CASE ~hop.translator /\ Family(k) = 4
  <2>1. Reported(hop, Family(k)) = hop.mtu4
    BY <1>3, <1>7 DEF Reported
  <2>2. hop.mtu4 - 0 >= hop.mtu4 - 8
    BY <1>1
  <2> QED BY <1>2, <1>7, <2>1, <2>2 DEF Allows, Shift
<1>8. CASE ~hop.translator /\ Family(k) = 6
  <2>1. Reported(hop, Family(k)) = hop.mtu6
    BY <1>8 DEF Reported
  <2>2. hop.mtu6 - 20 >= (hop.mtu6 - 20) - 8
    BY <1>1
  <2> QED BY <1>2, <1>8, <2>1, <2>2 DEF Allows, Shift
<1> QED BY <1>5, <1>6, <1>7, <1>8 DEF hop

LEMMA CarriedBackIsAllowed ==
    ASSUME path \in Paths, NEW k \in 1..Length, NEW r \in Reports, r.mtu # 0, r.mtu <= 65535,
           Family(k) \in {4, 6}, NEW f \in {4, 6}, f = Other(path.hops[k], Family(k)),
           f = 6 => r.mtu >= 1280,
           IsHop(path.hops[k]), path.hops[k].translator \in BOOLEAN,
           Allows(f, r.mtu, Limits)
    PROVE  LET n == CarriedBack(r, path.hops[k], f)
           IN  n.mtu # 0 /\ Allows(Family(k), n.mtu, Limits)
<1> DEFINE hop == path.hops[k]
<1>1. /\ hop.mtu4 \in Nat /\ hop.mtu6 \in Nat
      /\ hop.mtu4 <= 65515 /\ hop.mtu6 <= 65515
      /\ hop.translator => hop.mtu4 >= 96 /\ hop.mtu6 >= 1280
  BY DEF IsHop
<1>2. hop.translator => hop.mtu4 \in Limits /\ hop.mtu6 - 20 \in Limits
  BY LimitFacts
<1>3. f = Other(hop, Family(k)) /\ hop.translator \in BOOLEAN
  OBVIOUS
<1> HIDE DEF hop
<1> SUFFICES ASSUME NEW n, n = CarriedBack(r, hop, f)
             PROVE  n.mtu # 0 /\ Allows(Family(k), n.mtu, Limits)
  BY DEF hop
<1>4. r.mtu \in Nat
  BY DEF Reports
<1>5. PICK limit \in Limits : r.mtu - Shift(f) >= limit - 8
  BY DEF Allows
<1>6. limit \in Int
  BY LimitsAreNumbers
<1>7. CASE ~hop.translator
  <2>1. n.mtu = r.mtu
    BY <1>7 DEF CarriedBack, Reports
  <2> QED BY <1>3, <1>7, <2>1 DEF Other
<1>8. CASE hop.translator /\ f = 4
  <2>1. n.mtu = Mtu4to6(r.mtu, hop)
    <3>1. n = [r EXCEPT !.at = @ - 1, !.mtu = Mtu4to6(r.mtu, hop), !.total = @ + 20]
      BY <1>8 DEF CarriedBack
    <3> QED BY <3>1 DEF Reports
  <2>2. Family(k) = 6 /\ Shift(4) = 0 /\ Shift(6) = 20
    BY <1>3, <1>8 DEF Other, Shift
  <2>3. Mtu4to6(r.mtu, hop) \in Nat /\ Mtu4to6(r.mtu, hop) # 0
    BY <1>1, <1>4, <1>8 DEF Mtu4to6, Uint16, Smaller, Larger
  <2>4. \/ Mtu4to6(r.mtu, hop) >= r.mtu + 20
        \/ Mtu4to6(r.mtu, hop) >= hop.mtu6
        \/ Mtu4to6(r.mtu, hop) >= hop.mtu4 + 20
    BY <1>1, <1>4, <1>8 DEF Mtu4to6, Uint16, Smaller, Larger
  <2>5. \/ Mtu4to6(r.mtu, hop) - 20 >= limit - 8
        \/ Mtu4to6(r.mtu, hop) - 20 >= (hop.mtu6 - 20) - 8
        \/ Mtu4to6(r.mtu, hop) - 20 >= hop.mtu4 - 8
    BY <1>1, <1>4, <1>5, <1>6, <1>8, <2>2, <2>3, <2>4
  <2> QED BY <1>2, <1>5, <1>8, <2>1, <2>2, <2>3, <2>5 DEF Allows
<1>9. CASE hop.translator /\ f = 6
  <2>1. n.mtu = Mtu6to4(r.mtu, hop)
    <3>1. n = [r EXCEPT !.at = @ - 1, !.mtu = Mtu6to4(r.mtu, hop), !.total = @ - 20]
      BY <1>9 DEF CarriedBack
    <3> QED BY <3>1 DEF Reports
  <2>2. Family(k) = 4 /\ Shift(4) = 0 /\ Shift(6) = 20
    BY <1>3, <1>9 DEF Other, Shift
  <2>3. Mtu6to4(r.mtu, hop) \in Nat /\ Mtu6to4(r.mtu, hop) # 0
    BY <1>1, <1>4, <1>9, Mtu6to4Bounds
  <2>4. \/ Mtu6to4(r.mtu, hop) >= r.mtu - 20
        \/ Mtu6to4(r.mtu, hop) >= hop.mtu6 - 20
        \/ Mtu6to4(r.mtu, hop) >= hop.mtu4
    BY <1>1, <1>4, <1>9 DEF Mtu6to4, Uint16, Smaller, Larger
  <2>5. \/ Mtu6to4(r.mtu, hop) - 0 >= limit - 8
        \/ Mtu6to4(r.mtu, hop) - 0 >= (hop.mtu6 - 20) - 8
        \/ Mtu6to4(r.mtu, hop) - 0 >= hop.mtu4 - 8
    BY <1>1, <1>4, <1>5, <1>6, <1>9, <2>2, <2>3, <2>4
  <2> QED BY <1>2, <1>5, <1>9, <2>1, <2>2, <2>3, <2>5 DEF Allows
<1> QED BY <1>3, <1>7, <1>8, <1>9

LEMMA NextLInv == IInv /\ LInv /\ [Next]_vars => LInv'
<1> SUFFICES ASSUME IInv, LInv, [Next]_vars PROVE LInv'
  OBVIOUS
<1>0. path \in Paths /\ \A r \in reports : ReportKnown(path, r)
  BY DEF IInv
<1>f. /\ Length \in Nat
      /\ \A k \in 1..(Length + 1) : Family(k) \in {4, 6}
      /\ \A k \in 1..Length : /\ IsHop(path.hops[k])
                             /\ path.hops[k].translator \in BOOLEAN
                             /\ Family(k + 1) = Other(path.hops[k], Family(k))
  BY <1>0, PathFacts DEF GoodHop
\* The path does not change; it is enough to look at what is new.
<1>n. ASSUME path' = path,
             NoneIsOld =>
               /\ \A r \in reports' : r.mtu # 0 /\ Allows(Family(r.at), r.mtu, Limits)
               /\ pmtu' = path.first \/ Allows(Family(1), pmtu', Limits)
      PROVE  LInv'
  BY <1>n DEF LInv, NoneIsOld, Limits, Length, Family
<1>1. CASE UNCHANGED <<path, pmtu, reports>>
  BY <1>1, <1>n DEF LInv
<1>2. CASE Refuse
  <2>1. /\ packet # NoPacket /\ packet.at # Length + 1 /\ UNCHANGED <<path, pmtu>>
    BY <1>2 DEF Refuse, Travels, There
  <2>2. packet.at \in 1..(Length + 1)
    BY <2>1 DEF IInv, PacketKnown, Length
  <2>3. PICK k \in 1..Length : k = packet.at
    BY <1>f, <2>1, <2>2
  <2>4. PICK r : r = [at |-> k, from |-> k, mtu |-> Reported(path.hops[k], Family(k)),
                      total |-> packet.size, about |-> packet.sent]
    OBVIOUS
  <2>5. reports' = reports \cup {r}
    BY <1>2, <2>3, <2>4 DEF Refuse, Hop
  <2>6. r.at = k /\ r.mtu = Reported(path.hops[k], Family(k))
    BY <2>4
  <2>7. NoneIsOld => r.mtu # 0 /\ Allows(Family(k), r.mtu, Limits)
    <3> SUFFICES ASSUME NoneIsOld PROVE r.mtu # 0 /\ Allows(Family(k), r.mtu, Limits)
      OBVIOUS
    <3>1. /\ ~path.hops[k].old /\ IsHop(path.hops[k]) /\ Family(k) \in {4, 6}
          /\ path.hops[k].translator \in BOOLEAN
      BY <1>f DEF NoneIsOld
    <3>2. Allows(Family(k), r.mtu, Limits)
      BY <1>0, <2>6, <3>1, ReportedIsAllowed
    <3>3. GoodHop(path.hops[k], Family(k), Family(1))
      BY <1>0, PathFacts
    <3>4. r.mtu # 0
      BY <2>6, <3>1, <3>3 DEF Reported, GoodHop, IsHop, Larger, Uint16
    <3> QED BY <3>2, <3>4
  <2> QED BY <1>n, <2>1, <2>5, <2>6, <2>7 DEF LInv
<1>3. CASE Receive
  <2>1. PICK r \in reports :
          /\ r.at = 1
          /\ reports' = reports \ {r} /\ UNCHANGED <<path, packet>>
          /\ pmtu' = IF r.mtu >= Smallest(Family(1)) THEN Smaller(pmtu, r.mtu) ELSE pmtu
    BY <1>3 DEF Receive
  <2>2. pmtu' = pmtu \/ pmtu' = r.mtu
    BY <2>1 DEF Smaller
  <2> QED BY <1>n, <2>1, <2>2 DEF LInv
<1>4. ASSUME NEW j \in 2..MaxHops, CarryBack(j) PROVE LInv'
  <2>1. PICK r \in reports :
          /\ r.at = j
          /\ reports' = (reports \ {r}) \cup {CarriedBack(r, path.hops[j - 1], Family(j))}
          /\ UNCHANGED <<path, pmtu, packet>>
    BY <1>4 DEF CarryBack
  <2>2. j \in 1..Length /\ GoodReport(r, Family(j), Family(1), First(path, j))
    BY <1>0, <2>1 DEF ReportKnown, Length, Family
  <2>3. PICK k : k = j - 1
    OBVIOUS
  <2>4. k \in 1..Length /\ k \in Nat \ {0} /\ j = k + 1
    BY <1>f, <1>4, <2>2, <2>3
  <2>5. PICK n : n = CarriedBack(r, path.hops[k], Family(j))
    OBVIOUS
  <2>6. /\ Family(k) \in {4, 6} /\ Family(j) \in {4, 6} /\ Family(1) \in {4, 6}
        /\ IsHop(path.hops[k]) /\ path.hops[k].translator \in BOOLEAN
        /\ Family(j) = Other(path.hops[k], Family(k))
    BY <1>f, <2>2, <2>4
  <2>7. r \in Reports /\ r.mtu <= 65535 /\ (Family(j) = 6 => r.mtu >= 1280)
    BY <2>2 DEF GoodReport, Smallest
  <2>8. n.at = k
    <3>1. First(path, k) \in BOOLEAN /\ First(path, j) \in BOOLEAN
          /\ (First(path, j) => First(path, k) /\ ~path.hops[k].translator)
      BY <2>4, FirstFacts
    <3>2. GoodHop(path.hops[k], Family(k), Family(1))
      BY <1>0, <2>4, PathFacts
    <3>3. n.at = r.at - 1
      BY <2>1, <2>2, <2>4, <2>5, <2>6, <3>1, <3>2, CarriedBackIsGood
    <3> QED BY <2>1, <2>3, <3>3
  <2>9. NoneIsOld => n.mtu # 0 /\ Allows(Family(k), n.mtu, Limits)
    <3> SUFFICES ASSUME NoneIsOld PROVE n.mtu # 0 /\ Allows(Family(k), n.mtu, Limits)
      OBVIOUS
    <3>1. r.mtu # 0 /\ Allows(Family(j), r.mtu, Limits)
      BY <2>1 DEF LInv
    <3> QED BY <1>0, <2>4, <2>5, <2>6, <2>7, <3>1, CarriedBackIsAllowed
  <2> QED BY <1>n, <2>1, <2>3, <2>5, <2>8, <2>9 DEF LInv
<1>5. Send \/ Forward \/ Lose \/ Arrive \/ UNCHANGED vars => UNCHANGED <<path, pmtu, reports>>
  BY DEF Send, Forward, Lose, Arrive, vars
<1> QED BY <1>1, <1>2, <1>3, <1>4, <1>5 DEF Next

\* Without old routers the host ends up with no less than one of the path's
\* limits, but for the 8 bytes of a fragment header.
THEOREM NothingWasted == Spec => []NotBelowPath
<1>1. Init => LInv
  BY DEF Init, LInv
<1>2. ASSUME IInv, LInv PROVE NotBelowPath
  <2> SUFFICES ASSUME NoneIsOld, pmtu # path.first
               PROVE  \E limit \in Limits :
                        pmtu >= limit - 8 + (IF Family(1) = 6 THEN 20 ELSE 0)
    BY DEF NotBelowPath, NoneIsOld
  <2>0. path \in Paths /\ pmtu \in Nat
    BY <1>2 DEF IInv, PmtuKnown
  <2>1. PICK limit \in Limits : pmtu - Shift(Family(1)) >= limit - 8
    BY <1>2 DEF LInv, Allows
  <2>2. limit \in Int
    BY <2>0, LimitsAreNumbers
  <2>3. pmtu >= limit - 8 + (IF Family(1) = 6 THEN 20 ELSE 0)
    BY <2>0, <2>1, <2>2 DEF Shift
  <2> QED BY <2>3
<1>3. Spec => []LInv
  BY <1>1, NextLInv, Invariance, PTL DEF Spec
<1> QED BY <1>2, <1>3, Invariance, PTL

-----------------------------------------------------------------------------
(* Error messages.                                                          *)

Rests == [pointer : Nat, mtu : Words, stray : BOOLEAN]
Quotes == [readable : BOOLEAN, header : Nat, size : Nat, total : Nat,
           fragment : BOOLEAN, icmp : BOOLEAN, echo : BOOLEAN]

Translation(f, m, c) == IF f = 4 THEN Translation4to6(m, c) ELSE Translation6to4(m, c)

\* A message m0 and what it has become tell their readers the same ...
TellSame(f0, m0, f, m) ==
    /\ Meaning(f, m) = Meaning(f0, m0)
    /\ Meaning(f, m) = "bad header" => Field(f, m) = Field(f0, m0) /\ Field(f, m) # "another"
    /\ ~IsError(f, m) => ~IsError(f0, m0) /\ m.rest = m0.rest

\* ... about the same packet.
QuoteSame(f0, m0, f, m) ==
    IsError(f, m) =>
        /\ IsError(f0, m0)
        /\ m.quoted.size >= Smaller(8, m0.quoted.size)
        /\ m.quoted.icmp => m.quoted.echo
        /\ m.quoted.fragment = m0.quoted.fragment /\ m.quoted.icmp = m0.quoted.icmp

Fits(f, m) ==
    IsError(f, m) =>
        LET q == m.quoted
            size == 8 + q.header + q.size
            start == IF f = 4 THEN StartSize4(q) ELSE StartSize6(q)
        IN  /\ size <= (IF f = 4 THEN 576 - 20 ELSE 1280 - 40)
            /\ start <= size
            /\ start % 2 = 1 => size = start

\* A translator with any configuration translates the message.
CarriesOn(f, m) == \A c \in Configs : Translation(f, m, c) # {}

-----------------------------------------------------------------------------
(* What the numbers and the rest of a header may be.                        *)

LEMMA WordsTyped == ASSUME NEW n \in Words PROVE n \in Nat /\ n <= 65535
BY DEF Words

LEMMA ZeroIsWord == 0 \in Words
BY DEF Words

LEMMA SmallAreWords == ASSUME NEW n \in Nat, n <= 65535 PROVE n \in Words
BY DEF Words

LEMMA Uint16Typed == ASSUME NEW n \in Int PROVE Uint16(n) \in Nat /\ Uint16(n) <= 65535
BY DEF Uint16

LEMMA MessageTyped == \A m : m \in Messages <=> /\ m = [type |-> m.type, code |-> m.code, rest |-> m.rest, quoted |-> m.quoted]
   /\ m.type \in Bytes /\ m.code \in Bytes /\ m.rest \in Rests /\ m.quoted \in Quotes
BY DEF Messages, Rests, Quotes

LEMMA BlankTyped == Blank \in Rests /\ Blank.stray = FALSE /\ Blank.pointer = 0
BY ZeroIsWord DEF Blank, Rests

LEMMA EstimateTyped ==
    ASSUME NEW size \in Int, NEW total \in Nat
    PROVE  EstimatedMtu(size, total) \in Nat /\ EstimatedMtu(size, total) <= 65535
<1> DEFINE Best(p) == p < total /\ \A q \in Plateaus : q < total => q <= p
<1>1. CASE \E p \in Plateaus : p < total
  <2>1. \E p \in Plateaus : Best(p)
    BY <1>1 DEF Plateaus
  <2>2. (CHOOSE p \in Plateaus : Best(p)) \in Plateaus
    BY <2>1
  <2>3. PlateauBelow(total) \in Plateaus
    BY <1>1, <2>2 DEF PlateauBelow
  <2>4. \A p \in Plateaus : p \in Nat /\ p <= 65535
    BY DEF Plateaus
  <2> QED
    BY <2>3, <2>4 DEF EstimatedMtu, LowestPlateau
<1>2. CASE ~\E p \in Plateaus : p < total
  BY <1>2 DEF EstimatedMtu, PlateauBelow, LowestPlateau
<1> QED
  BY <1>1, <1>2

LEMMA MtusTyped ==
    ASSUME NEW mtu \in Nat, mtu <= 65535, NEW c \in Configs
    PROVE  Mtu4to6(mtu, c) \in Words /\ Mtu6to4(mtu, c) \in Words
<1>1. c.mtu4 \in Nat /\ c.mtu6 \in Nat
  BY IcmpAssumption
<1>2. Mtu4to6(mtu, c) \in Nat /\ Mtu4to6(mtu, c) <= 65535
  BY <1>1 DEF Mtu4to6, Uint16, Smaller, Larger
<1>3. Mtu6to4(mtu, c) \in Nat /\ Mtu6to4(mtu, c) <= 65535
  BY <1>1 DEF Mtu6to4, Uint16, Smaller, Larger
<1> QED
  BY <1>2, <1>3, SmallAreWords

\* The last four bytes of a translated header, by what the message is.
LEMMA Rest4Known ==
    ASSUME NEW m \in Messages, NEW c \in Configs, NEW r \in Rest4to6(m, c)
    PROVE  /\ r \in Rests
           /\ m.type \in Echo4 => r = m.rest
           /\ m.type \notin Echo4 => ~r.stray
           /\ m.type = 12 => \E p \in Pointers4to6 : p[1] = m.rest.pointer /\ p[2] = r.pointer
           /\ m.type \notin {3, 12} \cup Echo4 => r = Blank
           /\ m.type = 3 /\ m.code \notin {2, 4} => r = Blank
<1>1. CASE m.type \in Echo4
  BY <1>1, MessageTyped DEF Rest4to6, ErrorRest4to6, Echo4
<1>2. CASE m.type \notin Echo4 /\ m.type = 3 /\ m.code = 2
  BY <1>2, ZeroIsWord DEF Rest4to6, ErrorRest4to6, Rests, Blank, Echo4
<1>3. CASE m.type \notin Echo4 /\ m.type = 3 /\ m.code = 4
  <2> DEFINE mtu == IF m.rest.mtu # 0 THEN m.rest.mtu
                    ELSE EstimatedMtu(m.quoted.header + m.quoted.size, m.quoted.total)
  <2>0. m.rest.mtu \in Words /\ m.quoted.header \in Nat /\ m.quoted.size \in Nat /\ m.quoted.total \in Nat
    BY MessageTyped DEF Rests, Quotes
  <2>1. mtu \in Nat /\ mtu <= 65535
    <3>1. PICK shown \in Int, total \in Nat :
              shown = m.quoted.header + m.quoted.size /\ total = m.quoted.total
      BY <2>0
    <3>a. EstimatedMtu(shown, total) \in Nat /\ EstimatedMtu(shown, total) <= 65535
      BY EstimateTyped
    <3>2. m.rest.mtu \in Nat /\ m.rest.mtu <= 65535
      BY <2>0, WordsTyped
    <3> QED
      BY <3>1, <3>a, <3>2
  <2>2. r = [Blank EXCEPT !.mtu = Mtu4to6(mtu, c)]
    BY <1>3 DEF Rest4to6, ErrorRest4to6, Echo4
  <2>3. Mtu4to6(mtu, c) \in Words
    BY <2>1, MtusTyped
  <2> HIDE DEF mtu
  <2> QED
    <3>1. r = [pointer |-> 0, mtu |-> Mtu4to6(mtu, c), stray |-> FALSE]
      BY <2>2 DEF Blank
    <3>2. r \in Rests /\ ~r.stray
      BY <2>3, <3>1 DEF Rests
    <3> QED
      BY <1>3, <3>2 DEF Echo4
<1>4. CASE m.type = 12
  <2>1. PICK p \in Pointers4to6 : p[1] = m.rest.pointer /\ r = [Blank EXCEPT !.pointer = p[2]]
    BY <1>4 DEF Rest4to6, ErrorRest4to6, Echo4
  <2>2. p[2] \in Nat
    BY DEF Pointers4to6
  <2>3. r \in Rests /\ ~r.stray /\ r.pointer = p[2]
    BY <2>1, <2>2, ZeroIsWord DEF Rests, Blank
  <2> QED
    BY <1>4, <2>1, <2>3 DEF Echo4
<1>5. CASE m.type \notin {12} \cup Echo4 /\ ~(m.type = 3 /\ m.code \in {2, 4})
  BY <1>5, BlankTyped DEF Rest4to6, ErrorRest4to6, Echo4
<1> QED
  BY <1>1, <1>2, <1>3, <1>4, <1>5 DEF Echo4

LEMMA Rest6Known ==
    ASSUME NEW m \in Messages, NEW c \in Configs, NEW r \in Rest6to4(m, c)
    PROVE  /\ r \in Rests
           /\ m.type \in Echo6 => r = m.rest
           /\ m.type \notin Echo6 => ~r.stray
           /\ m.type = 4 /\ m.code # 1 =>
                \E p \in Pointers6to4 : p[1] = m.rest.pointer /\ p[2] = r.pointer
           /\ m.type = 4 /\ m.code = 1 => r = Blank
           /\ m.type \notin {2, 4} \cup Echo6 => r = Blank
<1>1. CASE m.type \in Echo6
  BY <1>1, MessageTyped DEF Rest6to4, ErrorRest6to4, IsUnrecognized6, Echo6
<1>2. CASE m.type = 4 /\ m.code = 1
  <2>1. r = Blank /\ m.type \notin Echo6
    BY <1>2 DEF Rest6to4, ErrorRest6to4, IsUnrecognized6, Echo6
  <2> QED
    BY <1>2, <2>1, BlankTyped
<1>3. CASE m.type = 2
  <2>1. r = [Blank EXCEPT !.mtu = Mtu6to4(m.rest.mtu, c)]
    BY <1>3 DEF Rest6to4, ErrorRest6to4, IsUnrecognized6, Echo6
  <2>2. m.rest.mtu \in Nat /\ m.rest.mtu <= 65535
    BY MessageTyped, WordsTyped DEF Rests
  <2>3. Mtu6to4(m.rest.mtu, c) \in Words
    BY <2>2, MtusTyped
  <2> QED
    <3>1. r = [pointer |-> 0, mtu |-> Mtu6to4(m.rest.mtu, c), stray |-> FALSE]
      BY <2>1 DEF Blank
    <3>2. r \in Rests /\ ~r.stray
      BY <2>3, <3>1 DEF Rests
    <3> QED
      BY <1>3, <3>2 DEF Echo6
<1>4. CASE m.type = 4 /\ m.code # 1
  <2>1. PICK p \in Pointers6to4 : p[1] = m.rest.pointer /\ r = [Blank EXCEPT !.pointer = p[2]]
    BY <1>4 DEF Rest6to4, ErrorRest6to4, IsUnrecognized6, Echo6
  <2>2. p[2] \in Nat
    BY DEF Pointers6to4
  <2>3. r \in Rests /\ ~r.stray /\ r.pointer = p[2]
    BY <2>1, <2>2, ZeroIsWord DEF Rests, Blank
  <2> QED
    BY <1>4, <2>1, <2>3 DEF Echo6
<1>5. CASE m.type \notin {2, 4} \cup Echo6
  BY <1>5, BlankTyped DEF Rest6to4, ErrorRest6to4, IsUnrecognized6, Echo6
<1> QED
  BY <1>1, <1>2, <1>3, <1>4, <1>5 DEF Echo6

-----------------------------------------------------------------------------
(* One translator, from IPv4 to IPv6.                                       *)

Rows4to6(t) ==
    \/ t[1] = 8 /\ t[2] = 0 /\ t[3] = 128 /\ t[4] = 0
    \/ t[1] = 0 /\ t[2] = 0 /\ t[3] = 129 /\ t[4] = 0
    \/ t[1] = 3 /\ t[2] \notin {2, 3, 4, 9, 10, 13, 15} /\ t[3] = 1 /\ t[4] = 0
    \/ t[1] = 3 /\ t[2] \in {9, 10, 13, 15} /\ t[3] = 1 /\ t[4] = 1
    \/ t[1] = 3 /\ t[2] = 2 /\ t[3] = 4 /\ t[4] = 1
    \/ t[1] = 3 /\ t[2] = 3 /\ t[3] = 1 /\ t[4] = 4
    \/ t[1] = 3 /\ t[2] = 4 /\ t[3] = 2 /\ t[4] = 0
    \/ t[1] = 11 /\ t[2] \in {0, 1} /\ t[3] = 3 /\ t[4] = t[2]
    \/ t[1] = 12 /\ t[2] \in {0, 2} /\ t[3] = 4 /\ t[4] = 0

LEMMA TableRows4to6 == ASSUME NEW t \in TypesAndCodes4to6 PROVE Rows4to6(t)
BY DEF TypesAndCodes4to6, Rows4to6

LEMMA Parts4to6 ==
    ASSUME NEW m \in Messages, NEW c \in Configs, NEW n \in Translation4to6(m, c)
    PROVE  \E t \in TypesAndCodes4to6, rest \in Rest4to6(m, c) :
               /\ t[1] = m.type /\ t[2] = m.code
               /\ m.type \in Echo4 \/ QuoteIsTranslatable(m.quoted)
               /\ n = [type |-> t[3], code |-> t[4], rest |-> rest,
                       quoted |-> IF m.type \in Echo4 THEN m.quoted ELSE Quote4to6(m.quoted)]
BY DEF Translation4to6

LEMMA QuotedTyped == ASSUME NEW m \in Messages PROVE m.quoted \in Quotes
BY DEF Messages, Quotes

LEMMA RequotedParts ==
    ASSUME NEW q \in Quotes, NEW header, NEW size, NEW total, NEW new,
           new = [q EXCEPT !.header = header, !.size = size, !.total = total]
    PROVE  new = [readable |-> q.readable, header |-> header, size |-> size, total |-> total,
              fragment |-> q.fragment, icmp |-> q.icmp, echo |-> q.echo]
BY DEF Quotes

\* What becomes of a quoted packet.
LEMMA Quote4to6Known ==
    ASSUME NEW q \in Quotes, QuoteIsTranslatable(q)
    PROVE  LET new == Quote4to6(q) IN
             /\ new \in Quotes /\ QuoteIsTranslatable(new)
             /\ new.size >= Smaller(8, q.size)
             /\ new.fragment = q.fragment /\ new.icmp = q.icmp
             /\ 8 + new.header + new.size <= 1240
             /\ StartSize6(new) <= 8 + new.header + new.size
             /\ StartSize6(new) % 2 = 0
<1> DEFINE new == Quote4to6(q)
           header == IF q.fragment THEN 48 ELSE 40
<1>1. /\ q.size \in Nat /\ q.header \in Nat /\ q.total \in Nat /\ q.fragment \in BOOLEAN
      /\ q.icmp \in BOOLEAN /\ q.echo \in BOOLEAN /\ q.readable \in BOOLEAN
  BY DEF Quotes
<1>2. Uint16(q.total - q.header) + 40 \in Nat
  BY <1>1 DEF Uint16
<1>3. new = [readable |-> q.readable, header |-> header, size |-> Smaller(q.size, 1240 - (8 + header)),
             total |-> Uint16(q.total - q.header) + 40, fragment |-> q.fragment,
             icmp |-> q.icmp, echo |-> q.echo]
  <2>1. new = [q EXCEPT !.header = header, !.size = Smaller(q.size, 1240 - (8 + header)),
                        !.total = Uint16(q.total - q.header) + 40]
    BY DEF Quote4to6
  <2> HIDE DEF new, header
  <2>2. PICK size, total :
            size = Smaller(q.size, 1240 - (8 + header)) /\ total = Uint16(q.total - q.header) + 40
    OBVIOUS
  <2>3. new = [q EXCEPT !.header = header, !.size = size, !.total = total]
    BY <2>1, <2>2
  <2>4. new = [readable |-> q.readable, header |-> header, size |-> size, total |-> total,
             fragment |-> q.fragment, icmp |-> q.icmp, echo |-> q.echo]
    BY <2>3, RequotedParts
  <2> QED
    BY <2>2, <2>4
<1>4. Smaller(q.size, 1240 - (8 + header)) \in Nat
  BY <1>1 DEF Smaller
<1>5. new \in Quotes
  BY <1>1, <1>2, <1>3, <1>4 DEF Quotes
<1>6. /\ new.readable = q.readable /\ new.header = header
      /\ new.size = Smaller(q.size, 1240 - (8 + header))
      /\ new.fragment = q.fragment /\ new.icmp = q.icmp /\ new.echo = q.echo
  BY <1>3
<1> HIDE DEF new
<1>7. q.icmp => new.size >= 8
  BY <1>1, <1>6 DEF QuoteIsTranslatable, Smaller
<1>8. QuoteIsTranslatable(new)
  BY <1>6, <1>7 DEF QuoteIsTranslatable
<1>9. new.size >= Smaller(8, q.size) /\ 8 + new.header + new.size <= 1240
  BY <1>1, <1>6 DEF Smaller
<1>10. StartSize6(new) <= 8 + new.header + new.size /\ StartSize6(new) % 2 = 0
  BY <1>1, <1>4, <1>6, <1>7 DEF StartSize6
<1> QED
  BY <1>5, <1>6, <1>8, <1>9, <1>10 DEF new

LEMMA ByFamily ==
    ASSUME NEW m
    PROVE  /\ Meaning(4, m) = Meaning4(m) /\ Meaning(6, m) = Meaning6(m)
           /\ Field(4, m) = Field4(m.rest.pointer) /\ Field(6, m) = Field6(m.rest.pointer)
           /\ IsError(4, m) <=> m.type \notin Echo4
           /\ IsError(6, m) <=> m.type \notin Echo6
BY DEF Meaning, Field, IsError

\* What the types and codes mean that the translators know.
LEMMA Meanings4 ==
    ASSUME NEW m
    PROVE  /\ m.type = 8 => Meaning4(m) = "echo request"
           /\ m.type = 0 => Meaning4(m) = "echo reply"
           /\ m.type = 3 /\ m.code \in {9, 10, 13, 15} => Meaning4(m) = "prohibited"
           /\ m.type = 3 /\ m.code = 2 => Meaning4(m) = "no such protocol"
           /\ m.type = 3 /\ m.code = 3 => Meaning4(m) = "no such port"
           /\ m.type = 3 /\ m.code = 4 => Meaning4(m) = "too big"
           /\ m.type = 3 /\ m.code \notin {2, 3, 4, 9, 10, 13, 15} => Meaning4(m) = "unreachable"
           /\ m.type = 11 /\ m.code = 0 => Meaning4(m) = "no hops left"
           /\ m.type = 11 /\ m.code = 1 => Meaning4(m) = "fragments missing"
           /\ m.type = 12 => Meaning4(m) = "bad header"
<1>1. CASE m.type \in {0, 8}
  BY <1>1 DEF Meaning4
<1>2. CASE m.type = 3 /\ m.code \in {2, 3, 4}
  BY <1>2 DEF Meaning4
<1>3. CASE m.type = 3 /\ m.code \notin {2, 3, 4}
  BY <1>3 DEF Meaning4
<1>4. CASE m.type = 11
  BY <1>4 DEF Meaning4
<1>5. CASE m.type = 12
  BY <1>5 DEF Meaning4
<1> QED
  BY <1>1, <1>2, <1>3, <1>4, <1>5

LEMMA Meanings6 ==
    ASSUME NEW m
    PROVE  /\ m.type = 128 => Meaning6(m) = "echo request"
           /\ m.type = 129 => Meaning6(m) = "echo reply"
           /\ m.type = 1 /\ m.code = 1 => Meaning6(m) = "prohibited"
           /\ m.type = 1 /\ m.code = 4 => Meaning6(m) = "no such port"
           /\ m.type = 1 /\ m.code \notin {1, 4} => Meaning6(m) = "unreachable"
           /\ m.type = 2 => Meaning6(m) = "too big"
           /\ m.type = 3 /\ m.code = 0 => Meaning6(m) = "no hops left"
           /\ m.type = 3 /\ m.code = 1 => Meaning6(m) = "fragments missing"
           /\ m.type = 4 /\ m.code = 1 => Meaning6(m) = "no such protocol"
           /\ m.type = 4 /\ m.code # 1 => Meaning6(m) = "bad header"
<1>1. CASE m.type \in {128, 129}
  BY <1>1 DEF Meaning6
<1>2. CASE m.type \in {1, 2}
  BY <1>2 DEF Meaning6
<1>3. CASE m.type = 3
  BY <1>3 DEF Meaning6
<1>4. CASE m.type = 4
  BY <1>4 DEF Meaning6
<1> QED
  BY <1>1, <1>2, <1>3, <1>4

\* The pairs of an ICMPv4 and an ICMPv6 message that the tables relate.
Alike(m4, m6) ==
    \/ m4.type = 8 /\ m6.type = 128
    \/ m4.type = 0 /\ m6.type = 129
    \/ m4.type = 3 /\ m4.code \notin {2, 3, 4, 9, 10, 13, 15} /\ m6.type = 1 /\ m6.code \notin {1, 4}
    \/ m4.type = 3 /\ m4.code \in {9, 10, 13, 15} /\ m6.type = 1 /\ m6.code = 1
    \/ m4.type = 3 /\ m4.code = 2 /\ m6.type = 4 /\ m6.code = 1
    \/ m4.type = 3 /\ m4.code = 3 /\ m6.type = 1 /\ m6.code = 4
    \/ m4.type = 3 /\ m4.code = 4 /\ m6.type = 2
    \/ m4.type = 11 /\ m4.code = 0 /\ m6.type = 3 /\ m6.code = 0
    \/ m4.type = 11 /\ m4.code = 1 /\ m6.type = 3 /\ m6.code = 1
    \/ m4.type = 12 /\ m6.type = 4 /\ m6.code = 0

LEMMA AlikeMeansSame ==
    ASSUME NEW m4, NEW m6, Alike(m4, m6)
    PROVE  Meaning4(m4) = Meaning6(m6)
<1>1. CASE m4.type = 8 /\ m6.type = 128
  <2>1. Meaning4(m4) = "echo request"
    BY <1>1, Meanings4
  <2>2. Meaning6(m6) = "echo request"
    BY <1>1, Meanings6
  <2> QED
    BY <2>1, <2>2
<1>2. CASE m4.type = 0 /\ m6.type = 129
  <2>1. Meaning4(m4) = "echo reply"
    BY <1>2, Meanings4
  <2>2. Meaning6(m6) = "echo reply"
    BY <1>2, Meanings6
  <2> QED
    BY <2>1, <2>2
<1>3. CASE m4.type = 3 /\ m4.code \notin {2, 3, 4, 9, 10, 13, 15} /\ m6.type = 1 /\ m6.code \notin {1, 4}
  <2>1. Meaning4(m4) = "unreachable"
    BY <1>3, Meanings4
  <2>2. Meaning6(m6) = "unreachable"
    BY <1>3, Meanings6
  <2> QED
    BY <2>1, <2>2
<1>4. CASE m4.type = 3 /\ m4.code \in {9, 10, 13, 15} /\ m6.type = 1 /\ m6.code = 1
  <2>1. Meaning4(m4) = "prohibited"
    BY <1>4, Meanings4
  <2>2. Meaning6(m6) = "prohibited"
    BY <1>4, Meanings6
  <2> QED
    BY <2>1, <2>2
<1>5. CASE m4.type = 3 /\ m4.code = 2 /\ m6.type = 4 /\ m6.code = 1
  <2>1. Meaning4(m4) = "no such protocol"
    BY <1>5, Meanings4
  <2>2. Meaning6(m6) = "no such protocol"
    BY <1>5, Meanings6
  <2> QED
    BY <2>1, <2>2
<1>6. CASE m4.type = 3 /\ m4.code = 3 /\ m6.type = 1 /\ m6.code = 4
  <2>1. Meaning4(m4) = "no such port"
    BY <1>6, Meanings4
  <2>2. Meaning6(m6) = "no such port"
    BY <1>6, Meanings6
  <2> QED
    BY <2>1, <2>2
<1>7. CASE m4.type = 3 /\ m4.code = 4 /\ m6.type = 2
  <2>1. Meaning4(m4) = "too big"
    BY <1>7, Meanings4
  <2>2. Meaning6(m6) = "too big"
    BY <1>7, Meanings6
  <2> QED
    BY <2>1, <2>2
<1>8. CASE m4.type = 11 /\ m4.code = 0 /\ m6.type = 3 /\ m6.code = 0
  <2>1. Meaning4(m4) = "no hops left"
    BY <1>8, Meanings4
  <2>2. Meaning6(m6) = "no hops left"
    BY <1>8, Meanings6
  <2> QED
    BY <2>1, <2>2
<1>9. CASE m4.type = 11 /\ m4.code = 1 /\ m6.type = 3 /\ m6.code = 1
  <2>1. Meaning4(m4) = "fragments missing"
    BY <1>9, Meanings4
  <2>2. Meaning6(m6) = "fragments missing"
    BY <1>9, Meanings6
  <2> QED
    BY <2>1, <2>2
<1>10. CASE m4.type = 12 /\ m6.type = 4 /\ m6.code = 0
  <2>1. Meaning4(m4) = "bad header"
    BY <1>10, Meanings4
  <2>2. Meaning6(m6) = "bad header"
    BY <1>10, Meanings6
  <2> QED
    BY <2>1, <2>2
<1> QED
  BY <1>1, <1>2, <1>3, <1>4, <1>5, <1>6, <1>7, <1>8, <1>9, <1>10 DEF Alike

\* A pointer points into the same field of the other header.
LEMMA PointersSame4to6 ==
    ASSUME NEW p \in Pointers4to6
    PROVE  Field4(p[1]) = Field6(p[2]) /\ Field6(p[2]) # "another"
<1>1. \/ p[1] \in 0..1 /\ p[2] = p[1]
      \/ p[1] \in 2..3 /\ p[2] = 4
      \/ p[1] = 8 /\ p[2] = 7
      \/ p[1] = 9 /\ p[2] = 6
      \/ p[1] \in 12..15 /\ p[2] = 8
      \/ p[1] \in 16..19 /\ p[2] = 24
  BY DEF Pointers4to6
<1>2. CASE p[1] \in 0..1 /\ p[2] = p[1]
  BY <1>2 DEF Field4, Field6
<1>3. CASE p[1] \in 2..3 /\ p[2] = 4
  BY <1>3 DEF Field4, Field6
<1>4. CASE p[1] = 8 /\ p[2] = 7
  BY <1>4 DEF Field4, Field6
<1>5. CASE p[1] = 9 /\ p[2] = 6
  BY <1>5 DEF Field4, Field6
<1>6. CASE p[1] \in 12..15 /\ p[2] = 8
  BY <1>6 DEF Field4, Field6
<1>7. CASE p[1] \in 16..19 /\ p[2] = 24
  BY <1>7 DEF Field4, Field6
<1> QED
  BY <1>1, <1>2, <1>3, <1>4, <1>5, <1>6, <1>7

\* The other table knows every pointer that a table gives.
LEMMA PointersBack4to6 ==
    ASSUME NEW p \in Pointers4to6
    PROVE  \E back \in Pointers6to4 : back[1] = p[2]
<1>1. p[2] \in {0, 1, 4, 6, 7, 8, 24}
  BY DEF Pointers4to6
<1>2. {<<0, 0>>, <<1, 1>>, <<4, 2>>, <<6, 9>>, <<7, 8>>, <<8, 12>>, <<24, 16>>} \subseteq Pointers6to4
  BY DEF Pointers6to4
<1> QED
  BY <1>1, <1>2

LEMMA PointersBack6to4 ==
    ASSUME NEW p \in Pointers6to4
    PROVE  \E back \in Pointers4to6 : back[1] = p[2]
<1>1. p[2] \in {0, 1, 2, 8, 9, 12, 16}
  BY DEF Pointers6to4
<1>2. {<<0, 0>>, <<1, 1>>, <<2, 4>>, <<8, 7>>, <<9, 6>>, <<12, 8>>, <<16, 24>>} \subseteq Pointers4to6
  BY DEF Pointers4to6
<1> QED
  BY <1>1, <1>2

\* What a translator makes of an ICMPv4 message, by its parts.
LEMMA Made4to6 ==
    ASSUME NEW m \in Messages, NEW c \in Configs, NEW n \in Translation4to6(m, c)
    PROVE  n \in Messages /\ TellSame(4, m, 6, n) /\ QuoteSame(4, m, 6, n) /\ Fits(6, n)
           /\ CarriesOn(6, n)
<1>1. PICK t \in TypesAndCodes4to6, rest \in Rest4to6(m, c) :
               /\ t[1] = m.type /\ t[2] = m.code
               /\ m.type \in Echo4 \/ QuoteIsTranslatable(m.quoted)
               /\ n = [type |-> t[3], code |-> t[4], rest |-> rest,
                       quoted |-> IF m.type \in Echo4 THEN m.quoted ELSE Quote4to6(m.quoted)]
  BY Parts4to6
<1>2. Rows4to6(t)
  BY TableRows4to6
<1>3. m.quoted \in Quotes
  BY QuotedTyped
<1>4. /\ n.type = t[3] /\ n.code = t[4] /\ n.rest = rest
      /\ n.quoted = IF m.type \in Echo4 THEN m.quoted ELSE Quote4to6(m.quoted)
  BY <1>1
<1>5. n.quoted \in Quotes
  BY <1>1, <1>3, <1>4, Quote4to6Known
<1> DEFINE r == n.rest
<1>6. /\ r \in Rests
      /\ m.type \in Echo4 => r = m.rest
      /\ m.type \notin Echo4 => ~r.stray
      /\ m.type = 12 => \E p \in Pointers4to6 : p[1] = m.rest.pointer /\ p[2] = r.pointer
      /\ m.type \notin {3, 12} \cup Echo4 => r = Blank
      /\ m.type = 3 /\ m.code \notin {2, 4} => r = Blank
  BY <1>4, Rest4Known
<1>7. n.type \in Bytes /\ n.code \in Bytes
  BY <1>2, <1>4 DEF Rows4to6, Bytes
<1>8. n \in Messages
  BY <1>1, <1>4, <1>5, <1>6, <1>7 DEF Messages, Rests, Quotes
<1>9. Meaning4(m) = Meaning6(n)
  <2>1. Alike(m, n)
    BY <1>1, <1>2, <1>4 DEF Rows4to6, Alike
  <2> QED
    BY <2>1, AlikeMeansSame
<1>10. m.type \in Echo4 <=> n.type \in Echo6
  BY <1>1, <1>2, <1>4 DEF Rows4to6, Echo4, Echo6
<1>12. Meaning4(m) = "bad header" => m.type = 12
  BY <1>1, <1>2, Meanings4 DEF Rows4to6
<1>13. m.type = 12 => Field4(m.rest.pointer) = Field6(n.rest.pointer) /\ Field6(n.rest.pointer) # "another"
  <2> SUFFICES ASSUME NEW p \in Pointers4to6
               PROVE  Field4(p[1]) = Field6(p[2]) /\ Field6(p[2]) # "another"
    BY <1>6
  <2> QED
    BY PointersSame4to6
<1>14. TellSame(4, m, 6, n)
  <2>1. Meaning(6, n) = Meaning(4, m)
    BY <1>9, ByFamily
  <2>2. Meaning(6, n) = "bad header" => Field(6, n) = Field(4, m) /\ Field(6, n) # "another"
    <3>1. Meaning(6, n) = "bad header" => m.type = 12
      BY <1>12, <2>1, ByFamily
    <3> QED
      BY <1>13, <3>1, ByFamily
  <2>3. ~IsError(6, n) => ~IsError(4, m) /\ n.rest = m.rest
    BY <1>6, <1>10 DEF IsError
  <2> QED
    BY <2>1, <2>2, <2>3 DEF TellSame
<1>15. QuoteSame(4, m, 6, n)
  BY <1>1, <1>3, <1>4, <1>10, Quote4to6Known DEF QuoteSame, IsError, QuoteIsTranslatable
<1>16. Fits(6, n)
  BY <1>1, <1>3, <1>4, <1>10, Quote4to6Known DEF Fits, IsError
<1>17. CarriesOn(6, n)
  <2> SUFFICES ASSUME NEW c2 \in Configs PROVE Translation6to4(n, c2) # {}
    BY DEF CarriesOn, Translation
  <2>1. \E t2 \in TypesAndCodes6to4 : t2[1] = n.type /\ t2[2] = n.code
    <3>1. /\ {<<128, 0, 8, 0>>, <<129, 0, 0, 0>>, <<1, 0, 3, 1>>, <<1, 1, 3, 10>>, <<1, 4, 3, 3>>,
             <<2, 0, 3, 4>>} \subseteq TypesAndCodes6to4
          /\ {<<3, 0, 11, 0>>, <<3, 1, 11, 1>>, <<4, 0, 12, 0>>, <<4, 1, 3, 2>>}
                \subseteq TypesAndCodes6to4
      BY DEF TypesAndCodes6to4
    <3>2. \/ n.type \in {128, 129, 2} /\ n.code = 0
          \/ n.type = 1 /\ n.code \in {0, 1, 4}
          \/ n.type \in {3, 4} /\ n.code \in {0, 1}
      BY <1>2, <1>4 DEF Rows4to6
    <3> QED
      BY <3>1, <3>2
  <2>2. \E r2 : r2 \in Rest6to4(n, c2)
    <3>1. n.type = 4 /\ n.code # 1 => \E p \in Pointers4to6 : n.rest.pointer = p[2]
      BY <1>1, <1>2, <1>4, <1>6 DEF Rows4to6
    <3>2. n.type = 4 /\ n.code # 1 => \E p \in Pointers6to4 : p[1] = n.rest.pointer
      BY <3>1, PointersBack4to6
    <3>3. n.type \notin Echo6 => ~n.rest.stray
      BY <1>6, <1>10
    <3>4. n.type \notin {2, 4} \cup Echo6 => n.rest = Blank
      BY <1>1, <1>2, <1>4, <1>6 DEF Rows4to6, Echo4, Echo6
    <3>5. CASE n.type \in Echo6 \/ IsUnrecognized6(n)
      BY <3>5 DEF Rest6to4
    <3>6. CASE n.type \notin Echo6 /\ ~IsUnrecognized6(n)
      <4>1. \E r2 : r2 \in ErrorRest6to4(n, c2)
        <5>1. CASE n.type = 2
          <6>1. ErrorRest6to4(n, c2) = {[Blank EXCEPT !.mtu = Mtu6to4(n.rest.mtu, c2)]}
            BY <5>1 DEF ErrorRest6to4
          <6> QED
            BY <6>1
        <5>2. CASE n.type = 4
          <6>1. PICK p \in Pointers6to4 : p[1] = n.rest.pointer
            BY <3>2, <3>6, <5>2 DEF IsUnrecognized6
          <6>2. [Blank EXCEPT !.pointer = p[2]] \in
                  {[Blank EXCEPT !.pointer = q[2]] :
                     q \in {q \in Pointers6to4 : q[1] = n.rest.pointer}}
            BY <6>1
          <6>3. ErrorRest6to4(n, c2) =
                  {[Blank EXCEPT !.pointer = q[2]] :
                     q \in {q \in Pointers6to4 : q[1] = n.rest.pointer}}
            BY <5>2 DEF ErrorRest6to4
          <6> QED
            BY <6>2, <6>3
        <5>3. CASE n.type \notin {2, 4}
          BY <3>4, <3>6, <5>3 DEF ErrorRest6to4
        <5> QED
          BY <5>1, <5>2, <5>3
      <4> QED
        BY <3>3, <3>6, <4>1 DEF Rest6to4
    <3> QED
      BY <3>5, <3>6
  <2>3. n.type \in Echo6 \/ QuoteIsTranslatable(n.quoted)
    BY <1>1, <1>3, <1>4, <1>10, Quote4to6Known
  <2>4. PICK t2 \in TypesAndCodes6to4, r2 \in Rest6to4(n, c2) : t2[1] = n.type /\ t2[2] = n.code
    BY <2>1, <2>2
  <2>5. [type |-> t2[3], code |-> t2[4], rest |-> r2,
         quoted |-> IF n.type \in Echo6 THEN n.quoted ELSE Quote6to4(n.quoted)]
            \in Translation6to4(n, c2)
    BY <2>3, <2>4 DEF Translation6to4
  <2> QED
    BY <2>5
<1> QED
  BY <1>8, <1>14, <1>15, <1>16, <1>17

-----------------------------------------------------------------------------
(* One translator, from IPv6 to IPv4.                                       *)

Rows6to4(t) ==
    \/ t[1] = 128 /\ t[2] = 0 /\ t[3] = 8 /\ t[4] = 0
    \/ t[1] = 129 /\ t[2] = 0 /\ t[3] = 0 /\ t[4] = 0
    \/ t[1] = 1 /\ t[2] \notin {1, 4} /\ t[3] = 3 /\ t[4] = 1
    \/ t[1] = 1 /\ t[2] = 1 /\ t[3] = 3 /\ t[4] = 10
    \/ t[1] = 1 /\ t[2] = 4 /\ t[3] = 3 /\ t[4] = 3
    \/ t[1] = 2 /\ t[2] = 0 /\ t[3] = 3 /\ t[4] = 4
    \/ t[1] = 3 /\ t[2] \in {0, 1} /\ t[3] = 11 /\ t[4] = t[2]
    \/ t[1] = 4 /\ t[2] = 0 /\ t[3] = 12 /\ t[4] = 0
    \/ t[1] = 4 /\ t[2] = 1 /\ t[3] = 3 /\ t[4] = 2

LEMMA TableRows6to4 == ASSUME NEW t \in TypesAndCodes6to4 PROVE Rows6to4(t)
BY DEF TypesAndCodes6to4, Rows6to4

LEMMA PointersSame6to4 ==
    ASSUME NEW p \in Pointers6to4
    PROVE  Field6(p[1]) = Field4(p[2]) /\ Field4(p[2]) # "another"
<1>1. \/ p[1] \in 0..1 /\ p[2] = p[1]
      \/ p[1] \in 4..5 /\ p[2] = 2
      \/ p[1] = 6 /\ p[2] = 9
      \/ p[1] = 7 /\ p[2] = 8
      \/ p[1] \in 8..23 /\ p[2] = 12
      \/ p[1] \in 24..39 /\ p[2] = 16
  BY DEF Pointers6to4
<1>2. CASE p[1] \in 0..1 /\ p[2] = p[1]
  BY <1>2 DEF Field4, Field6
<1>3. CASE p[1] \in 4..5 /\ p[2] = 2
  BY <1>3 DEF Field4, Field6
<1>4. CASE p[1] = 6 /\ p[2] = 9
  BY <1>4 DEF Field4, Field6
<1>5. CASE p[1] = 7 /\ p[2] = 8
  BY <1>5 DEF Field4, Field6
<1>6. CASE p[1] \in 8..23 /\ p[2] = 12
  BY <1>6 DEF Field4, Field6
<1>7. CASE p[1] \in 24..39 /\ p[2] = 16
  BY <1>7 DEF Field4, Field6
<1> QED
  BY <1>1, <1>2, <1>3, <1>4, <1>5, <1>6, <1>7

LEMMA Parts6to4 ==
    ASSUME NEW m \in Messages, NEW c \in Configs, NEW n \in Translation6to4(m, c)
    PROVE  \E t \in TypesAndCodes6to4, rest \in Rest6to4(m, c) :
               /\ t[1] = m.type /\ t[2] = m.code
               /\ m.type \in Echo6 \/ QuoteIsTranslatable(m.quoted)
               /\ n = [type |-> t[3], code |-> t[4], rest |-> rest,
                       quoted |-> IF m.type \in Echo6 THEN m.quoted ELSE Quote6to4(m.quoted)]
BY DEF Translation6to4

\* What becomes of a quoted packet.
LEMMA Quote6to4Known ==
    ASSUME NEW q \in Quotes, QuoteIsTranslatable(q)
    PROVE  LET new == Quote6to4(q) IN
             /\ new \in Quotes /\ QuoteIsTranslatable(new)
             /\ new.size >= Smaller(8, q.size)
             /\ new.fragment = q.fragment /\ new.icmp = q.icmp
             /\ 8 + new.header + new.size <= 556
             /\ StartSize4(new) <= 8 + new.header + new.size
             /\ StartSize4(new) % 2 = 1 => 8 + new.header + new.size = StartSize4(new)
<1> DEFINE new == Quote6to4(q)
<1>1. /\ q.size \in Nat /\ q.header \in Nat /\ q.total \in Nat /\ q.fragment \in BOOLEAN
      /\ q.icmp \in BOOLEAN /\ q.echo \in BOOLEAN /\ q.readable \in BOOLEAN
  BY DEF Quotes
<1>2. Uint16(q.total - 20) \in Nat
  BY <1>1 DEF Uint16
<1>3. new = [readable |-> q.readable, header |-> 20, size |-> Smaller(q.size, 556 - 28),
             total |-> Uint16(q.total - 20), fragment |-> q.fragment,
             icmp |-> q.icmp, echo |-> q.echo]
  <2>1. new = [q EXCEPT !.header = 20, !.size = Smaller(q.size, 556 - 28),
                        !.total = Uint16(q.total - 20)]
    BY DEF Quote6to4
  <2> HIDE DEF new
  <2>2. PICK header, size, total :
            header = 20 /\ size = Smaller(q.size, 556 - 28) /\ total = Uint16(q.total - 20)
    OBVIOUS
  <2>3. new = [q EXCEPT !.header = header, !.size = size, !.total = total]
    BY <2>1, <2>2
  <2>4. new = [readable |-> q.readable, header |-> header, size |-> size, total |-> total,
               fragment |-> q.fragment, icmp |-> q.icmp, echo |-> q.echo]
    BY <2>3, RequotedParts
  <2> QED
    BY <2>2, <2>4
<1>4. Smaller(q.size, 556 - 28) \in Nat
  BY <1>1 DEF Smaller
<1>5. new \in Quotes
  BY <1>1, <1>2, <1>3, <1>4 DEF Quotes
<1>6. /\ new.readable = q.readable /\ new.header = 20
      /\ new.size = Smaller(q.size, 556 - 28)
      /\ new.fragment = q.fragment /\ new.icmp = q.icmp /\ new.echo = q.echo
  BY <1>3
<1> HIDE DEF new
<1>7. q.icmp => new.size >= 8
  BY <1>1, <1>6 DEF QuoteIsTranslatable, Smaller
<1>8. QuoteIsTranslatable(new)
  BY <1>6, <1>7 DEF QuoteIsTranslatable
<1>9. new.size >= Smaller(8, q.size) /\ 8 + new.header + new.size <= 556
  BY <1>1, <1>6 DEF Smaller
<1>10. /\ StartSize4(new) <= 8 + new.header + new.size
       /\ StartSize4(new) % 2 = 1 => 8 + new.header + new.size = StartSize4(new)
  BY <1>1, <1>4, <1>6 DEF StartSize4, Smaller
<1> QED
  BY <1>5, <1>6, <1>8, <1>9, <1>10 DEF new

LEMMA Made6to4 ==
    ASSUME NEW m \in Messages, NEW c \in Configs, NEW n \in Translation6to4(m, c)
    PROVE  n \in Messages /\ TellSame(6, m, 4, n) /\ QuoteSame(6, m, 4, n) /\ Fits(4, n)
           /\ CarriesOn(4, n)
<1>1. PICK t \in TypesAndCodes6to4, rest \in Rest6to4(m, c) :
               /\ t[1] = m.type /\ t[2] = m.code
               /\ m.type \in Echo6 \/ QuoteIsTranslatable(m.quoted)
               /\ n = [type |-> t[3], code |-> t[4], rest |-> rest,
                       quoted |-> IF m.type \in Echo6 THEN m.quoted ELSE Quote6to4(m.quoted)]
  BY Parts6to4
<1>2. Rows6to4(t)
  BY TableRows6to4
<1>3. m.quoted \in Quotes
  BY QuotedTyped
<1>4. /\ n.type = t[3] /\ n.code = t[4] /\ n.rest = rest
      /\ n.quoted = IF m.type \in Echo6 THEN m.quoted ELSE Quote6to4(m.quoted)
  BY <1>1
<1>5. n.quoted \in Quotes
  BY <1>1, <1>3, <1>4, Quote6to4Known
<1> DEFINE r == n.rest
<1>6. /\ r \in Rests
      /\ m.type \in Echo6 => r = m.rest
      /\ m.type \notin Echo6 => ~r.stray
      /\ m.type = 4 /\ m.code # 1 =>
           \E p \in Pointers6to4 : p[1] = m.rest.pointer /\ p[2] = r.pointer
      /\ m.type = 4 /\ m.code = 1 => r = Blank
      /\ m.type \notin {2, 4} \cup Echo6 => r = Blank
  BY <1>4, Rest6Known
<1>7. n.type \in Bytes /\ n.code \in Bytes
  BY <1>2, <1>4 DEF Rows6to4, Bytes
<1>8. n \in Messages
  BY <1>1, <1>4, <1>5, <1>6, <1>7 DEF Messages, Rests, Quotes
<1>9. Meaning6(m) = Meaning4(n)
  <2>1. Alike(n, m)
    BY <1>1, <1>2, <1>4 DEF Rows6to4, Alike
  <2> QED
    BY <2>1, AlikeMeansSame
<1>10. m.type \in Echo6 <=> n.type \in Echo4
  BY <1>1, <1>2, <1>4 DEF Rows6to4, Echo4, Echo6
<1>12. Meaning6(m) = "bad header" => m.type = 4 /\ m.code # 1
  <2>1. CASE m.type \in {128, 129, 2}
    BY <2>1, Meanings6
  <2>2. CASE m.type = 1
    BY <2>2, Meanings6
  <2>3. CASE m.type = 3
    BY <1>1, <1>2, <2>3, Meanings6 DEF Rows6to4
  <2>4. CASE m.type = 4
    BY <2>4, Meanings6
  <2> QED
    BY <1>1, <1>2, <2>1, <2>2, <2>3, <2>4 DEF Rows6to4
<1>13. m.type = 4 /\ m.code # 1 =>
         Field6(m.rest.pointer) = Field4(n.rest.pointer) /\ Field4(n.rest.pointer) # "another"
  <2> SUFFICES ASSUME NEW p \in Pointers6to4
               PROVE  Field6(p[1]) = Field4(p[2]) /\ Field4(p[2]) # "another"
    BY <1>6
  <2> QED
    BY PointersSame6to4
<1>14. TellSame(6, m, 4, n)
  <2>1. Meaning(4, n) = Meaning(6, m)
    BY <1>9, ByFamily
  <2>2. Meaning(4, n) = "bad header" => Field(4, n) = Field(6, m) /\ Field(4, n) # "another"
    <3>1. Meaning(4, n) = "bad header" => m.type = 4 /\ m.code # 1
      BY <1>12, <2>1, ByFamily
    <3> QED
      BY <1>13, <3>1, ByFamily
  <2>3. ~IsError(4, n) => ~IsError(6, m) /\ n.rest = m.rest
    BY <1>6, <1>10 DEF IsError
  <2> QED
    BY <2>1, <2>2, <2>3 DEF TellSame
<1>15. QuoteSame(6, m, 4, n)
  BY <1>1, <1>3, <1>4, <1>10, Quote6to4Known DEF QuoteSame, IsError, QuoteIsTranslatable
<1>16. Fits(4, n)
  BY <1>1, <1>3, <1>4, <1>10, Quote6to4Known DEF Fits, IsError
<1>17. CarriesOn(4, n)
  <2> SUFFICES ASSUME NEW c2 \in Configs PROVE Translation4to6(n, c2) # {}
    BY DEF CarriesOn, Translation
  <2>1. \E t2 \in TypesAndCodes4to6 : t2[1] = n.type /\ t2[2] = n.code
    <3>1. /\ {<<8, 0, 128, 0>>, <<0, 0, 129, 0>>, <<3, 1, 1, 0>>, <<3, 10, 1, 1>>, <<3, 3, 1, 4>>}
                \subseteq TypesAndCodes4to6
          /\ {<<3, 4, 2, 0>>, <<3, 2, 4, 1>>, <<11, 0, 3, 0>>, <<11, 1, 3, 1>>, <<12, 0, 4, 0>>}
                \subseteq TypesAndCodes4to6
      BY DEF TypesAndCodes4to6
    <3>2. \/ n.type \in {8, 0, 12} /\ n.code = 0
          \/ n.type = 3 /\ n.code \in {1, 2, 3, 4, 10}
          \/ n.type = 11 /\ n.code \in {0, 1}
      BY <1>2, <1>4 DEF Rows6to4
    <3> QED
      BY <3>1, <3>2
  <2>2. \E r2 : r2 \in Rest4to6(n, c2)
    <3>1. n.type = 12 => \E p \in Pointers6to4 : n.rest.pointer = p[2]
      BY <1>1, <1>2, <1>4, <1>6 DEF Rows6to4
    <3>2. n.type = 12 => \E p \in Pointers4to6 : p[1] = n.rest.pointer
      BY <3>1, PointersBack6to4
    <3>3. n.type \notin Echo4 => ~n.rest.stray
      BY <1>6, <1>10
    <3>4. n.type \notin {12} \cup Echo4 /\ ~(n.type = 3 /\ n.code = 4) => n.rest = Blank
      BY <1>1, <1>2, <1>4, <1>6 DEF Rows6to4, Echo4, Echo6
    <3>5. CASE n.type \in Echo4
      BY <3>5 DEF Rest4to6
    <3>6. CASE n.type \notin Echo4
      <4>1. \E r2 : r2 \in ErrorRest4to6(n, c2)
        <5>1. CASE n.type = 3 /\ n.code = 2
          <6>1. n.rest = Blank
            BY <3>4, <3>6, <5>1
          <6>2. ErrorRest4to6(n, c2) =
                  {[Blank EXCEPT !.pointer = 6] : blank \in {Blank} \cap {n.rest}}
            BY <5>1 DEF ErrorRest4to6
          <6> QED
            BY <6>1, <6>2
        <5>2. CASE n.type = 3 /\ n.code = 4
          <6> DEFINE mtu == IF n.rest.mtu # 0 THEN n.rest.mtu
                            ELSE EstimatedMtu(n.quoted.header + n.quoted.size, n.quoted.total)
          <6>1. ErrorRest4to6(n, c2) = {[Blank EXCEPT !.mtu = Mtu4to6(mtu, c2)]}
            BY <5>2 DEF ErrorRest4to6
          <6> QED
            BY <6>1
        <5>3. CASE n.type = 12
          <6>1. PICK p \in Pointers4to6 : p[1] = n.rest.pointer
            BY <3>2, <5>3
          <6>2. [Blank EXCEPT !.pointer = p[2]] \in
                  {[Blank EXCEPT !.pointer = q[2]] :
                     q \in {q \in Pointers4to6 : q[1] = n.rest.pointer}}
            BY <6>1
          <6>3. ErrorRest4to6(n, c2) =
                  {[Blank EXCEPT !.pointer = q[2]] :
                     q \in {q \in Pointers4to6 : q[1] = n.rest.pointer}}
            BY <5>3 DEF ErrorRest4to6
          <6> QED
            BY <6>2, <6>3
        <5>4. CASE n.type # 12 /\ ~(n.type = 3 /\ n.code \in {2, 4})
          BY <3>4, <3>6, <5>4 DEF ErrorRest4to6
        <5> QED
          BY <5>1, <5>2, <5>3, <5>4
      <4> QED
        BY <3>3, <3>6, <4>1 DEF Rest4to6
    <3> QED
      BY <3>5, <3>6
  <2>3. n.type \in Echo4 \/ QuoteIsTranslatable(n.quoted)
    BY <1>1, <1>3, <1>4, <1>10, Quote6to4Known
  <2>4. PICK t2 \in TypesAndCodes4to6, r2 \in Rest4to6(n, c2) : t2[1] = n.type /\ t2[2] = n.code
    BY <2>1, <2>2
  <2>5. [type |-> t2[3], code |-> t2[4], rest |-> r2,
         quoted |-> IF n.type \in Echo4 THEN n.quoted ELSE Quote4to6(n.quoted)]
            \in Translation4to6(n, c2)
    BY <2>3, <2>4 DEF Translation4to6
  <2> QED
    BY <2>5
<1> QED
  BY <1>8, <1>14, <1>15, <1>16, <1>17

-----------------------------------------------------------------------------
(* A message on its way: what is known of it after one translator is known  *)
(* after two, since both relations to the message that arose are            *)
(* transitive.                                                              *)

LEMMA TellSameAgain ==
    ASSUME NEW f0, NEW m0, NEW f1, NEW m1, NEW f2, NEW m2,
           TellSame(f0, m0, f1, m1), TellSame(f1, m1, f2, m2)
    PROVE  TellSame(f0, m0, f2, m2)
BY DEF TellSame

LEMMA QuoteSameAgain ==
    ASSUME NEW f0, NEW m0 \in Messages, NEW f1, NEW m1 \in Messages, NEW f2, NEW m2 \in Messages,
           QuoteSame(f0, m0, f1, m1), QuoteSame(f1, m1, f2, m2)
    PROVE  QuoteSame(f0, m0, f2, m2)
<1>1. m0.quoted.size \in Nat /\ m1.quoted.size \in Nat /\ m2.quoted.size \in Nat
  BY DEF Messages
<1> QED
  BY <1>1 DEF QuoteSame, Smaller

\* What a translator makes of a message of either protocol.
LEMMA Made ==
    ASSUME NEW f \in {4, 6}, NEW m \in Messages, NEW c \in Configs, NEW n \in Translation(f, m, c)
    PROVE  /\ n \in Messages /\ TellSame(f, m, 10 - f, n) /\ QuoteSame(f, m, 10 - f, n)
           /\ Fits(10 - f, n) /\ CarriesOn(10 - f, n)
<1>1. CASE f = 4
  <2>1. n \in Translation4to6(m, c) /\ 10 - f = 6
    BY <1>1 DEF Translation
  <2> QED
    BY <1>1, <2>1, Made4to6
<1>2. CASE f = 6
  <2>1. n \in Translation6to4(m, c) /\ 10 - f = 4
    BY <1>2 DEF Translation
  <2> QED
    BY <1>2, <2>1, Made6to4
<1> QED
  BY <1>1, <1>2

\* A message that no translator has changed yet is the one that arose; one that
\* has been translated tells the same about the same packet, fits, and can be
\* translated back by any translator: that last part is what makes
\* SecondCarriesOn inductive.
IcmpInv ==
    /\ ErrorsTypeOK
    /\ fate = "none" => crossed = 0
    /\ crossed = 0 /\ fate # "none" => origin = [family |-> family, message |-> message]
    /\ crossed > 0 =>
         /\ TellSame(origin.family, origin.message, family, message)
         /\ QuoteSame(origin.family, origin.message, family, message)
         /\ Fits(family, message)
         /\ CarriesOn(family, message)
    /\ SecondCarriesOn

LEMMA NothingTyped == Nothing \in Messages
<1>1. Blank \in Rests
  BY BlankTyped
<1>2. 0 \in Bytes
  BY DEF Bytes
<1> QED
  BY <1>1, <1>2 DEF Nothing, Messages, Rests

LEMMA InitIcmpInv == ErrorsInit => IcmpInv
BY NothingTyped DEF ErrorsInit, IcmpInv, ErrorsTypeOK, SecondCarriesOn

LEMMA CrossIcmpInv == ASSUME IcmpInv, Cross PROVE IcmpInv'
<1>0. ErrorsTypeOK
  BY DEF IcmpInv
<1>1. PICK k \in 1..2 : k = crossed + 1
  BY <1>0 DEF Cross, ErrorsTypeOK
<1>2. config[k] \in Configs
  BY <1>0 DEF ErrorsTypeOK
<1>3. family \in {4, 6} /\ message \in Messages /\ origin.family \in {4, 6}
      /\ origin.message \in Messages
  BY <1>0 DEF ErrorsTypeOK
<1>4. message' \in Translation(family, message, config[k]) /\ family' = 10 - family
  BY <1>1 DEF Cross, Translated, Translation
<1>5. /\ message' \in Messages
      /\ TellSame(family, message, family', message')
      /\ QuoteSame(family, message, family', message')
      /\ Fits(family', message') /\ CarriesOn(family', message')
  BY <1>2, <1>3, <1>4, Made
<1>6. TellSame(origin.family, origin.message, family', message')
  <2>1. CASE crossed = 0
    BY <1>5, <2>1 DEF IcmpInv, Cross
  <2>2. CASE crossed > 0
    BY <1>5, <2>2, TellSameAgain DEF IcmpInv
  <2> QED
    BY <1>0, <2>1, <2>2 DEF ErrorsTypeOK
<1>7. QuoteSame(origin.family, origin.message, family', message')
  <2>1. CASE crossed = 0
    BY <1>5, <2>1 DEF IcmpInv, Cross
  <2>2. CASE crossed > 0
    BY <1>3, <1>5, <2>2, QuoteSameAgain DEF IcmpInv
  <2> QED
    BY <1>0, <2>1, <2>2 DEF ErrorsTypeOK
<1>8. crossed' = k /\ fate' = "travels" /\ fate = "travels" /\ UNCHANGED <<config, origin>>
  BY <1>1 DEF Cross
<1>9. family' \in {4, 6}
  BY <1>3, <1>4
<1>10. ErrorsTypeOK'
  BY <1>0, <1>5, <1>8, <1>9 DEF ErrorsTypeOK
<1>11. SecondCarriesOn'
  BY <1>8 DEF SecondCarriesOn
<1> QED
  BY <1>5, <1>6, <1>7, <1>8, <1>10, <1>11 DEF IcmpInv

LEMMA NextIcmpInv == IcmpInv /\ [ErrorsNext]_errorsVars => IcmpInv'
<1> SUFFICES ASSUME IcmpInv, [ErrorsNext]_errorsVars PROVE IcmpInv'
  OBVIOUS
<1>0. ErrorsTypeOK
  BY DEF IcmpInv
<1>1. ASSUME Arise PROVE IcmpInv'
  <2>1. PICK f \in {4, 6}, m \in Messages :
            family' = f /\ message' = m /\ origin' = [family |-> f, message |-> m]
    BY <1>1, IcmpAssumption DEF Arise
  <2>2. crossed' = 0 /\ fate' = "travels" /\ config' = config
    BY <1>1 DEF Arise, IcmpInv
  <2>3. ErrorsTypeOK'
    BY <1>0, <2>1, <2>2 DEF ErrorsTypeOK
  <2> QED
    BY <2>1, <2>2, <2>3 DEF IcmpInv, SecondCarriesOn
<1>2. ASSUME Cross PROVE IcmpInv'
  BY <1>2, CrossIcmpInv
<1>3. ASSUME Drop PROVE IcmpInv'
  <2>1. crossed = 0
    <3> SUFFICES ASSUME crossed > 0 PROVE FALSE
      BY <1>0 DEF ErrorsTypeOK
    <3>1. CarriesOn(family, message)
      BY DEF IcmpInv
    <3>2. crossed + 1 \in 1..2
      BY <1>0, <1>3 DEF Drop, ErrorsTypeOK
    <3>3. config[crossed + 1] \in Configs
      BY <1>0, <3>2 DEF ErrorsTypeOK
    <3>4. Translation(family, message, config[crossed + 1]) # {}
      BY <3>1, <3>3 DEF CarriesOn
    <3> QED
      BY <1>3, <3>4 DEF Drop, Translated, Translation
  <2>2. fate' = "dropped" /\ fate = "travels" /\ UNCHANGED <<config, family, origin, message, crossed>>
    BY <1>3 DEF Drop
  <2> QED
    BY <1>0, <2>1, <2>2 DEF IcmpInv, ErrorsTypeOK, SecondCarriesOn
<1>4. ASSUME ReachHost PROVE IcmpInv'
  <2>1. /\ fate' = "arrived" /\ fate = "travels" /\ crossed = 2
        /\ UNCHANGED <<config, family, origin, message, crossed>>
    BY <1>4 DEF ReachHost
  <2> QED
    BY <1>0, <2>1 DEF IcmpInv, ErrorsTypeOK, SecondCarriesOn
<1>5. ASSUME Finish PROVE IcmpInv'
  <2>1. ErrorsTypeOK'
    BY <1>0, <1>5, NothingTyped DEF Finish, ErrorsTypeOK
  <2> QED
    BY <1>5, <2>1 DEF Finish, IcmpInv, SecondCarriesOn
<1>6. ASSUME UNCHANGED errorsVars PROVE IcmpInv'
  BY <1>0, <1>6 DEF errorsVars, IcmpInv, ErrorsTypeOK, SecondCarriesOn
<1> QED
  BY <1>1, <1>2, <1>3, <1>4, <1>5, <1>6 DEF ErrorsNext

\* Whatever messages arise and however translators are configured, IcmpInv
\* holds in every state.
THEOREM IcmpInvariant == ErrorsSpec => []IcmpInv
<1> QED
  BY InitIcmpInv, NextIcmpInv, PTL DEF ErrorsSpec

\* ErrorsTypeOK: no translator makes a type, a code or an MTU that does not fit its
\* field (xlat_4to6_icmp.c, xlat_6to4_icmp.c).
THEOREM MessagesTyped == ErrorsSpec => []ErrorsTypeOK
<1>1. IcmpInv => ErrorsTypeOK
  BY DEF IcmpInv
<1> QED
  BY <1>1, IcmpInvariant, PTL

\* MeaningKept, for every message and every configuration of two translators.
THEOREM MeaningIsKept == ErrorsSpec => []MeaningKept
<1>1. IcmpInv => MeaningKept
  BY DEF IcmpInv, MeaningKept, TellSame
<1> QED
  BY <1>1, IcmpInvariant, PTL

\* SecondCarriesOn: what the first translator lets through no second one drops.
THEOREM SecondAlwaysCarriesOn == ErrorsSpec => []SecondCarriesOn
<1>1. IcmpInv => SecondCarriesOn
  BY DEF IcmpInv
<1> QED
  BY <1>1, IcmpInvariant, PTL

\* QuoteIdentifies: a translated error message still shows whose packet it is
\* about, and is not about an error message.
THEOREM QuotesIdentify == ErrorsSpec => []QuoteIdentifies
<1>1. IcmpInv => QuoteIdentifies
  BY DEF IcmpInv, QuoteIdentifies, QuoteSame
<1> QED
  BY <1>1, IcmpInvariant, PTL

\* ErrorFits, whatever is quoted.
THEOREM ErrorsFit == ErrorsSpec => []ErrorFits
<1>1. IcmpInv => ErrorFits
  BY DEF IcmpInv, ErrorFits, Fits
<1> QED
  BY <1>1, IcmpInvariant, PTL
=============================================================================
