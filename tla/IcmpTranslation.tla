---------------------------- MODULE IcmpTranslation ----------------------------
(****************************************************************************)
(* The translation of ICMP messages in both directions (xlat_4to6_icmp.c,   *)
(* xlat_6to4_icmp.c).  It keeps no state: these are operators that other    *)
(* modules use.  A translation gives the set of messages that come out,     *)
(* which is empty if the message is dropped.                                *)
(*                                                                          *)
(* A message is [type, code, rest, quoted].  Its rest is what the last four *)
(* bytes of the ICMP header are read as: a pointer, an MTU, and whether a   *)
(* byte that must be zero is not (stray).  An echo message carries these    *)
(* bytes as they are.  The packet an error message quotes is                *)
(*   readable  its headers are whole and valid, its addresses translatable, *)
(*   header    the size of its IP headers,                                  *)
(*   size      how many bytes behind them are quoted,                       *)
(*   total     the size of the original packet, as its header says,         *)
(*   fragment, icmp, echo                                                   *)
(*             whether it is a fragment, carries ICMP, is a valid echo.     *)
(* A translator's configuration is a record of its outbound MTUs.           *)
(****************************************************************************)
EXTENDS Integers

Smaller(a, b) == IF a <= b THEN a ELSE b
Larger(a, b) == IF a <= b THEN b ELSE a

\* What a uint8_t and a uint16_t can hold, and a value assigned to the latter.
Bytes == {n \in Nat : n < 256}
Words == {n \in Nat : n < 65536}
Uint16(n) == n % 65536

-----------------------------------------------------------------------------
(* Types and codes, as <<old type, old code, new type, new code>>.          *)

TypesAndCodes4to6 ==
    {<<8, 0, 128, 0>>, <<0, 0, 129, 0>>}
    \cup {<<3, code, 1, 0>> : code \in {0, 1, 5, 6, 7, 8, 11, 12}}
    \cup {<<3, code, 1, 1>> : code \in {9, 10, 13, 15}}
    \cup {<<3, 2, 4, 1>>, <<3, 3, 1, 4>>, <<3, 4, 2, 0>>}
    \cup {<<11, code, 3, code>> : code \in {0, 1}}
    \cup {<<12, code, 4, 0>> : code \in {0, 2}}

\* Variation: the two codes of an unreachable host and port are exchanged.
TypesAndCodes6to4Exchanged ==
    {<<128, 0, 8, 0>>, <<129, 0, 0, 0>>}
    \cup {<<1, code, 3, 3>> : code \in {0, 2, 3}}
    \cup {<<1, 1, 3, 10>>, <<1, 4, 3, 1>>, <<2, 0, 3, 4>>}
    \cup {<<3, code, 11, code>> : code \in {0, 1}}
    \cup {<<4, 0, 12, 0>>, <<4, 1, 3, 2>>}

TypesAndCodes6to4 ==
    {<<128, 0, 8, 0>>, <<129, 0, 0, 0>>}
    \cup {<<1, code, 3, 1>> : code \in {0, 2, 3}}
    \cup {<<1, 1, 3, 10>>, <<1, 4, 3, 3>>, <<2, 0, 3, 4>>}
    \cup {<<3, code, 11, code>> : code \in {0, 1}}
    \cup {<<4, 0, 12, 0>>, <<4, 1, 3, 2>>}

-----------------------------------------------------------------------------
(* Pointers into the header of the quoted packet, as <<old, new>>.          *)

Pointers4to6 ==
    {<<0, 0>>, <<1, 1>>, <<8, 7>>, <<9, 6>>}
    \cup {<<old, 4>> : old \in 2..3}
    \cup {<<old, 8>> : old \in 12..15}
    \cup {<<old, 24>> : old \in 16..19}

Pointers6to4 ==
    {<<0, 0>>, <<1, 1>>, <<6, 9>>, <<7, 8>>}
    \cup {<<old, 2>> : old \in 4..5}
    \cup {<<old, 12>> : old \in 8..23}
    \cup {<<old, 16>> : old \in 24..39}

-----------------------------------------------------------------------------
(* The MTU of a Packet Too Big and of a Fragmentation Needed.               *)

\* _plateau_mtus
Plateaus == {65535, 32000, 17914, 8166, 4352, 2002, 1492, 1006, 508, 296, 68}

LowestPlateau == 68     \* _default_plateau_mtu

PlateauBelow(total) ==
    IF \E p \in Plateaus : p < total
    THEN CHOOSE p \in Plateaus : p < total /\ \A q \in Plateaus : q < total => q <= p
    ELSE LowestPlateau

\* _estimate_likely_mtu(), for old routers that do not say what their MTU is.
EstimatedMtu(quotedSize, total) ==
    IF quotedSize < 20 THEN LowestPlateau ELSE PlateauBelow(total)

\* Variation: the smallest MTU an IPv6 link may have is forgotten.
Mtu4to6Unclamped(mtu, c) ==
    Uint16(Smaller(Smaller(Smaller(65515, mtu) + 20, c.mtu6), c.mtu4 + 20))

\* _recalculate_packet_too_big_mtu(), once the estimate has been made.
Mtu4to6(mtu, c) ==
    LET grown == Uint16(Smaller(Smaller(65515, mtu) + 20, c.mtu6))
    IN  Uint16(Larger(1280, Smaller(grown, c.mtu4 + 20)))

\* Variation: the difference of the headers is added, not subtracted.
Mtu6to4Grown(mtu, c) ==
    LET grown == Uint16(Smaller(Larger(20, mtu) + 20, c.mtu4))
    IN  Larger(68, Smaller(grown, c.mtu6 - 20))

Mtu6to4(mtu, c) ==
    LET shrunk == Uint16(Smaller(Larger(20, mtu) - 20, c.mtu4))
    IN  Uint16(Larger(68, Uint16(Smaller(shrunk, c.mtu6 - 20))))

-----------------------------------------------------------------------------
(* Whole messages.                                                          *)

Blank == [pointer |-> 0, mtu |-> 0, stray |-> FALSE]

Echo4 == {0, 8}
Echo6 == {128, 129}

\* _validate_and_translate_rest_of_icmp_header()
ErrorRest4to6(m, c) ==
    CASE m.type = 3 /\ m.code = 2 ->
           {[Blank EXCEPT !.pointer = 6] : blank \in {Blank} \cap {m.rest}}
      [] m.type = 3 /\ m.code = 4 ->
           LET mtu == IF m.rest.mtu # 0 THEN m.rest.mtu
                      ELSE EstimatedMtu(m.quoted.header + m.quoted.size, m.quoted.total)
           IN  {[Blank EXCEPT !.mtu = Mtu4to6(mtu, c)]}
      [] m.type = 12 ->
           {[Blank EXCEPT !.pointer = p[2]] : p \in {p \in Pointers4to6 : p[1] = m.rest.pointer}}
      [] OTHER -> {Blank} \cap {m.rest}

Rest4to6(m, c) ==
    IF m.type \in Echo4 THEN {m.rest} ELSE {r \in ErrorRest4to6(m, c) : ~m.rest.stray}

\* _validate_and_translate_rest_of_header(), but for an Unrecognized Next Header
ErrorRest6to4(m, c) ==
    CASE m.type = 2 -> {[Blank EXCEPT !.mtu = Mtu6to4(m.rest.mtu, c)]}
      [] m.type = 4 ->
           {[Blank EXCEPT !.pointer = p[2]] : p \in {p \in Pointers6to4 : p[1] = m.rest.pointer}}
      [] OTHER -> {Blank} \cap {m.rest}

IsUnrecognized6(m) == m.type = 4 /\ m.code = 1

\* Variation: what an Unrecognized Next Header carries is carried on.
Rest6to4Copied(m, c) ==
    IF m.type \in Echo6 \/ IsUnrecognized6(m) THEN {m.rest}
    ELSE {r \in ErrorRest6to4(m, c) : ~m.rest.stray}

\* What the code does not look at in an Unrecognized Next Header is the pointer.
Rest6to4(m, c) ==
    IF m.type \in Echo6 THEN {m.rest}
    ELSE IF IsUnrecognized6(m) THEN {Blank}
    ELSE {r \in ErrorRest6to4(m, c) : ~m.rest.stray}

\* Variation: an error message may quote another error message.
QuoteIsTranslatableNested(q) ==
    /\ q.readable
    /\ q.icmp => ~q.fragment /\ q.size >= 8

\* A quoted ICMP message must be an echo and show it.
QuoteIsTranslatable(q) ==
    /\ q.readable
    /\ q.icmp => ~q.fragment /\ q.size >= 8 /\ q.echo

\* Variation: the limit forgets the ICMP header.
Quote4to6Long(q) ==
    LET header == IF q.fragment THEN 48 ELSE 40
    IN  [q EXCEPT !.header = header, !.size = Smaller(q.size, 1240 - header),
                  !.total = Uint16(q.total - q.header) + 40]

\* The quoted packet with its translated header, cut so that the whole
\* ICMPv6 packet has 1280 bytes at most.
Quote4to6(q) ==
    LET header == IF q.fragment THEN 48 ELSE 40
    IN  [q EXCEPT !.header = header, !.size = Smaller(q.size, 1240 - (8 + header)),
                  !.total = Uint16(q.total - q.header) + 40]

\* The same for IPv4, where the limit is 576 bytes.
Quote6to4(q) ==
    [q EXCEPT !.header = 20, !.size = Smaller(q.size, 556 - 28), !.total = Uint16(q.total - 20)]

\* message_start_size of a translated error message: what is rewritten of it.
StartSize6(q) == 8 + (IF q.fragment THEN 48 ELSE 40) + (IF q.icmp THEN 8 ELSE 0)

StartSize4(q) == 28 + Smaller(q.size, 4)

\* xlat_4to6_icmp__translate_icmpv4_to_icmpv6()
Translation4to6(m, c) ==
    {[type |-> t[3], code |-> t[4], rest |-> rest,
      quoted |-> IF m.type \in Echo4 THEN m.quoted ELSE Quote4to6(m.quoted)] :
        t \in {t \in TypesAndCodes4to6 : <<t[1], t[2]>> = <<m.type, m.code>>},
        rest \in {r \in Rest4to6(m, c) : m.type \in Echo4 \/ QuoteIsTranslatable(m.quoted)}}

\* xlat_6to4_icmp__translate_icmpv6_to_icmpv4()
Translation6to4(m, c) ==
    {[type |-> t[3], code |-> t[4], rest |-> rest,
      quoted |-> IF m.type \in Echo6 THEN m.quoted ELSE Quote6to4(m.quoted)] :
        t \in {t \in TypesAndCodes6to4 : <<t[1], t[2]>> = <<m.type, m.code>>},
        rest \in {r \in Rest6to4(m, c) : m.type \in Echo6 \/ QuoteIsTranslatable(m.quoted)}}
=============================================================================
