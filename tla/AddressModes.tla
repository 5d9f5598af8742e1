----------------------------- MODULE AddressModes -----------------------------
(****************************************************************************)
(* The built-in addressing modes (xlat_addr*.c, utils_xlat_addr.c,          *)
(* utils_ip.c).  They keep no state: these are operators that other modules *)
(* use.  An operator that translates gives the set of what comes out, which *)
(* is empty if the packet is not translated.                                *)
(*                                                                          *)
(* An IPv4 address is its four bytes, an IPv6 address its first 96 bits and *)
(* its last four bytes.  A configuration is the mode, the translator's and  *)
(* the router's addresses, the prefix and whether private addresses pass.   *)
(****************************************************************************)
EXTENDS Integers

\* utils_ip__is_ipv4_addr_unusable()
IsUnusable(a) ==
    \/ a[1] \in {0, 127} \cup 224..239
    \/ a = <<255, 255, 255, 255>>

\* utils_ip__is_ipv4_addr_unusable_or_private()
IsUnusableOrPrivate(a) ==
    \/ a[1] \in {0, 10, 127} \/ a[1] >= 224
    \/ a[1] = 100 /\ a[2] \in 64..127
    \/ a[1] = 172 /\ a[2] \in 16..31
    \/ <<a[1], a[2]>> \in {<<169, 254>>, <<192, 168>>, <<198, 18>>, <<198, 19>>}
    \/ <<a[1], a[2], a[3]>> \in
         {<<192, 0, 0>>, <<192, 0, 2>>, <<192, 88, 99>>, <<198, 51, 100>>, <<203, 0, 113>>}

\* _nat64_clat_siit__is_ipv4_embeddable_into_prefix()
Embeddable(a, c) ==
    /\ a # c.router4
    /\ IF c.allowPrivate THEN ~IsUnusable(a) ELSE ~IsUnusableOrPrivate(a)

\* Variation: the last byte of the address is not copied.
EmbeddedShort(a, c) == [prefix |-> c.prefix, low |-> <<a[1], a[2], a[3], 0>>]

Embedded(a, c) == [prefix |-> c.prefix, low |-> a]

-----------------------------------------------------------------------------
(* One address of a packet, and of a packet quoted in an ICMP error.        *)

IntoPrefix(a, c) == {x \in {Embedded(a, c)} : Embeddable(a, c) /\ x # c.router6}

OutOfPrefix(x, c) ==
    {a \in {x.low} : x # c.router6 /\ x.prefix = c.prefix /\ Embeddable(a, c)}

\* Variation: an address that becomes the translator's is let through.
IntoPrefixNotTranslatorUnchecked(a, c) == {x \in IntoPrefix(a, c) : a # c.translator4}

IntoPrefixNotTranslator(a, c) ==
    {x \in IntoPrefix(a, c) : a # c.translator4 /\ x # c.translator6}

OutOfPrefixNotTranslator(x, c) ==
    {a \in OutOfPrefix(x, c) : x # c.translator6 /\ a # c.translator4}

QuotedIntoPrefix(a, c) == {Embedded(a, c)}

QuotedOutOfPrefix(x, c) == {a \in {x.low} : x.prefix = c.prefix}

Translator4to6(a, c) == {x \in {c.translator6} : a = c.translator4}

Translator6to4(x, c) == {a \in {c.translator4} : x = c.translator6}

-----------------------------------------------------------------------------
(* Both addresses, <<source, destination>>.  A quoted packet went the other *)
(* way before: its source is translated as the destination of a packet of   *)
(* this direction, and its destination as the source.                       *)

Nat64Main4to6(p, c) == IntoPrefixNotTranslator(p[1], c) \X Translator4to6(p[2], c)
Nat64Quoted4to6(p, c) == Translator4to6(p[1], c) \X QuotedIntoPrefix(p[2], c)
Nat64Main6to4(p, c) == Translator6to4(p[1], c) \X OutOfPrefixNotTranslator(p[2], c)
Nat64Quoted6to4(p, c) == QuotedOutOfPrefix(p[1], c) \X Translator6to4(p[2], c)

ClatMain4to6(p, c) == Translator4to6(p[1], c) \X IntoPrefixNotTranslator(p[2], c)
ClatQuoted4to6(p, c) == QuotedIntoPrefix(p[1], c) \X Translator4to6(p[2], c)
ClatMain6to4(p, c) == OutOfPrefixNotTranslator(p[1], c) \X Translator6to4(p[2], c)
ClatQuoted6to4(p, c) == Translator6to4(p[1], c) \X QuotedOutOfPrefix(p[2], c)

SiitMain4to6(p, c) == IntoPrefix(p[1], c) \X IntoPrefix(p[2], c)

\* Variation: the destination is written where the source belongs.
SiitQuoted4to6Exchanged(p, c) == QuotedIntoPrefix(p[2], c) \X QuotedIntoPrefix(p[1], c)

SiitQuoted4to6(p, c) == QuotedIntoPrefix(p[1], c) \X QuotedIntoPrefix(p[2], c)
SiitMain6to4(p, c) == OutOfPrefix(p[1], c) \X OutOfPrefix(p[2], c)
SiitQuoted6to4(p, c) == QuotedOutOfPrefix(p[1], c) \X QuotedOutOfPrefix(p[2], c)

Main4to6(p, c) ==
    CASE c.mode = "nat64" -> Nat64Main4to6(p, c)
      [] c.mode = "clat" -> ClatMain4to6(p, c)
      [] c.mode = "siit" -> SiitMain4to6(p, c)

Quoted4to6(p, c) ==
    CASE c.mode = "nat64" -> Nat64Quoted4to6(p, c)
      [] c.mode = "clat" -> ClatQuoted4to6(p, c)
      [] c.mode = "siit" -> SiitQuoted4to6(p, c)

Main6to4(p, c) ==
    CASE c.mode = "nat64" -> Nat64Main6to4(p, c)
      [] c.mode = "clat" -> ClatMain6to4(p, c)
      [] c.mode = "siit" -> SiitMain6to4(p, c)

Quoted6to4(p, c) ==
    CASE c.mode = "nat64" -> Nat64Quoted6to4(p, c)
      [] c.mode = "clat" -> ClatQuoted6to4(p, c)
      [] c.mode = "siit" -> SiitQuoted6to4(p, c)

Main(family, p, c) == IF family = 4 THEN Main4to6(p, c) ELSE Main6to4(p, c)
Quoted(family, p, c) == IF family = 4 THEN Quoted4to6(p, c) ELSE Quoted6to4(p, c)
=============================================================================
